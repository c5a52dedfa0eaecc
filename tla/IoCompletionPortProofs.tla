----------------------- MODULE IoCompletionPortProofs -----------------------
(***************************************************************************)
(* The completion port for any number of threads, objects, files and       *)
(* priorities:                                                             *)
(*   - no wake-up is lost;                                                 *)
(*   - every object has exactly one holder, from its submission to the end *)
(*     of its life, and none after that;                                   *)
(*   - every step is a step of the abstract service, or none;              *)
(*   - only a failed read or the closing of the port costs it a thread.    *)
(***************************************************************************)
EXTENDS IoCompletionPort, PendingScanProofs, FunctionTheorems

\* Points of a thread at which it owns an object.
Owning == {"callback", "signal", "enqueue", "post"}

\* What a thread holds at each point; enqueue() only ever sees a read.
CurOK ==
  \A t \in Threads :
    /\ pc[t] \in Owning => cur[t] \in Ops
    /\ pc[t] = "enqueue" => cur[t] \in Reads
    /\ pc[t] \notin Owning => cur[t] = None

TypeInv == TypeOK /\ CurOK
-----------------------------------------------------------------------------
\* Packets have the type of the queue, and both the constants are typed.
LEMMA PacketTypes ==
  /\ Terminate \in Packets /\ Signal \in Packets
  /\ \A o \in Ops, ok \in BOOLEAN : Completion(o, ok) \in Packets
BY DEF Terminate, Signal, Completion, Packets

\* Posting keeps the type of the queue.
LEMMA AppendType ==
  ASSUME NEW S, NEW q \in Seq(S), NEW e \in S
  PROVE  Append(q, e) \in Seq(S)
OBVIOUS

\* The scan finds a pending task.
LEMMA SelectFinds ==
  ASSUME TypeOK, pending # <<>>
  PROVE  Found([i \in 1 .. Len(pending) |-> priority[FileOf[pending[i].op]]], scan)
           \in 0 .. Len(pending) - 1
<1> DEFINE prio == [i \in 1 .. Len(pending) |-> priority[FileOf[pending[i].op]]]
<1>1. pending \in Seq(Tasks) /\ scan \in Nat /\ Len(pending) \in Nat \ {0}
  BY DEF TypeOK
<1>2. ASSUME NEW i \in 1 .. Len(pending) PROVE prio[i] \in Int
  <2>1. pending[i] \in Tasks
    BY <1>1
  <2>2. FileOf[pending[i].op] \in Files
    BY <2>1, OpsAssumption DEF Tasks
  <2>3. priority[FileOf[pending[i].op]] \in Nat
    BY <2>2, BoundsAssumption DEF TypeOK
  <2> QED BY <2>3
<1>3. prio \in Seq(Int) /\ Len(prio) = Len(pending) /\ prio # <<>>
  BY <1>1, <1>2
<1> HIDE DEF prio
<1>4. Found(prio, scan) \in 0 .. Len(prio) - 1
  BY <1>1, <1>3, FoundIsGreatest
<1> QED BY <1>3, <1>4 DEF prio

\* Moving one thread keeps what the others hold.
LEMMA CurStep ==
  ASSUME TypeInv, NEW t \in Threads, NEW x \in WorkerPoints \cup MainPoints,
         NEW c \in Ops \cup {None},
         pc' = [pc EXCEPT ![t] = x], cur' = [cur EXCEPT ![t] = c],
         x \in Owning => c \in Ops, x = "enqueue" => c \in Reads,
         x \notin Owning => c = None
  PROVE  /\ CurOK'
         /\ pc' \in [Threads -> WorkerPoints \cup MainPoints]
         /\ cur' \in [Threads -> Ops \cup {None}]
BY DEF TypeInv, TypeOK, CurOK

\* The same when the thread keeps its object.
LEMMA PcStep ==
  ASSUME TypeInv, NEW t \in Threads, NEW x \in WorkerPoints \cup MainPoints,
         pc' = [pc EXCEPT ![t] = x], UNCHANGED cur,
         x \in Owning => pc[t] \in Owning,
         x = "enqueue" => cur[t] \in Reads,
         x \notin Owning => pc[t] \notin Owning
  PROVE  /\ CurOK'
         /\ pc' \in [Threads -> WorkerPoints \cup MainPoints]
         /\ cur' \in [Threads -> Ops \cup {None}]
BY DEF TypeInv, TypeOK, CurOK
-----------------------------------------------------------------------------
\* The constructor: no thread runs and none holds an object.
LEMMA InitTypeInv == Init => TypeInv
<1> SUFFICES ASSUME Init PROVE TypeInv
  OBVIOUS
<1>1. TypeOK
  <2>1. queue \in Seq(Packets) /\ pending \in Seq(Tasks)
    BY EmptySeq DEF Init
  <2>2. /\ pc \in [Threads -> WorkerPoints \cup MainPoints]
        /\ cur \in [Threads -> Ops \cup {None}]
        /\ fate \in [Ops -> Fates] /\ runs \in [Ops -> Nat]
    BY DEF Init, WorkerPoints, MainPoints, Fates
  <2> QED BY <2>1, <2>2 DEF Init, TypeOK
<1>2. CurOK
  <2>1. \A t \in Threads : pc[t] \in {"open", "unborn"} /\ cur[t] = None
    BY DEF Init
  <2> QED BY <2>1 DEF CurOK, Owning
<1> QED BY <1>1, <1>2 DEF TypeInv

\* The steps of a thread in the worker loop.
LEMMA LoopTypeInv ==
  ASSUME TypeInv, NEW t \in Threads, Loop(t)
  PROVE  TypeInv'
<1> USE DEF At, Goto
<1>0. /\ queue \in Seq(Packets) /\ pending \in Seq(Tasks)
      /\ cur \in [Threads -> Ops \cup {None}]
      /\ pc \in [Threads -> WorkerPoints \cup MainPoints]
      /\ fate \in [Ops -> Fates] /\ kernel \in SUBSET InFlight
  BY DEF TypeInv, TypeOK
<1>e. LoopEnd(t) \in {"closed", "exited"}
  BY DEF LoopEnd
<1>1. CASE TakeCompletion(t)
  <2>1. Head(queue) \in Packets /\ Tail(queue) \in Seq(Packets) /\ Head(queue).op \in Ops
    <3>1. queue # <<>> /\ Head(queue).op # None
      BY <1>1 DEF TakeCompletion, IsCompletion
    <3>2. Head(queue) \in Packets /\ Tail(queue) \in Seq(Packets)
      BY <1>0, <3>1, HeadTailProperties
    <3> QED BY <3>1, <3>2 DEF Packets
  <2>2. runs' \in [Ops -> Nat]
    BY <1>1, <2>1 DEF TakeCompletion, TypeInv, TypeOK
  <2>3. CurOK' /\ pc' \in [Threads -> WorkerPoints \cup MainPoints]
               /\ cur' \in [Threads -> Ops \cup {None}]
    BY <1>1, <2>1, CurStep DEF TakeCompletion, Owning, WorkerPoints
  <2> QED BY <1>1, <2>1, <2>2, <2>3 DEF TakeCompletion, TypeInv, TypeOK, mainVars
<1>2. CASE TakeFailure(t)
  <2>1. Head(queue) \in Packets /\ Tail(queue) \in Seq(Packets) /\ Head(queue).op \in Ops
    <3>1. queue # <<>> /\ Head(queue).op # None
      BY <1>2 DEF TakeFailure, IsCompletion
    <3>2. Head(queue) \in Packets /\ Tail(queue) \in Seq(Packets)
      BY <1>0, <3>1, HeadTailProperties
    <3> QED BY <3>1, <3>2 DEF Packets
  <2>2. fate' \in [Ops -> Fates]
    BY <1>0, <1>2, <2>1 DEF TakeFailure, Fates
  <2>3. CurOK' /\ pc' \in [Threads -> WorkerPoints \cup MainPoints]
               /\ cur' \in [Threads -> Ops \cup {None}]
    BY <1>2, <1>e, PcStep DEF TakeFailure, Owning, WorkerPoints, MainPoints
  <2> QED BY <1>2, <2>1, <2>2, <2>3 DEF TakeFailure, TypeInv, TypeOK, mainVars
<1>3. CASE TakeSignal(t)
  <2>1. Tail(queue) \in Seq(Packets)
    BY <1>0, <1>3 DEF TakeSignal
  <2>2. CurOK' /\ pc' \in [Threads -> WorkerPoints \cup MainPoints]
               /\ cur' \in [Threads -> Ops \cup {None}]
    BY <1>3, PcStep DEF TakeSignal, Owning, WorkerPoints
  <2> QED BY <1>3, <2>1, <2>2 DEF TakeSignal, TypeInv, TypeOK, mainVars, histVars
<1>4. CASE TakeTerminate(t)
  <2>1. Tail(queue) \in Seq(Packets)
    BY <1>0, <1>4 DEF TakeTerminate
  <2>2. CurOK' /\ pc' \in [Threads -> WorkerPoints \cup MainPoints]
               /\ cur' \in [Threads -> Ops \cup {None}]
    BY <1>4, PcStep DEF TakeTerminate, Owning, WorkerPoints
  <2> QED BY <1>4, <2>1, <2>2 DEF TakeTerminate, TypeInv, TypeOK, mainVars, histVars
<1>5. CASE PostSignal(t)
  <2>1. CASE ~Refused(Signal)
    <3>1. queue' \in Seq(Packets) /\ pc' = [pc EXCEPT ![t] = "callback"]
          /\ UNCHANGED <<cur, fate>>
      <4>1. Append(queue, Signal) \in Seq(Packets)
        BY <1>0, PacketTypes
      <4> QED BY <1>5, <2>1, <4>1 DEF PostSignal
    <3>2. CurOK' /\ pc' \in [Threads -> WorkerPoints \cup MainPoints]
                 /\ cur' \in [Threads -> Ops \cup {None}]
      BY <1>5, <3>1, PcStep DEF PostSignal, Owning, WorkerPoints
    <3> QED BY <1>5, <3>1, <3>2 DEF PostSignal, TypeInv, TypeOK, mainVars
  <2>2. CASE Refused(Signal)
    <3>1. PICK x \in {"wait", "closed", "exited"} : pc' = [pc EXCEPT ![t] = x]
      BY <1>5, <1>e, <2>2 DEF PostSignal
    <3>2. cur' = [cur EXCEPT ![t] = None] /\ fate' \in [Ops -> Fates] /\ UNCHANGED queue
      BY <1>0, <1>5, <2>2 DEF PostSignal, Settle, Fates
    <3>3. CurOK' /\ pc' \in [Threads -> WorkerPoints \cup MainPoints]
                 /\ cur' \in [Threads -> Ops \cup {None}]
      BY <3>1, <3>2, CurStep DEF Owning, WorkerPoints, MainPoints
    <3> QED BY <1>5, <3>2, <3>3 DEF PostSignal, TypeInv, TypeOK, mainVars
  <2> QED BY <2>1, <2>2
<1>6. CASE SelectTask(t)
  <2>1. CASE pending = <<>>
    <3>1. CurOK' /\ pc' \in [Threads -> WorkerPoints \cup MainPoints]
                 /\ cur' \in [Threads -> Ops \cup {None}]
      BY <1>6, <2>1, PcStep DEF SelectTask, Owning, WorkerPoints
    <3> QED BY <1>6, <2>1, <3>1 DEF SelectTask, TypeInv, TypeOK, mainVars, histVars
  <2>2. CASE pending # <<>>
    <3> DEFINE found == Found([i \in 1 .. Len(pending) |->
                                 priority[FileOf[pending[i].op]]], scan)
    <3>1. found \in 0 .. Len(pending) - 1
      BY <2>2, SelectFinds DEF TypeInv
    <3>2. /\ scan' = found /\ cur' = [cur EXCEPT ![t] = pending[found + 1].op]
          /\ pending' = RemoveAt(pending, found + 1)
          /\ pc' = [pc EXCEPT ![t] = "enqueue"]
      BY <1>6, <2>2 DEF SelectTask
    <3> HIDE DEF found
    <3>3. found + 1 \in 1 .. Len(pending)
      BY <1>0, <3>1
    <3>4. pending[found + 1].op \in Reads /\ pending' \in Seq(Tasks)
      <4>1. pending[found + 1] \in Tasks
        BY <1>0, <3>3
      <4>2. RemoveAt(pending, found + 1) \in Seq(Tasks)
        BY <1>0, <3>3, RemoveAtProperties
      <4> QED BY <3>2, <4>1, <4>2 DEF Tasks
    <3>5. CurOK' /\ pc' \in [Threads -> WorkerPoints \cup MainPoints]
                 /\ cur' \in [Threads -> Ops \cup {None}]
      BY <3>2, <3>4, CurStep DEF Owning, WorkerPoints, Ops
    <3> QED BY <1>6, <3>1, <3>2, <3>4, <3>5
            DEF SelectTask, TypeInv, TypeOK, mainVars, histVars
  <2> QED BY <2>1, <2>2
<1>7. CASE PostCompletion(t)
  <2>1. cur[t] \in Ops
    BY <1>7 DEF PostCompletion, TypeInv, CurOK, Owning
  <2>2. queue' \in Seq(Packets) /\ fate' \in [Ops -> Fates]
    <3>1. Completion(cur[t], TRUE) \in Packets
      BY <2>1, PacketTypes
    <3>2. Append(queue, Completion(cur[t], TRUE)) \in Seq(Packets)
      BY <1>0, <3>1, AppendType
    <3>3. [fate EXCEPT ![cur[t]] = "dropped"] \in [Ops -> Fates]
      BY <1>0 DEF Fates
    <3> QED BY <1>0, <1>7, <3>2, <3>3 DEF PostCompletion, Settle
  <2>3. cur' = [cur EXCEPT ![t] = None]
    BY <1>7 DEF PostCompletion, Settle
  <2>4. PICK x \in {"wait", "closed", "exited"} : pc' = [pc EXCEPT ![t] = x]
    BY <1>7, <1>e DEF PostCompletion
  <2>5. CurOK' /\ pc' \in [Threads -> WorkerPoints \cup MainPoints]
               /\ cur' \in [Threads -> Ops \cup {None}]
    BY <2>3, <2>4, CurStep DEF Owning, WorkerPoints, MainPoints
  <2> QED BY <1>7, <2>2, <2>5 DEF PostCompletion, TypeInv, TypeOK, mainVars
<1>8. CASE EnqueueCompleted(t)
  <2>1. CurOK' /\ pc' \in [Threads -> WorkerPoints \cup MainPoints]
               /\ cur' \in [Threads -> Ops \cup {None}]
    BY <1>8, PcStep DEF EnqueueCompleted, Owning, WorkerPoints
  <2> QED BY <1>8, <2>1 DEF EnqueueCompleted, TypeInv, TypeOK, portVars, mainVars, histVars
<1>9. CASE EnqueueIssued(t)
  <2>1. cur[t] \in Reads
    BY <1>9 DEF EnqueueIssued, TypeInv, CurOK
  <2>2. kernel' \in SUBSET InFlight
    <3>1. [op |-> cur[t], by |-> t, cancelled |-> FALSE] \in InFlight
      BY <2>1 DEF InFlight
    <3> QED BY <1>0, <1>9, <3>1 DEF EnqueueIssued
  <2>3. CurOK' /\ pc' \in [Threads -> WorkerPoints \cup MainPoints]
               /\ cur' \in [Threads -> Ops \cup {None}]
    BY <1>9, CurStep DEF EnqueueIssued, Owning, WorkerPoints
  <2> QED BY <1>9, <2>2, <2>3 DEF EnqueueIssued, TypeInv, TypeOK, portVars, mainVars, histVars
<1>10. CASE EnqueueFailed(t) \/ EnqueueRefused(t)
  <2>1. fate' \in [Ops -> Fates] /\ cur' = [cur EXCEPT ![t] = None]
    BY <1>0, <1>10 DEF EnqueueFailed, EnqueueRefused, Settle, Fates
  <2>2. PICK x \in {"wait", "closed", "exited"} : pc' = [pc EXCEPT ![t] = x]
    BY <1>10, <1>e DEF EnqueueFailed, EnqueueRefused
  <2>3. CurOK' /\ pc' \in [Threads -> WorkerPoints \cup MainPoints]
               /\ cur' \in [Threads -> Ops \cup {None}]
    BY <2>1, <2>2, CurStep DEF Owning, WorkerPoints, MainPoints
  <2> QED BY <1>10, <2>1, <2>3
          DEF EnqueueFailed, EnqueueRefused, TypeInv, TypeOK, portVars, mainVars
<1>11. CASE SetTerminated(t)
  <2>1. CurOK' /\ pc' \in [Threads -> WorkerPoints \cup MainPoints]
               /\ cur' \in [Threads -> Ops \cup {None}]
    BY <1>11, PcStep DEF SetTerminated, Owning, WorkerPoints
  <2> QED BY <1>11, <2>1 DEF SetTerminated, TypeInv, TypeOK, mainVars, histVars
<1>12. CASE EndOnTerminate(t)
  <2>1. kernel' \in SUBSET InFlight
    BY <1>0, <1>12 DEF EndOnTerminate, CancelThreadIos, InFlight
  <2>2. CurOK' /\ pc' \in [Threads -> WorkerPoints \cup MainPoints]
               /\ cur' \in [Threads -> Ops \cup {None}]
    BY <1>12, <1>e, PcStep DEF EndOnTerminate, Owning, WorkerPoints, MainPoints
  <2> QED BY <1>12, <2>1, <2>2 DEF EndOnTerminate, TypeInv, TypeOK, portVars, mainVars, histVars
<1> QED BY <1>1, <1>2, <1>3, <1>4, <1>5, <1>6, <1>7, <1>8, <1>9, <1>10, <1>11, <1>12 DEF Loop

\* The steps of a callback.
LEMMA CallbackTypeInv ==
  ASSUME TypeInv, NEW t \in Threads, Callback(t)
  PROVE  TypeInv'
<1> USE DEF At, Goto
<1>0. /\ pending \in Seq(Tasks) /\ fate \in [Ops -> Fates]
      /\ cur \in [Threads -> Ops \cup {None}]
  BY DEF TypeInv, TypeOK
<1>1. ASSUME NEW r \in Reads, PushTask(t, r) PROVE TypeInv'
  <2>1. pending' \in Seq(Tasks)
    <3>1. [op |-> r, by |-> t] \in Tasks
      BY DEF Tasks
    <3>2. Append(pending, [op |-> r, by |-> t]) \in Seq(Tasks)
      BY <1>0, <3>1
    <3> QED BY <1>1, <3>2 DEF PushTask
  <2>2. fate' \in [Ops -> Fates]
    BY <1>0, <1>1 DEF PushTask, Fates
  <2>3. CurOK' /\ pc' \in [Threads -> WorkerPoints \cup MainPoints]
               /\ cur' \in [Threads -> Ops \cup {None}]
    BY <1>1, PcStep DEF PushTask, Owning, WorkerPoints
  <2> QED BY <1>1, <2>1, <2>2, <2>3 DEF PushTask, TypeInv, TypeOK, mainVars
<1>2. ASSUME NEW r \in {-1, 0, 1}, Return(t, r) PROVE TypeInv'
  <2>1. CASE Goto(t, "post") /\ UNCHANGED <<fate, cur>>
    <3>1. CurOK' /\ pc' \in [Threads -> WorkerPoints \cup MainPoints]
                 /\ cur' \in [Threads -> Ops \cup {None}]
      BY <1>2, <2>1, PcStep DEF Return, Owning, WorkerPoints
    <3> QED BY <1>2, <2>1, <3>1 DEF Return, TypeInv, TypeOK, portVars, mainVars
  <2>2. CASE Goto(t, "wait") /\ \E f \in {"done", "kept"} : Settle(t, f)
    <3>1. fate' \in [Ops -> Fates] /\ cur' = [cur EXCEPT ![t] = None]
      BY <1>0, <2>2 DEF Settle, Fates
    <3>2. CurOK' /\ pc' \in [Threads -> WorkerPoints \cup MainPoints]
                 /\ cur' \in [Threads -> Ops \cup {None}]
      BY <2>2, <3>1, CurStep DEF Owning, WorkerPoints
    <3> QED BY <1>2, <3>1, <3>2 DEF Return, TypeInv, TypeOK, portVars, mainVars
  <2> QED BY <1>2, <2>1, <2>2 DEF Return
<1> QED BY <1>1, <1>2 DEF Callback

\* The steps of close().
LEMMA CloseTypeInv ==
  ASSUME TypeInv, Close
  PROVE  TypeInv'
<1> USE DEF At, Goto
<1>0. Main \in Threads /\ queue \in Seq(Packets) /\ kernel \in SUBSET InFlight
      /\ toPost \in Nat /\ closes \in Nat
  BY DEF TypeInv, TypeOK, Threads
<1>1. CASE BeginClose
  <2>1. toPost' \in Nat /\ closes' \in Nat
    <3>1. Cardinality(Workers) \in Nat
      BY ThreadsAssumption, FS_CardinalityType
    <3> QED BY <1>0, <1>1, <3>1 DEF BeginClose
  <2>2. CurOK' /\ pc' \in [Threads -> WorkerPoints \cup MainPoints]
               /\ cur' \in [Threads -> Ops \cup {None}]
    BY <1>0, <1>1, PcStep DEF BeginClose, Owning, MainPoints
  <2> QED BY <1>1, <2>1, <2>2 DEF BeginClose, TypeInv, TypeOK, portVars, histVars
<1>2. CASE PostTerminate
  <2>1. queue' \in Seq(Packets) /\ toPost' \in Nat
    <3>1. Append(queue, Terminate) \in Seq(Packets)
      BY <1>0, PacketTypes
    <3> QED BY <1>0, <1>2, <3>1 DEF PostTerminate
  <2> QED BY <1>2, <2>1 DEF PostTerminate, TypeInv, TypeOK, CurOK, histVars
<1>3. CASE CloseCancel
  <2>1. kernel' \in SUBSET InFlight
    BY <1>0, <1>3 DEF CloseCancel, CancelThreadIos, InFlight
  <2>2. CurOK' /\ pc' \in [Threads -> WorkerPoints \cup MainPoints]
               /\ cur' \in [Threads -> Ops \cup {None}]
    BY <1>0, <1>3, PcStep DEF CloseCancel, Owning, MainPoints
  <2> QED BY <1>3, <2>1, <2>2 DEF CloseCancel, TypeInv, TypeOK, portVars, mainVars, histVars
<1>4. CASE Join \/ DrainTimeout
  <2>1. CurOK' /\ pc' \in [Threads -> WorkerPoints \cup MainPoints]
               /\ cur' \in [Threads -> Ops \cup {None}]
    BY <1>0, <1>4, PcStep DEF Join, DrainTimeout, Owning, WorkerPoints, MainPoints
  <2> QED BY <1>4, <2>1 DEF Join, DrainTimeout, TypeInv, TypeOK, portVars, mainVars, histVars
<1> QED BY <1>1, <1>2, <1>3, <1>4 DEF Close

\* The steps of the owner and of the operating system.
LEMMA OutsideTypeInv ==
  ASSUME TypeInv,
         \/ \E j \in Jobs : PostJob(j)
         \/ \E f \in Files, p \in Priorities : SetPriority(f, p)
         \/ Kernel
  PROVE  TypeInv'
<1> USE DEF At
<1>0. /\ queue \in Seq(Packets) /\ fate \in [Ops -> Fates]
      /\ pc \in [Threads -> WorkerPoints \cup MainPoints]
  BY DEF TypeInv, TypeOK
<1>1. ASSUME NEW j \in Jobs, PostJob(j) PROVE TypeInv'
  <2>1. queue' \in Seq(Packets) /\ fate' \in [Ops -> Fates]
    <3>1. Completion(j, TRUE) \in Packets
      BY PacketTypes DEF Ops
    <3>2. Append(queue, Completion(j, TRUE)) \in Seq(Packets)
      BY <1>0, <3>1, AppendType
    <3> QED BY <1>0, <1>1, <3>2 DEF PostJob, Fates
  <2>2. pc' \in [Threads -> WorkerPoints \cup MainPoints] /\ CurOK'
    BY <1>0, <1>1 DEF PostJob, TypeInv, CurOK, Owning, WorkerPoints
  <2> QED BY <1>1, <2>1, <2>2 DEF PostJob, TypeInv, TypeOK, mainVars
<1>2. ASSUME NEW f \in Files, NEW p \in Priorities, SetPriority(f, p) PROVE TypeInv'
  BY <1>2 DEF SetPriority, TypeInv, TypeOK, CurOK, portVars, mainVars, histVars
<1>3. ASSUME NEW k \in kernel, KernelSucceeds(k) \/ KernelFails(k) PROVE TypeInv'
  <2>1. k.op \in Ops
    BY DEF TypeInv, TypeOK, InFlight, Ops
  <2>2. queue' \in Seq(Packets)
    <3>1. PICK ok \in BOOLEAN : queue' = Append(queue, Completion(k.op, ok))
      BY <1>3 DEF KernelSucceeds, KernelFails
    <3>2. Completion(k.op, ok) \in Packets
      BY <2>1, PacketTypes
    <3> QED BY <1>0, <3>1, <3>2
  <2>3. kernel' \in SUBSET InFlight
    BY <1>3 DEF KernelSucceeds, KernelFails, TypeInv, TypeOK
  <2> QED BY <1>3, <2>2, <2>3
          DEF KernelSucceeds, KernelFails, TypeInv, TypeOK, CurOK, mainVars, histVars
<1> QED BY <1>1, <1>2, <1>3 DEF Kernel

\* Together: TypeInv is inductive.
LEMMA NextTypeInv ==
  ASSUME TypeInv, [Next]_vars
  PROVE  TypeInv'
<1>1. CASE UNCHANGED vars
  BY <1>1 DEF TypeInv, TypeOK, CurOK, vars, portVars, mainVars, histVars
<1>2. CASE Closed
  BY <1>2, <1>1 DEF Closed
<1> QED BY <1>1, <1>2, LoopTypeInv, CallbackTypeInv, CloseTypeInv, OutsideTypeInv
        DEF Next

\* Type correctness of IoCompletionPort, with what a thread holds at each point.
THEOREM TypeInvariant == Spec => []TypeInv
BY InitTypeInv, NextTypeInv, PTL DEF Spec

\* IoCompletionPort!TypeOK, for every number of threads, objects and files.
THEOREM TypeCorrect == Spec => []TypeOK
<1>1. TypeInv => TypeOK
  BY DEF TypeInv
<1> QED BY <1>1, TypeInvariant, PTL
-----------------------------------------------------------------------------
(***************************************************************************)
(* WakeUp is about how many signals, scanning threads and pushing threads  *)
(* there are, so its proof is about how a step changes these counts.       *)
(***************************************************************************)
SignalsIn(q) == {i \in DOMAIN q : IsSignal(q[i])}
ThreadsAt(f, point) == {t \in Threads : f[t] = point}
One(a, b) == IF a = b THEN 1 ELSE 0
SignalIf(p) == IF IsSignal(p) THEN 1 ELSE 0

SignalPackets == {p \in Packets : IsSignal(p)}

\* The key 1 packets of a queue, as places of its elements.
LEMMA SignalsArePlaces ==
  ASSUME NEW q \in Seq(Packets)
  PROVE  SignalsIn(q) = PlacesOf(q, SignalPackets)
BY DEF SignalsIn, PlacesOf, SignalPackets

\* A queue holds finitely many of them.
LEMMA SignalsFinite ==
  ASSUME NEW q \in Seq(Packets)
  PROVE  IsFiniteSet(SignalsIn(q)) /\ Cardinality(SignalsIn(q)) \in Nat
BY SignalsArePlaces, PlacesFinite

\* A packet that is posted adds its signal ...
LEMMA SignalsAppend ==
  ASSUME NEW q \in Seq(Packets), NEW p \in Packets
  PROVE  Cardinality(SignalsIn(Append(q, p))) = Cardinality(SignalsIn(q)) + SignalIf(p)
<1>1. Append(q, p) \in Seq(Packets)
  BY AppendType
<1>2. SignalIf(p) = OneIfIn(p, SignalPackets)
  BY DEF SignalIf, OneIfIn, SignalPackets
<1>3. Cardinality(PlacesOf(Append(q, p), SignalPackets)) =
        Cardinality(PlacesOf(q, SignalPackets)) + OneIfIn(p, SignalPackets)
  BY PlacesAppend
<1>4. SignalsIn(Append(q, p)) = PlacesOf(Append(q, p), SignalPackets)
  BY <1>1, SignalsArePlaces
<1>5. SignalsIn(q) = PlacesOf(q, SignalPackets)
  BY SignalsArePlaces
<1> QED BY <1>2, <1>3, <1>4, <1>5, Zenon

\* ... and a packet that is dequeued takes it away.
LEMMA SignalsTail ==
  ASSUME NEW q \in Seq(Packets), q # <<>>
  PROVE  Cardinality(SignalsIn(Tail(q))) = Cardinality(SignalsIn(q)) - SignalIf(Head(q))
<1>1. Tail(q) \in Seq(Packets) /\ Head(q) \in Packets
  BY HeadTailProperties
<1>2. SignalIf(Head(q)) = OneIfIn(Head(q), SignalPackets)
  BY <1>1 DEF SignalIf, OneIfIn, SignalPackets
<1>3. Cardinality(PlacesOf(Tail(q), SignalPackets)) =
        Cardinality(PlacesOf(q, SignalPackets)) - OneIfIn(Head(q), SignalPackets)
  BY PlacesTail
<1>4. SignalsIn(Tail(q)) = PlacesOf(Tail(q), SignalPackets)
  BY <1>1, SignalsArePlaces
<1>5. SignalsIn(q) = PlacesOf(q, SignalPackets)
  BY SignalsArePlaces
<1> QED BY <1>2, <1>3, <1>4, <1>5, Zenon

\* Finitely many threads are at any one point.
LEMMA ThreadsAtFinite ==
  ASSUME NEW f, NEW point
  PROVE  IsFiniteSet(ThreadsAt(f, point)) /\ Cardinality(ThreadsAt(f, point)) \in Nat
<1>1. IsFiniteSet(Threads)
  BY ThreadsAssumption, FS_AddElement DEF Threads
<1>2. ThreadsAt(f, point) \in SUBSET Threads
  BY DEF ThreadsAt
<1> QED BY <1>1, <1>2, FS_Subset, FS_CardinalityType

\* One thread moves from where it is to x.
LEMMA ThreadMoves ==
  ASSUME TypeInv, NEW t \in Threads, NEW x, pc' = [pc EXCEPT ![t] = x], NEW point
  PROVE  Cardinality(ThreadsAt(pc', point)) =
           Cardinality(ThreadsAt(pc, point)) + One(x, point) - One(pc[t], point)
<1> DEFINE A == ThreadsAt(pc, point) \ {t}
<1>1. /\ ThreadsAt(pc, point) = IF pc[t] = point THEN A \cup {t} ELSE A
      /\ ThreadsAt(pc', point) = IF x = point THEN A \cup {t} ELSE A
  BY DEF ThreadsAt, TypeInv, TypeOK
<1>2. IsFiniteSet(A) /\ t \notin A /\ Cardinality(A) \in Nat
  BY ThreadsAtFinite, FS_RemoveElement, FS_CardinalityType
<1>3. Cardinality(A \cup {t}) = Cardinality(A) + 1
  BY <1>2, FS_AddElement
<1> QED BY <1>1, <1>2, <1>3 DEF One
-----------------------------------------------------------------------------
\* What WakeUp compares, in a state with this queue and these program counters.
Owed(q, f) ==
  Cardinality(SignalsIn(q)) + Cardinality(ThreadsAt(f, "select"))
  + Cardinality(ThreadsAt(f, "signal"))

\* The number of wake-ups under way is a natural number.
LEMMA OwedIsNat ==
  ASSUME NEW q \in Seq(Packets), NEW f
  PROVE  Owed(q, f) \in Nat
BY SignalsFinite, ThreadsAtFinite DEF Owed

\* WakeUp in terms of that number.
LEMMA WakeUpIsOwed ==
  WakeUp <=> IF terminated THEN Len(pending) >= Owed(queue, pc)
                           ELSE Len(pending) = Owed(queue, pc)
BY DEF WakeUp, Owed, Signals, Waking, Pushing, SignalsIn, ThreadsAt, At

\* A step changes the number of tasks and the number of wake-ups alike.
LEMMA WakeUpBalance ==
  ASSUME TypeInv, WakeUp, TypeInv', terminated => terminated',
         Len(pending') - Len(pending) = Owed(queue', pc') - Owed(queue, pc)
  PROVE  WakeUp'
<1>1. /\ Len(pending) \in Nat /\ Len(pending') \in Nat
      /\ Owed(queue, pc) \in Nat /\ Owed(queue', pc') \in Nat
      /\ terminated \in BOOLEAN
  BY OwedIsNat DEF TypeInv, TypeOK
<1>2. WakeUp' <=> IF terminated' THEN Len(pending') >= Owed(queue', pc')
                                 ELSE Len(pending') = Owed(queue', pc')
  BY DEF WakeUp, Owed, Signals, Waking, Pushing, SignalsIn, ThreadsAt, At
<1> QED BY <1>1, <1>2, WakeUpIsOwed

\* What the move of one thread from where it is to x adds to the wake-ups.
Gain(f, t, x) == (One(x, "select") - One(f[t], "select"))
                 + (One(x, "signal") - One(f[t], "signal"))

\* How a thread's move changes the number of wake-ups under way.
LEMMA OwedMoves ==
  ASSUME TypeInv, TypeInv', NEW t \in Threads, NEW x, pc' = [pc EXCEPT ![t] = x]
  PROVE  Owed(queue', pc') - Owed(queue, pc) =
           (Cardinality(SignalsIn(queue')) - Cardinality(SignalsIn(queue)))
           + Gain(pc, t, x)
<1> DEFINE s == Cardinality(SignalsIn(queue))
           s1 == Cardinality(SignalsIn(queue'))
           a == Cardinality(ThreadsAt(pc, "select"))
           a1 == Cardinality(ThreadsAt(pc', "select"))
           b == Cardinality(ThreadsAt(pc, "signal"))
           b1 == Cardinality(ThreadsAt(pc', "signal"))
<1>1. /\ s \in Nat /\ s1 \in Nat /\ a \in Nat /\ a1 \in Nat /\ b \in Nat /\ b1 \in Nat
      /\ One(x, "select") \in Int /\ One(pc[t], "select") \in Int
      /\ One(x, "signal") \in Int /\ One(pc[t], "signal") \in Int
  BY SignalsFinite, ThreadsAtFinite DEF TypeInv, TypeOK, One
<1>2. ASSUME NEW point
      PROVE  Cardinality(ThreadsAt(pc', point)) =
               Cardinality(ThreadsAt(pc, point)) + One(x, point) - One(pc[t], point)
  BY ThreadMoves
<1>3. /\ a1 = a + One(x, "select") - One(pc[t], "select")
      /\ b1 = b + One(x, "signal") - One(pc[t], "signal")
  BY <1>2
<1>4. Owed(queue, pc) = s + a + b /\ Owed(queue', pc') = s1 + a1 + b1
  BY DEF Owed
<1> HIDE DEF s, s1, a, a1, b, b1
<1>5. (s1 + a1 + b1) - (s + a + b) = (s1 - s) + Gain(pc, t, x)
  BY <1>1, <1>3 DEF Gain
<1> QED BY <1>4, <1>5 DEF s, s1

\* A step in which one thread moves.
LEMMA WakeUpMoves ==
  ASSUME TypeInv, WakeUp, TypeInv', terminated => terminated',
         NEW t \in Threads, NEW x, pc' = [pc EXCEPT ![t] = x],
         Len(pending') - Len(pending) =
           (Cardinality(SignalsIn(queue')) - Cardinality(SignalsIn(queue)))
           + Gain(pc, t, x)
  PROVE  WakeUp'
BY OwedMoves, WakeUpBalance

\* ... with no new task, and without coming from or going to a wake-up.
LEMMA WakeUpElsewhere ==
  ASSUME TypeInv, WakeUp, TypeInv', terminated => terminated',
         NEW t \in Threads, NEW x, pc' = [pc EXCEPT ![t] = x],
         x \notin {"select", "signal"}, pc[t] \notin {"select", "signal"},
         pending' = pending,
         Cardinality(SignalsIn(queue')) = Cardinality(SignalsIn(queue))
  PROVE  WakeUp'
<1>1. Gain(pc, t, x) = 0
  BY DEF Gain, One
<1>2. Len(pending') - Len(pending) = 0
  BY DEF TypeInv, TypeOK
<1>3. Cardinality(SignalsIn(queue')) - Cardinality(SignalsIn(queue)) = 0
  BY SignalsFinite DEF TypeInv, TypeOK
<1>4. Len(pending') - Len(pending) =
        (Cardinality(SignalsIn(queue')) - Cardinality(SignalsIn(queue))) + Gain(pc, t, x)
  BY <1>1, <1>2, <1>3
<1> QED BY <1>4, WakeUpMoves

\* Whoever is about to scan finds a task, also after termination.
LEMMA WakerFindsTask ==
  ASSUME TypeInv, WakeUp, NEW t \in Threads, At(t, "select")
  PROVE  pending # <<>>
<1>1. ThreadsAt(pc, "select") # {}
  BY DEF At, ThreadsAt
<1>2. Cardinality(ThreadsAt(pc, "select")) # 0
  BY <1>1, ThreadsAtFinite, FS_EmptySet
<1>3. Owed(queue, pc) > 0
  BY <1>2, ThreadsAtFinite, SignalsFinite DEF Owed, TypeInv, TypeOK
<1> QED BY <1>3, WakeUpIsOwed, OwedIsNat DEF TypeInv, TypeOK

\* The loop of a worker: a signal is taken by a thread that will scan, a scan
\* takes a task, a posted signal relieves the callback of its duty.
LEMMA LoopWakeUp ==
  ASSUME TypeInv, WakeUp, TypeInv', NEW t \in Threads, Loop(t)
  PROVE  WakeUp'
<1> USE DEF At, Goto
<1>0. /\ queue \in Seq(Packets) /\ pending \in Seq(Tasks)
      /\ LoopEnd(t) \notin {"select", "signal"}
      /\ Cardinality(SignalsIn(queue)) \in Nat
  BY SignalsFinite DEF TypeInv, TypeOK, LoopEnd
<1>1. CASE TakeCompletion(t) \/ TakeFailure(t) \/ TakeTerminate(t)
  <2>1. ~IsSignal(Head(queue))
    BY <1>1 DEF TakeCompletion, TakeFailure, TakeTerminate,
                IsCompletion, IsTerminate, IsSignal
  <2>2. queue # <<>> /\ queue' = Tail(queue)
    BY <1>1 DEF TakeCompletion, TakeFailure, TakeTerminate
  <2>3. Cardinality(SignalsIn(queue')) = Cardinality(SignalsIn(queue))
    BY <1>0, <2>1, <2>2, SignalsTail DEF SignalIf
  <2>4. PICK x \in {"callback", LoopEnd(t), "terminate"} : pc' = [pc EXCEPT ![t] = x]
    BY <1>1 DEF TakeCompletion, TakeFailure, TakeTerminate
  <2>5. pc[t] = "wait" /\ pending' = pending /\ terminated' = terminated
    BY <1>1 DEF TakeCompletion, TakeFailure, TakeTerminate
  <2>6. x \notin {"select", "signal"}
    BY <1>0
  <2> QED BY <2>3, <2>4, <2>5, <2>6, WakeUpElsewhere
<1>2. CASE TakeSignal(t)
  <2>1. Cardinality(SignalsIn(queue')) = Cardinality(SignalsIn(queue)) - 1
    BY <1>0, <1>2, SignalsTail DEF TakeSignal, SignalIf
  <2>2. Gain(pc, t, "select") = 1
    BY <1>2 DEF TakeSignal, Gain, One
  <2>3. Len(pending') - Len(pending) = 0
    BY <1>0, <1>2 DEF TakeSignal
  <2>4. Len(pending') - Len(pending) =
          (Cardinality(SignalsIn(queue')) - Cardinality(SignalsIn(queue)))
          + Gain(pc, t, "select")
    BY <1>0, <2>1, <2>2, <2>3
  <2> QED BY <1>2, <2>4, WakeUpMoves DEF TakeSignal
<1>3. CASE PostSignal(t)
  <2>1. CASE ~Refused(Signal)
    <3>1. Cardinality(SignalsIn(queue')) = Cardinality(SignalsIn(queue)) + 1
      BY <1>0, <1>3, <2>1, PacketTypes, SignalsAppend
         DEF PostSignal, SignalIf, IsSignal, Signal
    <3>2. Gain(pc, t, "callback") = -1
      BY <1>3 DEF PostSignal, Gain, One
    <3>3. Len(pending') - Len(pending) = 0
      BY <1>0, <1>3 DEF PostSignal
    <3>4. Len(pending') - Len(pending) =
            (Cardinality(SignalsIn(queue')) - Cardinality(SignalsIn(queue)))
            + Gain(pc, t, "callback")
      BY <1>0, <3>1, <3>2, <3>3
    <3> QED BY <1>3, <2>1, <3>4, WakeUpMoves DEF PostSignal
  <2>2. CASE Refused(Signal)
    <3>1. terminated /\ terminated' /\ pending' = pending /\ queue' = queue
      BY <1>3, <2>2 DEF PostSignal, Refused, TypeInv, TypeOK
    <3>2. PICK x \in {"wait", LoopEnd(t)} : pc' = [pc EXCEPT ![t] = x]
      BY <1>3, <2>2 DEF PostSignal
    <3>3. Gain(pc, t, x) = -1
      BY <1>0, <1>3, <3>2 DEF PostSignal, Gain, One
    <3>4. Owed(queue', pc') - Owed(queue, pc) =
            (Cardinality(SignalsIn(queue')) - Cardinality(SignalsIn(queue)))
            + Gain(pc, t, x)
      BY <3>2, OwedMoves
    <3>5. Owed(queue', pc') - Owed(queue, pc) = -1
      BY <1>0, <3>1, <3>3, <3>4
    <3>6. /\ Owed(queue, pc) \in Nat /\ Owed(queue', pc') \in Nat
          /\ Len(pending) \in Nat
      BY <1>0, OwedIsNat DEF TypeInv, TypeOK
    <3>7. Len(pending') >= Owed(queue', pc')
      BY <3>1, <3>5, <3>6, WakeUpIsOwed
    <3> QED BY <3>1, <3>7
            DEF WakeUp, Owed, Signals, Waking, Pushing, SignalsIn, ThreadsAt
  <2> QED BY <2>1, <2>2
<1>4. CASE SelectTask(t)
  <2>1. pending # <<>>
    BY <1>4, WakerFindsTask DEF SelectTask
  <2> DEFINE prio == [i \in 1 .. Len(pending) |-> priority[FileOf[pending[i].op]]]
             k == Found(prio, scan) + 1
  <2>2. k \in 1 .. Len(pending)
    BY <1>0, <2>1, SelectFinds DEF TypeInv
  <2>3. pending' = RemoveAt(pending, k) /\ pc' = [pc EXCEPT ![t] = "enqueue"]
        /\ queue' = queue /\ terminated' = terminated /\ pc[t] = "select"
    BY <1>4, <2>1 DEF SelectTask
  <2> HIDE DEF k
  <2>4. Len(pending') = Len(pending) - 1
    BY <1>0, <2>2, <2>3, RemoveAtProperties
  <2>5. Gain(pc, t, "enqueue") = -1
    BY <2>3 DEF Gain, One
  <2>6. Len(pending') - Len(pending) =
          (Cardinality(SignalsIn(queue')) - Cardinality(SignalsIn(queue)))
          + Gain(pc, t, "enqueue")
    BY <1>0, <2>3, <2>4, <2>5
  <2> QED BY <2>3, <2>6, WakeUpMoves
<1>5. CASE PostCompletion(t)
  <2>1. cur[t] \in Ops /\ None \notin Ops
    BY <1>5, OpsAssumption DEF PostCompletion, TypeInv, CurOK, Owning
  <2>2. /\ ~IsSignal(Completion(cur[t], TRUE))
        /\ Completion(cur[t], TRUE) \in Packets
    BY <2>1, PacketTypes DEF IsSignal, Completion
  <2>3. PICK p \in Packets : ~IsSignal(p) /\ (queue' = queue \/ queue' = Append(queue, p))
    BY <1>5, <2>2 DEF PostCompletion
  <2>4. Cardinality(SignalsIn(queue')) = Cardinality(SignalsIn(queue))
    <3>1. SignalIf(p) = 0
      BY <2>3 DEF SignalIf
    <3>2. Cardinality(SignalsIn(Append(queue, p))) = Cardinality(SignalsIn(queue))
      BY <1>0, <3>1, SignalsAppend
    <3> QED BY <2>3, <3>2
  <2>5. PICK x \in {"wait", LoopEnd(t)} : pc' = [pc EXCEPT ![t] = x]
    BY <1>5 DEF PostCompletion
  <2>6. pc[t] = "post" /\ pending' = pending /\ terminated' = terminated
    BY <1>5 DEF PostCompletion
  <2>7. x \notin {"select", "signal"}
    BY <1>0
  <2> QED BY <2>4, <2>5, <2>6, <2>7, WakeUpElsewhere
<1>6. CASE EnqueueCompleted(t) \/ EnqueueIssued(t) \/ EnqueueFailed(t) \/ EnqueueRefused(t)
  <2>1. PICK x \in {"post", "wait", LoopEnd(t)} : pc' = [pc EXCEPT ![t] = x]
    BY <1>6 DEF EnqueueCompleted, EnqueueIssued, EnqueueFailed, EnqueueRefused
  <2>2. pc[t] = "enqueue" /\ pending' = pending /\ terminated' = terminated /\ queue' = queue
    BY <1>6 DEF EnqueueCompleted, EnqueueIssued, EnqueueFailed, EnqueueRefused, portVars
  <2>3. x \notin {"select", "signal"}
    BY <1>0
  <2> QED BY <2>1, <2>2, <2>3, WakeUpElsewhere
<1>7. CASE SetTerminated(t) \/ EndOnTerminate(t)
  <2>1. PICK x \in {"cancel", LoopEnd(t)} : pc' = [pc EXCEPT ![t] = x]
    BY <1>7 DEF SetTerminated, EndOnTerminate
  <2>2. /\ pc[t] \in {"terminate", "cancel"} /\ pending' = pending /\ queue' = queue
        /\ terminated => terminated'
    BY <1>7 DEF SetTerminated, EndOnTerminate, portVars
  <2>3. x \notin {"select", "signal"} /\ pc[t] \notin {"select", "signal"}
    BY <1>0, <2>2
  <2> QED BY <2>1, <2>2, <2>3, WakeUpElsewhere
<1> QED BY <1>1, <1>2, <1>3, <1>4, <1>5, <1>6, <1>7 DEF Loop

\* A callback that pushes a task owes its signal.
LEMMA CallbackWakeUp ==
  ASSUME TypeInv, WakeUp, TypeInv', NEW t \in Threads, Callback(t)
  PROVE  WakeUp'
<1> USE DEF At, Goto
<1>1. CASE \E r \in Reads : PushTask(t, r)
  <2>1. PICK r \in Reads : PushTask(t, r)
    BY <1>1
  <2>2. pending \in Seq(Tasks) /\ pending' = Append(pending, [op |-> r, by |-> t])
    BY <2>1 DEF PushTask, TypeInv, TypeOK
  <2>3. Len(pending') - Len(pending) = 1
    BY <2>2
  <2>4. Gain(pc, t, "signal") = 1
    BY <2>1 DEF PushTask, Gain, One
  <2>5. Len(pending') - Len(pending) =
          (Cardinality(SignalsIn(queue')) - Cardinality(SignalsIn(queue)))
          + Gain(pc, t, "signal")
    BY <2>1, <2>3, <2>4, SignalsFinite DEF PushTask, TypeInv, TypeOK
  <2> QED BY <2>1, <2>5, WakeUpMoves DEF PushTask
<1>2. CASE \E r \in {-1, 0, 1} : Return(t, r)
  <2>1. PICK x \in {"wait", "post"} : pc' = [pc EXCEPT ![t] = x]
    BY <1>2 DEF Return
  <2>2. pc[t] = "callback" /\ pending' = pending /\ queue' = queue /\ terminated' = terminated
    BY <1>2 DEF Return, portVars
  <2>3. x \notin {"select", "signal"}
    OBVIOUS
  <2> QED BY <2>1, <2>2, <2>3, WakeUpElsewhere
<1> QED BY <1>1, <1>2 DEF Callback

\* close() moves the owner only, and its packets are no signals.
LEMMA CloseWakeUp ==
  ASSUME TypeInv, WakeUp, TypeInv', Close
  PROVE  WakeUp'
<1> USE DEF At, Goto
<1>0. Main \in Threads /\ queue \in Seq(Packets) /\ pc \in [Threads -> WorkerPoints \cup MainPoints]
  BY DEF Threads, TypeInv, TypeOK
<1>1. CASE PostTerminate
  <2>1. pc' = [pc EXCEPT ![Main] = "closing"] /\ pc[Main] = "closing"
    BY <1>0, <1>1 DEF PostTerminate
  <2>2. Cardinality(SignalsIn(queue')) = Cardinality(SignalsIn(queue))
    BY <1>0, <1>1, PacketTypes, SignalsAppend, SignalsFinite
       DEF PostTerminate, SignalIf, IsSignal, Terminate
  <2> QED BY <1>0, <1>1, <2>1, <2>2, WakeUpElsewhere DEF PostTerminate
<1>2. CASE BeginClose \/ CloseCancel \/ Join \/ DrainTimeout
  <2>1. PICK x \in {"closing", "join", "wait", "closed"} : pc' = [pc EXCEPT ![Main] = x]
    BY <1>2 DEF BeginClose, CloseCancel, Join, DrainTimeout
  <2>2. pc[Main] \notin {"select", "signal"}
    BY <1>2 DEF BeginClose, CloseCancel, Join, DrainTimeout
  <2>3. pending' = pending /\ queue' = queue /\ terminated' = terminated
    BY <1>2 DEF BeginClose, CloseCancel, Join, DrainTimeout, portVars
  <2>4. x \notin {"select", "signal"}
    OBVIOUS
  <2> QED BY <1>0, <2>1, <2>2, <2>3, <2>4, WakeUpElsewhere
<1> QED BY <1>1, <1>2 DEF Close

\* The owner's job and the completions of the operating system are no signals.
LEMMA OutsideWakeUp ==
  ASSUME TypeInv, WakeUp, TypeInv',
         \/ \E j \in Jobs : PostJob(j)
         \/ \E f \in Files, p \in Priorities : SetPriority(f, p)
         \/ Kernel
         \/ UNCHANGED vars
  PROVE  WakeUp'
<1>0. /\ Main \in Threads /\ queue \in Seq(Packets) /\ pending \in Seq(Tasks)
      /\ pc \in [Threads -> WorkerPoints \cup MainPoints]
  BY DEF Threads, TypeInv, TypeOK
<1>1. pending' = pending /\ terminated' = terminated
  BY DEF PostJob, SetPriority, Kernel, KernelSucceeds, KernelFails, vars, portVars
<1>2. Cardinality(SignalsIn(queue')) = Cardinality(SignalsIn(queue))
  <2>1. CASE queue' = queue
    BY <2>1
  <2>2. ASSUME NEW o \in Ops, NEW ok \in BOOLEAN, queue' = Append(queue, Completion(o, ok))
        PROVE  Cardinality(SignalsIn(queue')) = Cardinality(SignalsIn(queue))
    BY <1>0, <2>2, PacketTypes, SignalsAppend, SignalsFinite, OpsAssumption
       DEF SignalIf, IsSignal, Completion
  <2>3. CASE Kernel
    <3>1. PICK k \in kernel, ok \in BOOLEAN : queue' = Append(queue, Completion(k.op, ok))
      BY <2>3 DEF Kernel, KernelSucceeds, KernelFails
    <3>2. k.op \in Ops
      BY DEF TypeInv, TypeOK, InFlight, Ops
    <3> QED BY <2>2, <3>1, <3>2
  <2>4. CASE \E j \in Jobs : PostJob(j)
    BY <2>2, <2>4 DEF PostJob, Ops
  <2> QED BY <2>1, <2>3, <2>4 DEF SetPriority, vars, portVars
<1>3. /\ ThreadsAt(pc', "select") = ThreadsAt(pc, "select")
      /\ ThreadsAt(pc', "signal") = ThreadsAt(pc, "signal")
  BY <1>0 DEF PostJob, SetPriority, Kernel, KernelSucceeds, KernelFails,
              vars, portVars, ThreadsAt, At
<1>4. Owed(queue', pc') = Owed(queue, pc)
  BY <1>2, <1>3 DEF Owed
<1>5. Len(pending') - Len(pending) = Owed(queue', pc') - Owed(queue, pc)
  BY <1>0, <1>1, <1>4, OwedIsNat
<1> QED BY <1>1, <1>5, WakeUpBalance

\* IoCompletionPort!WakeUp: whatever the interleaving of callbacks, workers and
\* close(), there are exactly as many wake-ups under way as tasks pending, and
\* never more of them once _terminated is set.
THEOREM NoLostWakeUp == Spec => []WakeUp
<1>1. Init => WakeUp
  <2> SUFFICES ASSUME Init PROVE WakeUp
    OBVIOUS
  <2>1. SignalsIn(queue) = {} /\ ThreadsAt(pc, "select") = {} /\ ThreadsAt(pc, "signal") = {}
    BY DEF Init, SignalsIn, ThreadsAt
  <2>2. Owed(queue, pc) = 0
    BY <2>1, FS_EmptySet DEF Owed
  <2> QED BY <2>2, WakeUpIsOwed DEF Init
<1>2. TypeInv /\ TypeInv' /\ WakeUp /\ [Next]_vars => WakeUp'
  BY LoopWakeUp, CallbackWakeUp, CloseWakeUp, OutsideWakeUp DEF Next, Closed
<1> QED BY <1>1, <1>2, TypeInvariant, PTL DEF Spec
-----------------------------------------------------------------------------
(***************************************************************************)
(* SingleHolder counts the places an object is at.  Its proof is again     *)
(* about how a step changes the counts; it needs in addition that the      *)
(* operating system works on finitely many reads.                          *)
(***************************************************************************)
InQueue(q, o)     == Cardinality({i \in DOMAIN q : q[i].op = o})
InPending(s, o)   == Cardinality({i \in DOMAIN s : s[i].op = o})
InKernel(K, o)    == Cardinality({k \in K : k.op = o})
WithThreads(c, o) == Cardinality({t \in Threads : c[t] = o})
Live(f, o)        == IF f[o] = "live" THEN 1 ELSE 0

HolderInv == SingleHolder /\ IsFiniteSet(kernel)

\* The counts are natural numbers.
LEMMA CountsAreNat ==
  ASSUME TypeInv, IsFiniteSet(kernel), NEW o
  PROVE  /\ InQueue(queue, o) \in Nat /\ InPending(pending, o) \in Nat
         /\ InKernel(kernel, o) \in Nat /\ WithThreads(cur, o) \in Nat
<1>1. /\ IsFiniteSet(1 .. Len(queue)) /\ IsFiniteSet(1 .. Len(pending))
      /\ DOMAIN queue = 1 .. Len(queue) /\ DOMAIN pending = 1 .. Len(pending)
  BY FS_Interval DEF TypeInv, TypeOK
<1>2. IsFiniteSet(Threads)
  BY ThreadsAssumption, FS_AddElement DEF Threads
<1>3. /\ {i \in DOMAIN queue : queue[i].op = o} \in SUBSET (1 .. Len(queue))
      /\ {i \in DOMAIN pending : pending[i].op = o} \in SUBSET (1 .. Len(pending))
      /\ {k \in kernel : k.op = o} \in SUBSET kernel
      /\ {t \in Threads : cur[t] = o} \in SUBSET Threads
  BY <1>1
<1> QED BY <1>1, <1>2, <1>3, FS_Subset, FS_CardinalityType
        DEF InQueue, InPending, InKernel, WithThreads

\* A packet that is posted is one more place of its object ...
LEMMA QueueAppend ==
  ASSUME NEW q \in Seq(Packets), NEW p \in Packets, NEW o
  PROVE  InQueue(Append(q, p), o) = InQueue(q, o) + One(p.op, o)
<1> DEFINE T == {r \in Packets : r.op = o}
           u == Append(q, p)
<1>1. u \in Seq(Packets)
  BY AppendType
<1>2. /\ {i \in DOMAIN u : u[i].op = o} = PlacesOf(u, T)
      /\ {i \in DOMAIN q : q[i].op = o} = PlacesOf(q, T)
      /\ One(p.op, o) = OneIfIn(p, T)
  <2> HIDE DEF u
  <2> QED BY <1>1 DEF PlacesOf, One, OneIfIn
<1>3. Cardinality(PlacesOf(u, T)) = Cardinality(PlacesOf(q, T)) + OneIfIn(p, T)
  <2> HIDE DEF T
  <2> QED BY PlacesAppend
<1> QED BY <1>2, <1>3, Zenon DEF InQueue

\* ... and a packet that is dequeued one less.
LEMMA QueueTail ==
  ASSUME NEW q \in Seq(Packets), q # <<>>, NEW o
  PROVE  InQueue(Tail(q), o) = InQueue(q, o) - One(Head(q).op, o)
<1> DEFINE T == {r \in Packets : r.op = o}
           u == Tail(q)
<1>1. u \in Seq(Packets) /\ Head(q) \in Packets
  BY HeadTailProperties
<1>2. /\ {i \in DOMAIN u : u[i].op = o} = PlacesOf(u, T)
      /\ {i \in DOMAIN q : q[i].op = o} = PlacesOf(q, T)
      /\ One(Head(q).op, o) = OneIfIn(Head(q), T)
  <2> HIDE DEF u
  <2> QED BY <1>1 DEF PlacesOf, One, OneIfIn
<1>3. Cardinality(PlacesOf(u, T)) = Cardinality(PlacesOf(q, T)) - OneIfIn(Head(q), T)
  <2> HIDE DEF T
  <2> QED BY PlacesTail
<1> QED BY <1>2, <1>3, Zenon DEF InQueue

\* The same for the tasks: read_file() adds one ...
LEMMA PendingAppend ==
  ASSUME NEW s \in Seq(Tasks), NEW p \in Tasks, NEW o
  PROVE  InPending(Append(s, p), o) = InPending(s, o) + One(p.op, o)
<1> DEFINE T == {r \in Tasks : r.op = o}
           u == Append(s, p)
<1>1. u \in Seq(Tasks)
  BY AppendType
<1>2. /\ {i \in DOMAIN u : u[i].op = o} = PlacesOf(u, T)
      /\ {i \in DOMAIN s : s[i].op = o} = PlacesOf(s, T)
      /\ One(p.op, o) = OneIfIn(p, T)
  <2> HIDE DEF u
  <2> QED BY <1>1 DEF PlacesOf, One, OneIfIn
<1>3. Cardinality(PlacesOf(u, T)) = Cardinality(PlacesOf(s, T)) + OneIfIn(p, T)
  <2> HIDE DEF T
  <2> QED BY PlacesAppend
<1> QED BY <1>2, <1>3, Zenon DEF InPending

\* ... and the scan takes one.
LEMMA PendingRemove ==
  ASSUME NEW s \in Seq(Tasks), NEW i \in 1 .. Len(s), NEW o
  PROVE  InPending(RemoveAt(s, i), o) = InPending(s, o) - One(s[i].op, o)
<1> DEFINE T == {r \in Tasks : r.op = o}
           u == RemoveAt(s, i)
<1>1. u \in Seq(Tasks) /\ s[i] \in Tasks
  BY RemoveAtProperties
<1>2. /\ {j \in DOMAIN u : u[j].op = o} = PlacesOf(u, T)
      /\ {j \in DOMAIN s : s[j].op = o} = PlacesOf(s, T)
      /\ One(s[i].op, o) = OneIfIn(s[i], T)
  <2> HIDE DEF u
  <2> QED BY <1>1 DEF PlacesOf, One, OneIfIn
<1>3. Cardinality(PlacesOf(u, T)) = Cardinality(PlacesOf(s, T)) - OneIfIn(s[i], T)
  <2> HIDE DEF T
  <2> QED BY PlacesRemoveAt
<1> QED BY <1>2, <1>3, Zenon DEF InPending

\* A thread lets go of the object it has and takes x.
LEMMA ThreadTakes ==
  ASSUME TypeInv, NEW t \in Threads, NEW x, NEW o
  PROVE  WithThreads([cur EXCEPT ![t] = x], o) =
           WithThreads(cur, o) + One(x, o) - One(cur[t], o)
<1>1. IsFiniteSet(Threads) /\ DOMAIN cur = Threads
  BY ThreadsAssumption, FS_AddElement DEF Threads, TypeInv, TypeOK
<1>2. ASSUME NEW f, NEW g, DOMAIN f = Threads, DOMAIN g = Threads,
             \A d \in Threads \ {t} : g[d] = f[d]
      PROVE  WithThreads(g, o) = WithThreads(f, o) + One(g[t], o) - One(f[t], o)
  <2>1. Cardinality(HavingValue(g, o)) =
          Cardinality(HavingValue(f, o)) + OneIfIn(g[t], {o}) - OneIfIn(f[t], {o})
    BY <1>1, <1>2, ValueCountMoves
  <2>2. /\ {d \in Threads : f[d] = o} = HavingValue(f, o)
        /\ {d \in Threads : g[d] = o} = HavingValue(g, o)
    BY <1>2 DEF HavingValue
  <2>3. One(g[t], o) = OneIfIn(g[t], {o}) /\ One(f[t], o) = OneIfIn(f[t], {o})
    BY DEF One, OneIfIn
  <2> QED BY <2>1, <2>2, <2>3, Zenon DEF WithThreads
<1> DEFINE g == [cur EXCEPT ![t] = x]
<1>3. g[t] = x /\ DOMAIN g = Threads /\ \A d \in Threads \ {t} : g[d] = cur[d]
  BY <1>1
<1> HIDE DEF g
<1>4. WithThreads(g, o) = WithThreads(cur, o) + One(x, o) - One(cur[t], o)
  BY <1>1, <1>2, <1>3
<1> QED BY <1>4 DEF g

\* The operating system accepts a read ...
LEMMA KernelAdds ==
  ASSUME NEW K, IsFiniteSet(K), NEW k, k \notin K, NEW o
  PROVE  InKernel(K \cup {k}, o) = InKernel(K, o) + One(k.op, o) /\ IsFiniteSet(K \cup {k})
<1> DEFINE A == {j \in K : j.op = o}
<1>1. A \in SUBSET K /\ {j \in K \cup {k} : j.op = o} = IF k.op = o THEN A \cup {k} ELSE A
  OBVIOUS
<1>2. IsFiniteSet(A) /\ k \notin A /\ Cardinality(A) \in Nat
  BY <1>1, FS_Subset, FS_CardinalityType
<1>3. Cardinality(A \cup {k}) = Cardinality(A) + 1 /\ IsFiniteSet(K \cup {k})
  BY <1>2, FS_AddElement
<1>4. /\ InKernel(K, o) = Cardinality(A)
      /\ InKernel(K \cup {k}, o) = IF k.op = o THEN Cardinality(A \cup {k}) ELSE Cardinality(A)
  BY <1>1, Zenon DEF InKernel
<1> HIDE DEF A
<1> QED BY <1>2, <1>3, <1>4 DEF One

\* ... and completes it.
LEMMA KernelRemoves ==
  ASSUME NEW K, IsFiniteSet(K), NEW k \in K, NEW o
  PROVE  InKernel(K \ {k}, o) = InKernel(K, o) - One(k.op, o) /\ IsFiniteSet(K \ {k})
<1> DEFINE A == {j \in K : j.op = o}
<1>1. A \in SUBSET K /\ {j \in K \ {k} : j.op = o} = A \ {k} /\ (k \in A <=> k.op = o)
  OBVIOUS
<1>2. IsFiniteSet(A) /\ Cardinality(A) \in Nat
  BY <1>1, FS_Subset, FS_CardinalityType
<1>3. Cardinality(A \ {k}) = IF k \in A THEN Cardinality(A) - 1 ELSE Cardinality(A)
  BY <1>2, FS_RemoveElement
<1>4. IsFiniteSet(K \ {k})
  BY FS_RemoveElement
<1>5. InKernel(K, o) = Cardinality(A) /\ InKernel(K \ {k}, o) = Cardinality(A \ {k})
  BY <1>1, Zenon DEF InKernel
<1> HIDE DEF A
<1> QED BY <1>1, <1>2, <1>3, <1>4, <1>5 DEF One

\* CancelIo marks reads; no two become one as long as no object is read twice.
LEMMA KernelRelabels ==
  ASSUME NEW K, IsFiniteSet(K), NEW h, \A k \in K : h[k].op = k.op, DOMAIN h = K,
         NEW o, InKernel(K, o) \in {0, 1}
  PROVE  InKernel({h[k] : k \in K}, o) = InKernel(K, o)
<1> DEFINE A == {k \in K : k.op = o}
           B == {j \in {h[k] : k \in K} : j.op = o}
<1>1. A \in SUBSET K /\ B = {h[k] : k \in A}
  OBVIOUS
<1>2. IsFiniteSet(A) /\ Cardinality(A) \in {0, 1}
  BY <1>1, FS_Subset DEF InKernel
<1>3. InKernel(K, o) = Cardinality(A) /\ InKernel({h[k] : k \in K}, o) = Cardinality(B)
  BY Zenon DEF InKernel
<1> HIDE DEF A, B
<1>4. CASE Cardinality(A) = 0
  <2>1. A = {} /\ B = {}
    BY <1>1, <1>2, <1>4, FS_EmptySet
  <2> QED BY <1>3, <2>1
<1>5. CASE Cardinality(A) = 1
  <2>1. PICK k : A = {k}
    BY <1>2, <1>5, FS_Singleton
  <2>2. B = {h[k]}
    BY <1>1, <2>1
  <2>3. Cardinality(B) = 1
    BY <2>2, FS_Singleton
  <2> QED BY <1>3, <1>5, <2>3
<1> QED BY <1>2, <1>4, <1>5

\* SingleHolder in terms of the four counts.
LEMMA SingleHolderIsSum ==
  SingleHolder <=>
    \A o \in Ops : InQueue(queue, o) + InPending(pending, o) + InKernel(kernel, o)
                   + WithThreads(cur, o) = Live(fate, o)
BY DEF SingleHolder, InQueue, InPending, InKernel, WithThreads, Live

\* What an object at some place is: live, and at this place only.
LEMMA HeldOnce ==
  ASSUME TypeInv, HolderInv, NEW o \in Ops
  PROVE  /\ InQueue(queue, o) \in {0, 1} /\ InPending(pending, o) \in {0, 1}
         /\ InKernel(kernel, o) \in {0, 1} /\ WithThreads(cur, o) \in {0, 1}
         /\ (\E i \in DOMAIN queue : queue[i].op = o) => fate[o] = "live"
         /\ (\E k \in kernel : k.op = o) => fate[o] = "live"
         /\ (\E t \in Threads : cur[t] = o) =>
              fate[o] = "live" /\ InKernel(kernel, o) = 0
<1>1. InQueue(queue, o) + InPending(pending, o) + InKernel(kernel, o)
        + WithThreads(cur, o) = Live(fate, o)
  BY SingleHolderIsSum DEF HolderInv
<1>2. /\ InQueue(queue, o) \in Nat /\ InPending(pending, o) \in Nat
      /\ InKernel(kernel, o) \in Nat /\ WithThreads(cur, o) \in Nat
      /\ Live(fate, o) \in {0, 1} /\ (Live(fate, o) = 1 => fate[o] = "live")
  BY CountsAreNat DEF HolderInv, Live
<1>3. ASSUME NEW i \in DOMAIN queue, queue[i].op = o PROVE InQueue(queue, o) # 0
  <2>1. IsFiniteSet({j \in DOMAIN queue : queue[j].op = o})
    <3>1. IsFiniteSet(1 .. Len(queue)) /\ DOMAIN queue = 1 .. Len(queue)
      BY FS_Interval DEF TypeInv, TypeOK
    <3>2. {j \in DOMAIN queue : queue[j].op = o} \in SUBSET (1 .. Len(queue))
      BY <3>1
    <3> QED BY <3>1, <3>2, FS_Subset
  <2>2. {j \in DOMAIN queue : queue[j].op = o} # {}
    BY <1>3
  <2> QED BY <2>1, <2>2, FS_EmptySet DEF InQueue
<1>4. ASSUME NEW k \in kernel, k.op = o PROVE InKernel(kernel, o) # 0
  <2>1. {j \in kernel : j.op = o} \in SUBSET kernel /\ {j \in kernel : j.op = o} # {}
    BY <1>4
  <2> QED BY <2>1, FS_Subset, FS_EmptySet DEF InKernel, HolderInv
<1>5. ASSUME NEW t \in Threads, cur[t] = o PROVE WithThreads(cur, o) # 0
  <2>1. IsFiniteSet(Threads)
    BY ThreadsAssumption, FS_AddElement DEF Threads
  <2>2. {d \in Threads : cur[d] = o} \in SUBSET Threads /\ {d \in Threads : cur[d] = o} # {}
    BY <1>5
  <2> QED BY <2>1, <2>2, FS_Subset, FS_EmptySet DEF WithThreads
<1>6. ASSUME NEW a \in Nat, NEW b \in Nat, NEW c \in Nat, NEW d \in Nat,
             NEW l \in {0, 1}, a + b + c + d = l
      PROVE  /\ a \in {0, 1} /\ b \in {0, 1} /\ c \in {0, 1} /\ d \in {0, 1}
             /\ (a # 0 \/ c # 0 \/ d # 0) => l = 1
             /\ d # 0 => c = 0
  BY <1>6
<1>7. /\ InQueue(queue, o) \in {0, 1} /\ InPending(pending, o) \in {0, 1}
      /\ InKernel(kernel, o) \in {0, 1} /\ WithThreads(cur, o) \in {0, 1}
      /\ (InQueue(queue, o) # 0 \/ InKernel(kernel, o) # 0 \/ WithThreads(cur, o) # 0)
           => Live(fate, o) = 1
      /\ WithThreads(cur, o) # 0 => InKernel(kernel, o) = 0
  BY <1>1, <1>2, <1>6
<1> QED BY <1>2, <1>3, <1>4, <1>5, <1>7, Zenon

\* A step changes how often an object is held as it changes whether it is live.
LEMMA HolderBalance ==
  ASSUME TypeInv, HolderInv, TypeInv', IsFiniteSet(kernel'),
         \A o \in Ops :
           (InQueue(queue', o) - InQueue(queue, o))
           + (InPending(pending', o) - InPending(pending, o))
           + (InKernel(kernel', o) - InKernel(kernel, o))
           + (WithThreads(cur', o) - WithThreads(cur, o))
             = Live(fate', o) - Live(fate, o)
  PROVE  HolderInv'
<1>1. ASSUME NEW o \in Ops
      PROVE  InQueue(queue', o) + InPending(pending', o) + InKernel(kernel', o)
             + WithThreads(cur', o) = Live(fate', o)
  <2>1. /\ InQueue(queue, o) \in Nat /\ InPending(pending, o) \in Nat
        /\ InKernel(kernel, o) \in Nat /\ WithThreads(cur, o) \in Nat
    BY CountsAreNat DEF HolderInv
  <2>2. /\ InQueue(queue', o) \in Nat /\ InPending(pending', o) \in Nat
        /\ InKernel(kernel', o) \in Nat /\ WithThreads(cur', o) \in Nat
    <3>1. TypeInv /\ IsFiniteSet(kernel) =>
            /\ InQueue(queue, o) \in Nat /\ InPending(pending, o) \in Nat
            /\ InKernel(kernel, o) \in Nat /\ WithThreads(cur, o) \in Nat
      BY CountsAreNat
    <3>2. (TypeInv /\ IsFiniteSet(kernel) =>
            /\ InQueue(queue, o) \in Nat /\ InPending(pending, o) \in Nat
            /\ InKernel(kernel, o) \in Nat /\ WithThreads(cur, o) \in Nat)'
      BY CountsAreNat, PTL
    <3> QED BY <3>2 DEF InQueue, InPending, InKernel, WithThreads
  <2>3. InQueue(queue, o) + InPending(pending, o) + InKernel(kernel, o)
        + WithThreads(cur, o) = Live(fate, o)
    BY SingleHolderIsSum DEF HolderInv
  <2>4. Live(fate, o) \in {0, 1} /\ Live(fate', o) \in {0, 1}
    BY DEF Live
  <2> QED BY <2>1, <2>2, <2>3, <2>4
<1>2. SingleHolder'
  BY <1>1 DEF SingleHolder, InQueue, InPending, InKernel, WithThreads, Live
<1> QED BY <1>2 DEF HolderInv

\* How a change of one object's fate changes whether an object is live.
LEMMA LiveChanges ==
  ASSUME NEW g \in [Ops -> Fates], NEW h \in [Ops -> Fates], NEW x \in Ops, NEW o \in Ops,
         \A y \in Ops \ {x} : h[y] = g[y]
  PROVE  /\ g[x] = "live" /\ h[x] # "live" => Live(h, o) = Live(g, o) - One(x, o)
         /\ g[x] # "live" /\ h[x] = "live" => Live(h, o) = Live(g, o) + One(x, o)
         /\ Live(g, o) \in {0, 1}
BY DEF Live, One

\* No thread, object or place but the queue is concerned, and no object's packet.
LEMMA HolderStays ==
  ASSUME TypeInv, HolderInv, TypeInv', UNCHANGED <<pending, kernel, cur, fate>>,
         \A o \in Ops : InQueue(queue', o) = InQueue(queue, o)
  PROVE  HolderInv'
<1>1. ASSUME NEW o \in Ops
      PROVE  (InQueue(queue', o) - InQueue(queue, o))
             + (InPending(pending', o) - InPending(pending, o))
             + (InKernel(kernel', o) - InKernel(kernel, o))
             + (WithThreads(cur', o) - WithThreads(cur, o))
               = Live(fate', o) - Live(fate, o)
  BY CountsAreNat DEF HolderInv, Live
<1> QED BY <1>1, HolderBalance DEF HolderInv

\* A thread ends the handling of its object: one holder less, and no longer live.
LEMMA HolderSettles ==
  ASSUME TypeInv, HolderInv, TypeInv', NEW t \in Threads, cur[t] \in Ops,
         NEW f \in Fates \ {"live"}, Settle(t, f), UNCHANGED <<queue, pending, kernel>>
  PROVE  HolderInv'
<1>1. fate[cur[t]] = "live"
  BY HeldOnce
<1>2. ASSUME NEW o \in Ops
      PROVE  (InQueue(queue', o) - InQueue(queue, o))
             + (InPending(pending', o) - InPending(pending, o))
             + (InKernel(kernel', o) - InKernel(kernel, o))
             + (WithThreads(cur', o) - WithThreads(cur, o))
               = Live(fate', o) - Live(fate, o)
  <2>1. WithThreads(cur', o) = WithThreads(cur, o) + One(None, o) - One(cur[t], o)
    BY ThreadTakes DEF Settle
  <2>2. Live(fate', o) = Live(fate, o) - One(cur[t], o) /\ Live(fate, o) \in {0, 1}
    <3>1. /\ fate \in [Ops -> Fates] /\ fate' \in [Ops -> Fates] /\ fate'[cur[t]] # "live"
          /\ \A y \in Ops \ {cur[t]} : fate'[y] = fate[y]
      BY DEF Settle, TypeInv, TypeOK
    <3> QED BY <1>1, <3>1, LiveChanges
  <2>3. One(None, o) = 0 /\ One(cur[t], o) \in {0, 1}
    BY OpsAssumption DEF One
  <2> QED BY <2>1, <2>2, <2>3, CountsAreNat DEF HolderInv
<1> QED BY <1>2, HolderBalance DEF HolderInv

\* A thread takes an object from the head of the queue, or posts the object it has.
LEMMA HolderHandsOver ==
  ASSUME TypeInv, HolderInv, TypeInv', NEW t \in Threads, NEW x \in Ops \cup {None},
         cur' = [cur EXCEPT ![t] = x], UNCHANGED fate, IsFiniteSet(kernel'),
         \A o \in Ops :
           (InQueue(queue', o) - InQueue(queue, o))
           + (InPending(pending', o) - InPending(pending, o))
           + (InKernel(kernel', o) - InKernel(kernel, o))
             = One(cur[t], o) - One(x, o)
  PROVE  HolderInv'
<1>1. ASSUME NEW o \in Ops
      PROVE  (InQueue(queue', o) - InQueue(queue, o))
             + (InPending(pending', o) - InPending(pending, o))
             + (InKernel(kernel', o) - InKernel(kernel, o))
             + (WithThreads(cur', o) - WithThreads(cur, o))
               = Live(fate', o) - Live(fate, o)
  <2>1. WithThreads(cur', o) = WithThreads(cur, o) + One(x, o) - One(cur[t], o)
    BY ThreadTakes
  <2>2. WithThreads(cur, o) \in Nat /\ One(x, o) \in {0, 1} /\ One(cur[t], o) \in {0, 1}
    BY CountsAreNat DEF HolderInv, One
  <2>3. Live(fate', o) - Live(fate, o) = 0
    BY DEF Live
  <2>4. WithThreads(cur', o) - WithThreads(cur, o) = One(x, o) - One(cur[t], o)
    BY <2>1, <2>2
  <2>5. ASSUME NEW d, d = One(cur[t], o) - One(x, o)
        PROVE  d + (One(x, o) - One(cur[t], o)) = 0
    BY <2>2, <2>5
  <2> QED BY <2>3, <2>4, <2>5
<1> QED BY <1>1, HolderBalance

\* The completion at the head of the queue is of some object.
LEMMA HeadCompletes ==
  ASSUME TypeInv, queue # <<>>, IsCompletion(Head(queue))
  PROVE  Head(queue) \in Packets /\ Head(queue).op \in Ops
<1>1. queue \in Seq(Packets)
  BY DEF TypeInv, TypeOK
<1>2. Head(queue) \in Packets
  BY <1>1, HeadTailProperties
<1> QED BY <1>2 DEF Packets, IsCompletion

\* cancel_thread_ios() reaches reads but moves none.
LEMMA HolderCancels ==
  ASSUME TypeInv, HolderInv, TypeInv', NEW t \in Threads, CancelThreadIos(t),
         UNCHANGED <<queue, pending, cur, fate>>
  PROVE  HolderInv'
<1> DEFINE asked == {FileOf[pending[i].op] : i \in {j \in DOMAIN pending : pending[j].by = t}}
           h == [k \in kernel |-> [k EXCEPT !.cancelled = @ \/ (k.by = t /\ FileOf[k.op] \in asked)]]
<1>1. /\ kernel' = {h[k] : k \in kernel} /\ DOMAIN h = kernel
      /\ \A k \in kernel : h[k].op = k.op
  <2>1. \A k \in kernel : k \in InFlight
    BY DEF TypeInv, TypeOK
  <2> HIDE DEF asked
  <2>2. kernel' = {[k EXCEPT !.cancelled = @ \/ (k.by = t /\ FileOf[k.op] \in asked)] :
                     k \in kernel}
    BY Zenon DEF CancelThreadIos, asked
  <2> QED BY <2>1, <2>2 DEF InFlight
<1> HIDE DEF h
<1>2. IsFiniteSet(kernel')
  <2>1. h \in Surjection(kernel, kernel')
    <3>1. h \in [kernel -> kernel'] /\ \A j \in kernel' : \E k \in kernel : h[k] = j
      <4>1. h = [k \in kernel |-> h[k]]
        BY DEF h
      <4> QED BY <1>1, <4>1
    <3> QED BY <3>1, Fun_IsSurj
  <2> QED BY <2>1, FS_Surjection DEF HolderInv
<1>3. ASSUME NEW o \in Ops PROVE InKernel(kernel', o) = InKernel(kernel, o)
  <2>1. InKernel(kernel, o) \in {0, 1} /\ IsFiniteSet(kernel)
    BY HeldOnce DEF HolderInv
  <2> QED BY <1>1, <2>1, KernelRelabels
<1>4. ASSUME NEW o \in Ops
      PROVE  (InQueue(queue', o) - InQueue(queue, o))
             + (InPending(pending', o) - InPending(pending, o))
             + (InKernel(kernel', o) - InKernel(kernel, o))
             + (WithThreads(cur', o) - WithThreads(cur, o))
               = Live(fate', o) - Live(fate, o)
  BY <1>3, CountsAreNat DEF HolderInv, Live
<1> QED BY <1>2, <1>4, HolderBalance

\* The loop of a worker hands objects on, or ends their life.
LEMMA LoopHolder ==
  ASSUME TypeInv, HolderInv, TypeInv', NEW t \in Threads, Loop(t)
  PROVE  HolderInv'
<1> USE DEF At, Goto
<1>0. /\ queue \in Seq(Packets) /\ pending \in Seq(Tasks) /\ None \notin Ops
      /\ IsFiniteSet(kernel) /\ kernel \in SUBSET InFlight
      /\ pc[t] \notin Owning => cur[t] = None
  BY OpsAssumption DEF TypeInv, TypeOK, CurOK, HolderInv
<1>n. ASSUME NEW o \in Ops
      PROVE  /\ InQueue(queue, o) \in Nat /\ InPending(pending, o) \in Nat
             /\ InKernel(kernel, o) \in Nat /\ WithThreads(cur, o) \in Nat
             /\ One(None, o) = 0 /\ \A x : One(x, o) \in {0, 1}
  BY <1>0, CountsAreNat DEF One
<1>1. CASE TakeCompletion(t)
  <2>1. queue # <<>> /\ queue' = Tail(queue) /\ cur' = [cur EXCEPT ![t] = Head(queue).op]
        /\ UNCHANGED <<pending, kernel, fate>> /\ cur[t] = None
    BY <1>0, <1>1 DEF TakeCompletion, Owning
  <2>2. Head(queue).op \in Ops
    BY <1>1, HeadCompletes DEF TakeCompletion
  <2>3. ASSUME NEW o \in Ops
        PROVE  (InQueue(queue', o) - InQueue(queue, o))
               + (InPending(pending', o) - InPending(pending, o))
               + (InKernel(kernel', o) - InKernel(kernel, o))
                 = One(cur[t], o) - One(Head(queue).op, o)
    <3>1. InQueue(queue', o) = InQueue(queue, o) - One(Head(queue).op, o)
      BY <1>0, <2>1, QueueTail
    <3> QED BY <1>n, <2>1, <3>1
  <2> DEFINE x == Head(queue).op
  <2>4. /\ x \in Ops \cup {None} /\ cur' = [cur EXCEPT ![t] = x]
        /\ UNCHANGED fate /\ IsFiniteSet(kernel')
    BY <1>0, <2>1, <2>2
  <2>5. \A o \in Ops :
          (InQueue(queue', o) - InQueue(queue, o))
          + (InPending(pending', o) - InPending(pending, o))
          + (InKernel(kernel', o) - InKernel(kernel, o))
            = One(cur[t], o) - One(x, o)
    BY <2>3
  <2> HIDE DEF x
  <2> QED BY <2>4, <2>5, HolderHandsOver
<1>2. CASE TakeFailure(t)
  <2>1. /\ queue # <<>> /\ queue' = Tail(queue)
        /\ fate' = [fate EXCEPT ![Head(queue).op] = "leaked"]
        /\ UNCHANGED <<pending, kernel, cur>>
    BY <1>2 DEF TakeFailure
  <2>2. Head(queue).op \in Ops
    BY <1>2, HeadCompletes DEF TakeFailure
  <2>3. fate[Head(queue).op] = "live"
    <3>1. 1 \in DOMAIN queue /\ Head(queue) = queue[1]
      BY <1>0, <2>1
    <3> QED BY <2>2, <3>1, HeldOnce
  <2>4. ASSUME NEW o \in Ops
        PROVE  (InQueue(queue', o) - InQueue(queue, o))
               + (InPending(pending', o) - InPending(pending, o))
               + (InKernel(kernel', o) - InKernel(kernel, o))
               + (WithThreads(cur', o) - WithThreads(cur, o))
                 = Live(fate', o) - Live(fate, o)
    <3>1. InQueue(queue', o) = InQueue(queue, o) - One(Head(queue).op, o)
      BY <1>0, <2>1, QueueTail
    <3>2. Live(fate', o) = Live(fate, o) - One(Head(queue).op, o) /\ Live(fate, o) \in {0, 1}
      <4>1. /\ fate \in [Ops -> Fates] /\ fate' \in [Ops -> Fates]
            /\ fate'[Head(queue).op] # "live"
            /\ \A y \in Ops \ {Head(queue).op} : fate'[y] = fate[y]
        BY <2>1, <2>2 DEF TypeInv, TypeOK
      <4> QED BY <2>2, <2>3, <4>1, LiveChanges
    <3> QED BY <1>n, <2>1, <3>1, <3>2
  <2> QED BY <1>0, <2>1, <2>4, HolderBalance
<1>3. CASE TakeSignal(t) \/ TakeTerminate(t)
  <2>1. queue # <<>> /\ queue' = Tail(queue) /\ UNCHANGED <<pending, kernel, cur, fate>>
        /\ Head(queue).op = None
    BY <1>3 DEF TakeSignal, TakeTerminate, IsSignal, IsTerminate, histVars
  <2>2. ASSUME NEW o \in Ops PROVE InQueue(queue', o) = InQueue(queue, o)
    <3>1. InQueue(queue', o) = InQueue(queue, o) - One(Head(queue).op, o)
      BY <1>0, <2>1, QueueTail
    <3> QED BY <1>n, <2>1, <3>1
  <2> QED BY <2>1, <2>2, HolderStays
<1>4. CASE PostSignal(t)
  <2>1. cur[t] \in Ops /\ UNCHANGED <<pending, kernel>>
    BY <1>4 DEF PostSignal, TypeInv, CurOK, Owning
  <2>2. CASE ~Refused(Signal)
    <3>1. queue' = Append(queue, Signal) /\ UNCHANGED <<cur, fate>> /\ Signal.op = None
      BY <1>4, <2>2 DEF PostSignal, Signal
    <3>2. ASSUME NEW o \in Ops PROVE InQueue(queue', o) = InQueue(queue, o)
      <4>1. InQueue(queue', o) = InQueue(queue, o) + One(Signal.op, o)
        BY <1>0, <3>1, PacketTypes, QueueAppend
      <4> QED BY <1>n, <3>1, <4>1
    <3> QED BY <2>1, <3>1, <3>2, HolderStays
  <2>3. CASE Refused(Signal)
    <3>1. PICK f \in {"done", "dropped"} : Settle(t, f)
      BY <1>4, <2>3 DEF PostSignal
    <3>2. f \in Fates \ {"live"} /\ UNCHANGED queue
      BY <1>4, <2>3 DEF PostSignal, Fates
    <3> QED BY <2>1, <3>1, <3>2, HolderSettles
  <2> QED BY <2>2, <2>3
<1>5. CASE SelectTask(t)
  <2>1. CASE pending = <<>>
    <3>1. UNCHANGED <<queue, pending, kernel, cur, fate>>
      BY <1>5, <2>1 DEF SelectTask, histVars
    <3>2. \A o \in Ops : InQueue(queue', o) = InQueue(queue, o)
      BY <3>1
    <3> QED BY <3>1, <3>2, HolderStays
  <2>2. CASE pending # <<>>
    <3> DEFINE found == Found([i \in 1 .. Len(pending) |->
                                 priority[FileOf[pending[i].op]]], scan)
               n == found + 1
    <3>1. found \in 0 .. Len(pending) - 1
      BY <2>2, SelectFinds DEF TypeInv
    <3>2. n \in 1 .. Len(pending)
      BY <1>0, <3>1
    <3>3. /\ cur' = [cur EXCEPT ![t] = pending[n].op] /\ pending' = RemoveAt(pending, n)
          /\ UNCHANGED <<queue, kernel, fate>> /\ cur[t] = None
      BY <1>0, <1>5, <2>2 DEF SelectTask, Owning, histVars
    <3> HIDE DEF n
    <3>4. pending[n].op \in Ops
      <4>1. pending[n] \in Tasks
        BY <1>0, <3>2
      <4> QED BY <4>1 DEF Tasks, Ops
    <3>5. ASSUME NEW o \in Ops
          PROVE  (InQueue(queue', o) - InQueue(queue, o))
                 + (InPending(pending', o) - InPending(pending, o))
                 + (InKernel(kernel', o) - InKernel(kernel, o))
                   = One(cur[t], o) - One(pending[n].op, o)
      <4>1. InPending(pending', o) = InPending(pending, o) - One(pending[n].op, o)
        BY <1>0, <3>2, <3>3, PendingRemove
      <4> QED BY <1>n, <3>3, <4>1
    <3> DEFINE x == pending[n].op
    <3>6. /\ x \in Ops \cup {None} /\ cur' = [cur EXCEPT ![t] = x]
          /\ UNCHANGED fate /\ IsFiniteSet(kernel')
      BY <1>0, <3>3, <3>4
    <3>7. \A o \in Ops :
            (InQueue(queue', o) - InQueue(queue, o))
            + (InPending(pending', o) - InPending(pending, o))
            + (InKernel(kernel', o) - InKernel(kernel, o))
              = One(cur[t], o) - One(x, o)
      BY <3>5
    <3> HIDE DEF x
    <3> QED BY <3>6, <3>7, HolderHandsOver
  <2> QED BY <2>1, <2>2
<1>6. CASE PostCompletion(t)
  <2> DEFINE p == Completion(cur[t], TRUE)
  <2>1. cur[t] \in Ops /\ UNCHANGED <<pending, kernel>>
    BY <1>6 DEF PostCompletion, TypeInv, CurOK, Owning
  <2>2. p \in Packets /\ p.op = cur[t]
    BY <2>1, PacketTypes DEF Completion
  <2>3. CASE ~Refused(p)
    <3>1. queue' = Append(queue, p) /\ cur' = [cur EXCEPT ![t] = None] /\ UNCHANGED fate
      BY <1>6, <2>3 DEF PostCompletion
    <3> HIDE DEF p
    <3>2. ASSUME NEW o \in Ops
          PROVE  (InQueue(queue', o) - InQueue(queue, o))
                 + (InPending(pending', o) - InPending(pending, o))
                 + (InKernel(kernel', o) - InKernel(kernel, o))
                   = One(cur[t], o) - One(None, o)
      <4>1. InQueue(queue', o) = InQueue(queue, o) + One(p.op, o)
        BY <1>0, <2>2, <3>1, QueueAppend
      <4> QED BY <1>n, <2>1, <2>2, <4>1
    <3> QED BY <1>0, <2>1, <3>1, <3>2, HolderHandsOver
  <2>4. CASE Refused(p)
    <3>1. Settle(t, "dropped") /\ UNCHANGED queue /\ "dropped" \in Fates \ {"live"}
      BY <1>6, <2>4 DEF PostCompletion, Fates
    <3> QED BY <2>1, <3>1, HolderSettles
  <2> QED BY <2>3, <2>4
<1>7. CASE EnqueueIssued(t)
  <2> DEFINE k == [op |-> cur[t], by |-> t, cancelled |-> FALSE]
  <2>1. cur[t] \in Ops
    BY <1>7 DEF EnqueueIssued, TypeInv, CurOK, Owning
  <2>2. /\ kernel' = kernel \cup {k} /\ cur' = [cur EXCEPT ![t] = None]
        /\ UNCHANGED <<queue, pending, fate>>
    BY <1>7 DEF EnqueueIssued, portVars, histVars
  <2>3. k \notin kernel /\ k.op = cur[t]
    <3>1. InKernel(kernel, cur[t]) = 0
      BY <2>1, HeldOnce
    <3>2. {j \in kernel : j.op = cur[t]} \in SUBSET kernel
      OBVIOUS
    <3>3. {j \in kernel : j.op = cur[t]} = {}
      BY <1>0, <3>1, <3>2, FS_Subset, FS_EmptySet DEF InKernel
    <3> QED BY <3>3
  <2> HIDE DEF k
  <2>4. ASSUME NEW o \in Ops
        PROVE  (InQueue(queue', o) - InQueue(queue, o))
               + (InPending(pending', o) - InPending(pending, o))
               + (InKernel(kernel', o) - InKernel(kernel, o))
                 = One(cur[t], o) - One(None, o)
    <3>1. InKernel(kernel', o) = InKernel(kernel, o) + One(k.op, o)
      BY <1>0, <2>2, <2>3, KernelAdds
    <3> QED BY <1>n, <2>2, <2>3, <3>1
  <2>5. IsFiniteSet(kernel')
    BY <1>0, <2>2, FS_AddElement
  <2> QED BY <2>2, <2>4, <2>5, HolderHandsOver
<1>8. CASE EnqueueFailed(t) \/ EnqueueRefused(t)
  <2>1. cur[t] \in Ops
    BY <1>8 DEF EnqueueFailed, EnqueueRefused, TypeInv, CurOK, Owning
  <2>2. Settle(t, "dropped") /\ UNCHANGED <<queue, pending, kernel>>
        /\ "dropped" \in Fates \ {"live"}
    BY <1>8 DEF EnqueueFailed, EnqueueRefused, portVars, Fates
  <2> QED BY <2>1, <2>2, HolderSettles
<1>9. CASE EnqueueCompleted(t) \/ SetTerminated(t)
  <2>1. UNCHANGED <<queue, pending, kernel, cur, fate>>
    BY <1>9 DEF EnqueueCompleted, SetTerminated, portVars, histVars
  <2>2. \A o \in Ops : InQueue(queue', o) = InQueue(queue, o)
    BY <2>1
  <2> QED BY <2>1, <2>2, HolderStays
<1>10. CASE EndOnTerminate(t)
  BY <1>10, HolderCancels DEF EndOnTerminate, portVars, histVars
<1> QED BY <1>1, <1>2, <1>3, <1>4, <1>5, <1>6, <1>7, <1>8, <1>9, <1>10 DEF Loop

\* A callback submits reads and ends the handling of its own object.
LEMMA CallbackHolder ==
  ASSUME TypeInv, HolderInv, TypeInv', NEW t \in Threads, Callback(t)
  PROVE  HolderInv'
<1> USE DEF At, Goto
<1>1. ASSUME NEW r \in Reads, PushTask(t, r) PROVE HolderInv'
  <2> DEFINE p == [op |-> r, by |-> t]
  <2>1. /\ pending' = Append(pending, p) /\ fate[r] = "new"
        /\ fate' = [fate EXCEPT ![r] = "live"] /\ UNCHANGED <<queue, kernel, cur>>
    BY <1>1 DEF PushTask
  <2>2. p \in Tasks /\ p.op = r /\ r \in Ops /\ pending \in Seq(Tasks)
    BY DEF Tasks, Ops, TypeInv, TypeOK
  <2> HIDE DEF p
  <2>3. ASSUME NEW o \in Ops
        PROVE  (InQueue(queue', o) - InQueue(queue, o))
               + (InPending(pending', o) - InPending(pending, o))
               + (InKernel(kernel', o) - InKernel(kernel, o))
               + (WithThreads(cur', o) - WithThreads(cur, o))
                 = Live(fate', o) - Live(fate, o)
    <3>1. InPending(pending', o) = InPending(pending, o) + One(r, o)
      BY <2>1, <2>2, PendingAppend
    <3>2. Live(fate', o) = Live(fate, o) + One(r, o) /\ Live(fate, o) \in {0, 1}
      <4>1. /\ fate \in [Ops -> Fates] /\ fate' \in [Ops -> Fates] /\ fate'[r] = "live"
            /\ fate[r] # "live" /\ \A y \in Ops \ {r} : fate'[y] = fate[y]
        BY <2>1, <2>2 DEF TypeInv, TypeOK
      <4>2. r \in Ops
        BY <2>2
      <4> QED BY <4>1, <4>2, LiveChanges
    <3>3. One(r, o) \in {0, 1}
      BY DEF One
    <3> QED BY <2>1, <3>1, <3>2, <3>3, CountsAreNat DEF HolderInv
  <2> QED BY <2>1, <2>3, HolderBalance DEF HolderInv
<1>2. ASSUME NEW r \in {-1, 0, 1}, Return(t, r) PROVE HolderInv'
  <2>1. cur[t] \in Ops /\ UNCHANGED <<queue, pending, kernel>>
    BY <1>2 DEF Return, portVars, TypeInv, CurOK, Owning
  <2>2. CASE UNCHANGED <<fate, cur>>
    <3>1. \A o \in Ops : InQueue(queue', o) = InQueue(queue, o)
      BY <2>1
    <3> QED BY <2>1, <2>2, <3>1, HolderStays
  <2>3. CASE \E f \in {"done", "kept"} : Settle(t, f)
    <3>1. PICK f \in {"done", "kept"} : Settle(t, f)
      BY <2>3
    <3>2. f \in Fates \ {"live"}
      BY DEF Fates
    <3> QED BY <2>1, <3>1, <3>2, HolderSettles
  <2> QED BY <1>2, <2>2, <2>3 DEF Return
<1> QED BY <1>1, <1>2 DEF Callback

\* close() holds no object, and its packets carry none.
LEMMA CloseHolder ==
  ASSUME TypeInv, HolderInv, TypeInv', Close
  PROVE  HolderInv'
<1>1. CASE PostTerminate
  <2>1. queue' = Append(queue, Terminate) /\ UNCHANGED <<pending, kernel, cur, fate>>
        /\ Terminate.op = None /\ Terminate \in Packets /\ queue \in Seq(Packets)
    BY <1>1, PacketTypes DEF PostTerminate, histVars, Terminate, TypeInv, TypeOK
  <2>2. ASSUME NEW o \in Ops PROVE InQueue(queue', o) = InQueue(queue, o)
    <3>1. InQueue(queue', o) = InQueue(queue, o) + One(Terminate.op, o)
      BY <2>1, QueueAppend
    <3>2. One(None, o) = 0 /\ InQueue(queue, o) \in Nat
      BY OpsAssumption, CountsAreNat DEF One, HolderInv
    <3> QED BY <2>1, <3>1, <3>2
  <2> QED BY <2>1, <2>2, HolderStays
<1>2. CASE CloseCancel
  <2>1. Main \in Threads
    BY DEF Threads
  <2> QED BY <1>2, <2>1, HolderCancels DEF CloseCancel, portVars, histVars
<1>3. CASE BeginClose \/ Join \/ DrainTimeout
  <2>1. UNCHANGED <<queue, pending, kernel, cur, fate>>
    BY <1>3 DEF BeginClose, Join, DrainTimeout, portVars, histVars
  <2>2. \A o \in Ops : InQueue(queue', o) = InQueue(queue, o)
    BY <2>1
  <2> QED BY <2>1, <2>2, HolderStays
<1> QED BY <1>1, <1>2, <1>3 DEF Close

\* The owner submits jobs, the operating system hands reads back.
LEMMA OutsideHolder ==
  ASSUME TypeInv, HolderInv, TypeInv',
         \/ \E j \in Jobs : PostJob(j)
         \/ \E f \in Files, p \in Priorities : SetPriority(f, p)
         \/ Kernel
         \/ UNCHANGED vars
  PROVE  HolderInv'
<1>0. /\ queue \in Seq(Packets) /\ IsFiniteSet(kernel)
      /\ fate \in [Ops -> Fates] /\ fate' \in [Ops -> Fates]
  BY DEF TypeInv, TypeOK, HolderInv
<1>n. ASSUME NEW o \in Ops
      PROVE  /\ InQueue(queue, o) \in Nat /\ InPending(pending, o) \in Nat
             /\ InKernel(kernel, o) \in Nat /\ WithThreads(cur, o) \in Nat
             /\ Live(fate, o) \in {0, 1} /\ \A x : One(x, o) \in {0, 1}
  BY <1>0, CountsAreNat DEF One, Live
<1>1. ASSUME NEW j \in Jobs, PostJob(j) PROVE HolderInv'
  <2> DEFINE p == Completion(j, TRUE)
  <2>1. /\ queue' = Append(queue, p) /\ fate[j] = "new"
        /\ fate' = [fate EXCEPT ![j] = "live"] /\ UNCHANGED <<pending, kernel, cur>>
    BY <1>1 DEF PostJob
  <2>2. j \in Ops /\ p \in Packets /\ p.op = j
    BY PacketTypes DEF Ops, Completion
  <2> HIDE DEF p
  <2>3. ASSUME NEW o \in Ops
        PROVE  (InQueue(queue', o) - InQueue(queue, o))
               + (InPending(pending', o) - InPending(pending, o))
               + (InKernel(kernel', o) - InKernel(kernel, o))
               + (WithThreads(cur', o) - WithThreads(cur, o))
                 = Live(fate', o) - Live(fate, o)
    <3>1. InQueue(queue', o) = InQueue(queue, o) + One(j, o)
      BY <1>0, <2>1, <2>2, QueueAppend
    <3>2. Live(fate', o) = Live(fate, o) + One(j, o)
      <4>1. fate[j] # "live" /\ fate'[j] = "live" /\ \A y \in Ops \ {j} : fate'[y] = fate[y]
        BY <1>0, <2>1, <2>2
      <4>2. j \in Ops /\ fate \in [Ops -> Fates] /\ fate' \in [Ops -> Fates]
        BY <1>0, <2>2
      <4> QED BY <4>1, <4>2, LiveChanges
    <3> QED BY <1>n, <2>1, <3>1, <3>2
  <2> QED BY <1>0, <2>1, <2>3, HolderBalance
<1>2. CASE (\E f \in Files, p \in Priorities : SetPriority(f, p)) \/ UNCHANGED vars
  <2>1. UNCHANGED <<queue, pending, kernel, cur, fate>>
    BY <1>2 DEF SetPriority, vars, portVars, histVars
  <2>2. \A o \in Ops : InQueue(queue', o) = InQueue(queue, o)
    BY <2>1
  <2> QED BY <2>1, <2>2, HolderStays
<1>3. ASSUME NEW k \in kernel, NEW ok \in BOOLEAN, kernel' = kernel \ {k},
             queue' = Append(queue, Completion(k.op, ok)), UNCHANGED <<pending, cur, fate>>
      PROVE  HolderInv'
  <2> DEFINE p == Completion(k.op, ok)
  <2>1. k.op \in Ops /\ p \in Packets /\ p.op = k.op
    <3>1. k.op \in Ops
      BY DEF TypeInv, TypeOK, InFlight, Ops
    <3> QED BY <3>1, PacketTypes DEF Completion
  <2>2. queue' = Append(queue, p)
    BY <1>3
  <2> HIDE DEF p
  <2>3. ASSUME NEW o \in Ops
        PROVE  (InQueue(queue', o) - InQueue(queue, o))
               + (InPending(pending', o) - InPending(pending, o))
               + (InKernel(kernel', o) - InKernel(kernel, o))
               + (WithThreads(cur', o) - WithThreads(cur, o))
                 = Live(fate', o) - Live(fate, o)
    <3>1. InQueue(queue', o) = InQueue(queue, o) + One(k.op, o)
      BY <1>0, <2>1, <2>2, QueueAppend
    <3>2. InKernel(kernel', o) = InKernel(kernel, o) - One(k.op, o)
      BY <1>0, <1>3, KernelRemoves
    <3>3. Live(fate', o) = Live(fate, o) /\ WithThreads(cur', o) = WithThreads(cur, o)
          /\ InPending(pending', o) = InPending(pending, o)
      BY <1>3
    <3> QED BY <1>n, <3>1, <3>2, <3>3
  <2>4. IsFiniteSet(kernel')
    BY <1>0, <1>3, FS_RemoveElement
  <2> QED BY <2>3, <2>4, HolderBalance
<1>4. CASE Kernel
  <2>1. PICK k \in kernel : KernelSucceeds(k) \/ KernelFails(k)
    BY <1>4 DEF Kernel
  <2>2. kernel' = kernel \ {k} /\ UNCHANGED <<pending, cur, fate>>
    BY <2>1 DEF KernelSucceeds, KernelFails, histVars
  <2>3. \E ok \in BOOLEAN : queue' = Append(queue, Completion(k.op, ok))
    BY <2>1 DEF KernelSucceeds, KernelFails
  <2> QED BY <1>3, <2>2, <2>3
<1> QED BY <1>1, <1>2, <1>4

\* In the constructor no object is live and none is held.
LEMMA InitHolder == Init => HolderInv
<1> SUFFICES ASSUME Init PROVE HolderInv
  OBVIOUS
<1>1. None \notin Ops /\ kernel = {} /\ DOMAIN queue = {} /\ DOMAIN pending = {}
  BY OpsAssumption DEF Init
<1>2. IsFiniteSet({}) /\ Cardinality({}) = 0
  BY FS_EmptySet
<1>3. ASSUME NEW o \in Ops
      PROVE  /\ {i \in DOMAIN queue : queue[i].op = o} = {}
             /\ {i \in DOMAIN pending : pending[i].op = o} = {}
             /\ {k \in kernel : k.op = o} = {}
             /\ {t \in Threads : cur[t] = o} = {}
             /\ fate[o] = "new"
  BY <1>1 DEF Init
<1>4. ASSUME NEW o \in Ops
      PROVE  InQueue(queue, o) = 0 /\ InPending(pending, o) = 0
             /\ InKernel(kernel, o) = 0 /\ WithThreads(cur, o) = 0 /\ Live(fate, o) = 0
  BY <1>2, <1>3 DEF InQueue, InPending, InKernel, WithThreads, Live
<1>5. SingleHolder
  BY <1>4, SingleHolderIsSum
<1> QED BY <1>1, <1>2, <1>5 DEF HolderInv

\* Together: HolderInv is inductive relative to TypeInv.
LEMMA NextHolder ==
  ASSUME TypeInv, HolderInv, TypeInv', [Next]_vars
  PROVE  HolderInv'
BY LoopHolder, CallbackHolder, CloseHolder, OutsideHolder DEF Next, Closed

\* IoCompletionPort: the objects in work are held once, by finitely many holders.
THEOREM HolderInvariant == Spec => []HolderInv
BY InitHolder, NextHolder, TypeInvariant, PTL DEF Spec

\* IoCompletionPort!SingleHolder: no object is completed twice, issued twice, or
\* reachable after its reference was released.
THEOREM HeldExactlyOnce == Spec => []SingleHolder
<1>1. HolderInv => SingleHolder
  BY DEF HolderInv
<1> QED BY <1>1, HolderInvariant, PTL
-----------------------------------------------------------------------------
(***************************************************************************)
(* How the pool comes to an end: what holds of the threads, the packets    *)
(* and the reads until close() is called, and until a worker has seen it.  *)
(***************************************************************************)
\* Every worker has ended, or was never started.
Ended == \A w \in Workers : pc[w] \in {"unborn", "exited"}

\* The workers start with the first job; the owner is done with its jobs exactly
\* when it has called close().
PointsInv ==
  /\ \A w \in Workers : pc[w] \notin MainPoints /\ (pc[w] = "unborn" <=> ~initialized)
  /\ pc[Main] \notin {"unborn", "exited"}
  /\ closes = 0 <=> pc[Main] = "open"

\* Nobody stops before close().
StopInv ==
  /\ terminated => closes > 0
  /\ \A t \in Threads : pc[t] \in {"terminate", "cancel"} => closes > 0
  /\ \A t \in Threads : pc[t] = "cancel" => terminated
  /\ \A p \in Range(queue) : IsTerminate(p) => closes > 0

\* The owner works on the queue, and asks for reads, only after the workers' end.
EndedInv ==
  /\ pc[Main] \notin {"open", "closing", "join"} \/ closes > 1 => Ended
  /\ \A p \in Range(pending) : p.by = Main => Ended /\ closes > 0
  /\ \A k \in kernel : k.by = Main => Ended /\ closes > 0

\* As long as CancelIo has not reached a read, reads fail by themselves only.
FaultInv ==
  closes = 0 \/ (~terminated /\ ~Ended) =>
    /\ \A p \in Range(queue) : IsCompletion(p) /\ ~p.ok => p.op \in Faulty
    /\ \A k \in kernel : k.cancelled => k.op \in Faulty

ControlInv == PointsInv /\ StopInv /\ EndedInv /\ FaultInv

\* The constructor.
LEMMA InitControl == Init => ControlInv
<1> SUFFICES ASSUME Init PROVE ControlInv
  OBVIOUS
<1>1. Range(queue) = {} /\ Range(pending) = {} /\ kernel = {}
  BY DEF Init, Range
<1>2. \A t \in Threads : pc[t] = IF t = Main THEN "open" ELSE "unborn"
  BY DEF Init
<1>3. Main \in Threads /\ \A w \in Workers : w \in Threads /\ pc[w] = "unborn"
  BY <1>2, ThreadsAssumption DEF Threads
<1>4. PointsInv
  BY <1>2, <1>3 DEF Init, PointsInv, MainPoints
<1>5. StopInv /\ EndedInv /\ FaultInv
  BY <1>1, <1>2, <1>3 DEF Init, StopInv, EndedInv, FaultInv
<1> QED BY <1>4, <1>5 DEF ControlInv

\* A thread of the loop moves: if it is a worker, the workers had not ended.
LEMMA EndedMoves ==
  ASSUME TypeInv, ControlInv, NEW t \in Threads, NEW x, pc' = [pc EXCEPT ![t] = x],
         pc[t] \notin {"unborn", "exited"}, x # "unborn"
  PROVE  /\ t = Main => (Ended' <=> Ended)
         /\ t # Main => ~Ended /\ t \in Workers
         /\ Ended => Ended'
         /\ \A w \in Workers : (pc'[w] = "unborn") <=> (pc[w] = "unborn")
BY ThreadsAssumption DEF Ended, TypeInv, TypeOK, Threads

\* The loop.
LEMMA LoopControl ==
  ASSUME TypeInv, ControlInv, TypeInv', NEW t \in Threads, NEW x,
         pc' = [pc EXCEPT ![t] = x],
         pc[t] \notin {"unborn", "exited"}, x \notin {"unborn", "open", "closing", "join"},
         t = Main => pc[t] \notin {"open", "closing", "join"} /\ x # "exited",
         t # Main => x # "closed",
         UNCHANGED <<initialized, closes>>,
         terminated => terminated',
         terminated' => terminated \/ pc[t] = "terminate",
         x = "terminate" => \E p \in Range(queue) : IsTerminate(p),
         x = "cancel" => pc[t] = "terminate" /\ terminated',
         \A p \in Range(queue') \ Range(queue) :
            ~IsTerminate(p) /\ (IsCompletion(p) => p.ok),
         \A p \in Range(pending') \ Range(pending) : p.by = t,
         \A k \in kernel' : \/ k \in kernel
                            \/ k.by = t /\ ~k.cancelled
                            \/ terminated /\ \E j \in kernel : k.by = j.by
  PROVE  ControlInv'
<1>0. /\ Main \in Threads /\ \A w \in Workers : w \in Threads /\ w # Main
      /\ pc \in [Threads -> WorkerPoints \cup MainPoints] /\ closes \in Nat
  BY ThreadsAssumption DEF Threads, TypeInv, TypeOK
<1>e. /\ t = Main => (Ended' <=> Ended)
      /\ t # Main => ~Ended /\ t \in Workers
      /\ Ended => Ended'
      /\ \A w \in Workers : (pc'[w] = "unborn") <=> (pc[w] = "unborn")
  BY EndedMoves
<1>1. PointsInv'
  <2>1. \A w \in Workers : pc'[w] \notin MainPoints /\ (pc'[w] = "unborn" <=> ~initialized')
    BY <1>0, <1>e DEF ControlInv, PointsInv, MainPoints
  <2>2. pc'[Main] \notin {"unborn", "exited"} /\ (closes' = 0 <=> pc'[Main] = "open")
    BY <1>0 DEF ControlInv, PointsInv
  <2> QED BY <2>1, <2>2 DEF PointsInv
<1>2. StopInv'
  <2>1. terminated' => closes' > 0
    BY DEF ControlInv, StopInv
  <2>2. ASSUME NEW d \in Threads, pc'[d] \in {"terminate", "cancel"}
        PROVE  closes' > 0 /\ (pc'[d] = "cancel" => terminated')
    BY <1>0, <2>2 DEF ControlInv, StopInv
  <2>3. \A p \in Range(queue') : IsTerminate(p) => closes' > 0
    BY DEF ControlInv, StopInv
  <2> QED BY <2>1, <2>2, <2>3 DEF StopInv
<1>3. EndedInv'
  <2>1. pc'[Main] \notin {"open", "closing", "join"} \/ closes' > 1 => Ended'
    BY <1>0, <1>e DEF ControlInv, EndedInv
  <2>2. t = Main => Ended' /\ closes' > 0
    BY <1>0, <1>e DEF ControlInv, EndedInv, PointsInv
  <2>3. \A p \in Range(pending') : p.by = Main => Ended' /\ closes' > 0
    BY <1>e, <2>2 DEF ControlInv, EndedInv
  <2>4. \A k \in kernel' : k.by = Main => Ended' /\ closes' > 0
    BY <1>e, <2>2 DEF ControlInv, EndedInv
  <2> QED BY <2>1, <2>3, <2>4 DEF EndedInv
<1>4. FaultInv'
  <2> SUFFICES ASSUME closes' = 0 \/ (~terminated' /\ ~Ended')
               PROVE  /\ \A p \in Range(queue') : IsCompletion(p) /\ ~p.ok => p.op \in Faulty
                      /\ \A k \in kernel' : k.cancelled => k.op \in Faulty
    BY DEF FaultInv
  <2>1. (closes = 0 \/ (~terminated /\ ~Ended)) /\ ~terminated
    BY <1>e DEF ControlInv, StopInv
  <2>2. /\ \A p \in Range(queue) : IsCompletion(p) /\ ~p.ok => p.op \in Faulty
        /\ \A k \in kernel : k.cancelled => k.op \in Faulty
    BY <2>1 DEF ControlInv, FaultInv
  <2> QED BY <2>1, <2>2
<1> QED BY <1>1, <1>2, <1>3, <1>4 DEF ControlInv

\* Where a thread of the loop can come from and go to.
LoopPoints == {"wait", "callback", "signal", "select", "enqueue", "post", "terminate", "cancel"}

LEMMA LoopSteps ==
  ASSUME TypeInv, ControlInv, TypeInv', NEW t \in Threads, Loop(t) \/ Callback(t)
  PROVE  ControlInv'
<1> USE DEF At, Goto
<1>0. /\ queue \in Seq(Packets) /\ pending \in Seq(Tasks) /\ terminated \in BOOLEAN
      /\ LoopEnd(t) \in {"closed", "exited"}
      /\ LoopEnd(t) = "closed" <=> t = Main
  BY DEF TypeInv, TypeOK, LoopEnd
<1>1. ASSUME NEW x \in LoopPoints \cup {LoopEnd(t)}, pc' = [pc EXCEPT ![t] = x],
             pc[t] \in LoopPoints,
             UNCHANGED <<initialized, closes>>,
             terminated => terminated',
             terminated' => terminated \/ pc[t] = "terminate",
             x = "terminate" => \E p \in Range(queue) : IsTerminate(p),
             x = "cancel" => pc[t] = "terminate" /\ terminated',
             \A p \in Range(queue') \ Range(queue) :
                ~IsTerminate(p) /\ (IsCompletion(p) => p.ok),
             \A p \in Range(pending') \ Range(pending) : p.by = t,
             \A k \in kernel' : \/ k \in kernel
                                \/ k.by = t /\ ~k.cancelled
                                \/ terminated /\ \E j \in kernel : k.by = j.by
      PROVE  ControlInv'
  <2>1. /\ pc[t] \notin {"unborn", "exited"} /\ x \notin {"unborn", "open", "closing", "join"}
        /\ t = Main => pc[t] \notin {"open", "closing", "join"} /\ x # "exited"
        /\ t # Main => x # "closed"
    BY <1>0, <1>1 DEF LoopPoints
  <2> QED BY <1>1, <2>1, LoopControl
<1>2. CASE TakeCompletion(t) \/ TakeFailure(t) \/ TakeSignal(t) \/ TakeTerminate(t)
  <2>1. queue # <<>> /\ queue' = Tail(queue) /\ pc[t] = "wait"
        /\ UNCHANGED <<initialized, closes, terminated, pending, kernel>>
    BY <1>2 DEF TakeCompletion, TakeFailure, TakeSignal, TakeTerminate, mainVars
  <2>2. Range(queue') \subseteq Range(queue) /\ Head(queue) \in Range(queue)
    BY <1>0, <2>1, RangeTail
  <2>3. \E x \in {"callback", "select", "terminate", LoopEnd(t)} :
          /\ pc' = [pc EXCEPT ![t] = x]
          /\ x = "terminate" => IsTerminate(Head(queue))
    BY <1>0, <1>2 DEF TakeCompletion, TakeFailure, TakeSignal, TakeTerminate
  <2>4. PICK x \in {"callback", "select", "terminate", LoopEnd(t)} :
          /\ pc' = [pc EXCEPT ![t] = x]
          /\ x = "terminate" => IsTerminate(Head(queue))
    BY <2>3
  <2>5. x # "cancel" /\ x \in LoopPoints \cup {LoopEnd(t)} /\ pc[t] \in LoopPoints
    BY <1>0, <2>1 DEF LoopPoints
  <2>6. x = "terminate" => \E p \in Range(queue) : IsTerminate(p)
    BY <2>2, <2>4
  <2> QED BY <1>1, <2>1, <2>2, <2>4, <2>5, <2>6
<1>3. CASE PostSignal(t) \/ PostCompletion(t)
  <2>1. PICK p \in Packets : /\ ~IsTerminate(p) /\ (IsCompletion(p) => p.ok)
                             /\ queue' = queue \/ queue' = Append(queue, p)
    <3>1. CASE PostSignal(t)
      <4>1. ~IsTerminate(Signal) /\ Signal.ok /\ Signal \in Packets
        BY PacketTypes DEF IsTerminate, Signal
      <4> QED BY <3>1, <4>1 DEF PostSignal
    <3>2. CASE PostCompletion(t)
      <4>1. cur[t] \in Ops /\ None \notin Ops
        BY <3>2, OpsAssumption DEF PostCompletion, TypeInv, CurOK, Owning
      <4>2. /\ ~IsTerminate(Completion(cur[t], TRUE)) /\ Completion(cur[t], TRUE).ok
            /\ Completion(cur[t], TRUE) \in Packets
        BY <4>1, PacketTypes DEF IsTerminate, Completion
      <4> QED BY <3>2, <4>2 DEF PostCompletion
    <3> QED BY <1>3, <3>1, <3>2
  <2>2. Range(queue') \subseteq Range(queue) \cup {p}
    BY <1>0, <2>1, RangeAppend
  <2>3. PICK x \in {"callback", "wait", LoopEnd(t)} : pc' = [pc EXCEPT ![t] = x]
    BY <1>3 DEF PostSignal, PostCompletion
  <2>4. pc[t] \in {"signal", "post"}
        /\ UNCHANGED <<initialized, closes, terminated, pending, kernel>>
    BY <1>3 DEF PostSignal, PostCompletion, mainVars
  <2>5. x \notin {"cancel", "terminate"} /\ x \in LoopPoints \cup {LoopEnd(t)}
        /\ pc[t] \in LoopPoints
    BY <1>0, <2>4 DEF LoopPoints
  <2> QED BY <1>1, <2>1, <2>2, <2>3, <2>4, <2>5
<1>4. CASE SelectTask(t)
  <2>1. pc[t] = "select" /\ UNCHANGED <<initialized, closes, terminated, queue, kernel>>
    BY <1>4 DEF SelectTask, mainVars
  <2>2. PICK x \in {"wait", "enqueue"} : pc' = [pc EXCEPT ![t] = x]
    BY <1>4 DEF SelectTask
  <2>3. Range(pending') \subseteq Range(pending)
    <3>1. CASE pending = <<>>
      BY <1>4, <3>1 DEF SelectTask
    <3>2. CASE pending # <<>>
      <4> DEFINE n == Found([i \in 1 .. Len(pending) |->
                                priority[FileOf[pending[i].op]]], scan) + 1
      <4>1. n \in 1 .. Len(pending)
        BY <1>0, <3>2, SelectFinds DEF TypeInv
      <4>2. pending' = RemoveAt(pending, n)
        BY <1>4, <3>2 DEF SelectTask
      <4> HIDE DEF n
      <4> QED BY <1>0, <4>1, <4>2, RangeRemoveAt
    <3> QED BY <3>1, <3>2
  <2>4. x \notin {"cancel", "terminate"} /\ x \in LoopPoints \cup {LoopEnd(t)}
        /\ pc[t] \in LoopPoints
    BY <2>1 DEF LoopPoints
  <2> QED BY <1>1, <2>1, <2>2, <2>3, <2>4
<1>5. CASE EnqueueCompleted(t) \/ EnqueueIssued(t) \/ EnqueueFailed(t) \/ EnqueueRefused(t)
  <2>1. pc[t] = "enqueue" /\ UNCHANGED <<initialized, closes, terminated, queue, pending>>
    BY <1>5 DEF EnqueueCompleted, EnqueueIssued, EnqueueFailed, EnqueueRefused,
                portVars, mainVars
  <2>2. PICK x \in {"wait", "post", LoopEnd(t)} : pc' = [pc EXCEPT ![t] = x]
    BY <1>5 DEF EnqueueCompleted, EnqueueIssued, EnqueueFailed, EnqueueRefused
  <2>3. \A k \in kernel' : k \in kernel \/ (k.by = t /\ ~k.cancelled)
    BY <1>5 DEF EnqueueCompleted, EnqueueIssued, EnqueueFailed, EnqueueRefused
  <2>4. x \notin {"cancel", "terminate"} /\ x \in LoopPoints \cup {LoopEnd(t)}
        /\ pc[t] \in LoopPoints
    BY <1>0, <2>1 DEF LoopPoints
  <2> QED BY <1>1, <2>1, <2>2, <2>3, <2>4
<1>6. CASE SetTerminated(t)
  <2>1. /\ pc[t] = "terminate" /\ terminated' = TRUE /\ pc' = [pc EXCEPT ![t] = "cancel"]
        /\ UNCHANGED <<initialized, closes, queue, pending, kernel>>
    BY <1>6 DEF SetTerminated, mainVars
  <2>2. "cancel" \in LoopPoints /\ pc[t] \in LoopPoints
    BY <2>1 DEF LoopPoints
  <2> QED BY <1>1, <2>1, <2>2
<1>7. CASE EndOnTerminate(t)
  <2>1. /\ pc[t] = "cancel" /\ pc' = [pc EXCEPT ![t] = LoopEnd(t)]
        /\ UNCHANGED <<initialized, closes, terminated, queue, pending>>
    BY <1>7 DEF EndOnTerminate, portVars, mainVars
  <2>2. terminated
    BY <2>1 DEF ControlInv, StopInv
  <2>3. \A k \in kernel' : \E j \in kernel : k.by = j.by
    BY <1>7 DEF EndOnTerminate, CancelThreadIos, TypeInv, TypeOK, InFlight
  <2>4. pc[t] \in LoopPoints /\ LoopEnd(t) \notin {"cancel", "terminate"}
    BY <1>0, <2>1 DEF LoopPoints
  <2> QED BY <1>1, <2>1, <2>2, <2>3, <2>4
<1>8. CASE Callback(t)
  <2>1. pc[t] = "callback" /\ UNCHANGED <<initialized, closes, terminated, queue, kernel>>
    BY <1>8 DEF Callback, PushTask, Return, portVars, mainVars
  <2>2. PICK x \in {"signal", "wait", "post"} : pc' = [pc EXCEPT ![t] = x]
    BY <1>8 DEF Callback, PushTask, Return
  <2>3. \A p \in Range(pending') \ Range(pending) : p.by = t
    <3>1. CASE pending' = pending
      BY <3>1
    <3>2. ASSUME NEW r \in Reads, pending' = Append(pending, [op |-> r, by |-> t])
          PROVE  \A p \in Range(pending') \ Range(pending) : p.by = t
      <4>1. [op |-> r, by |-> t] \in Tasks
        BY DEF Tasks
      <4>2. Range(pending') = Range(pending) \cup {[op |-> r, by |-> t]}
        BY <1>0, <3>2, <4>1, RangeAppend
      <4> QED BY <4>2
    <3> QED BY <1>8, <3>1, <3>2 DEF Callback, PushTask, Return, portVars
  <2>4. x \notin {"cancel", "terminate"} /\ x \in LoopPoints \cup {LoopEnd(t)}
        /\ pc[t] \in LoopPoints
    BY <2>1 DEF LoopPoints
  <2> QED BY <1>1, <2>1, <2>2, <2>3, <2>4
<1> QED BY <1>2, <1>3, <1>4, <1>5, <1>6, <1>7, <1>8 DEF Loop

\* close() and the owner.
LEMMA CloseControl ==
  ASSUME TypeInv, ControlInv, TypeInv', Close
  PROVE  ControlInv'
<1> USE DEF At, Goto
<1>0. /\ Main \in Threads /\ \A w \in Workers : w \in Threads /\ w # Main
      /\ pc \in [Threads -> WorkerPoints \cup MainPoints] /\ closes \in Nat
      /\ queue \in Seq(Packets)
  BY ThreadsAssumption DEF Threads, TypeInv, TypeOK
<1>1. /\ \A w \in Workers : pc'[w] = pc[w]
      /\ UNCHANGED <<initialized, terminated, pending>> /\ Ended' = Ended
  <2>1. UNCHANGED <<initialized, terminated, pending>> /\ \A w \in Workers : pc'[w] = pc[w]
    BY <1>0 DEF Close, BeginClose, PostTerminate, CloseCancel, Join, DrainTimeout, portVars
  <2> QED BY <2>1 DEF Ended
<1>2. /\ pc'[Main] \in {"closing", "join", "wait", "closed"} /\ closes' \in {closes, closes + 1}
      /\ closes' > 0
      /\ pc'[Main] \in {"wait", "closed"} => Ended
      /\ closes' > 1 => Ended
  <2>1. CASE BeginClose
    BY <1>0, <2>1 DEF BeginClose, ControlInv, PointsInv, EndedInv
  <2>2. CASE PostTerminate \/ CloseCancel
    BY <1>0, <2>2 DEF PostTerminate, CloseCancel, mainVars, ControlInv, PointsInv, EndedInv
  <2>3. CASE Join
    BY <1>0, <2>3 DEF Join, mainVars, ControlInv, PointsInv, EndedInv, Ended
  <2>4. CASE DrainTimeout
    BY <1>0, <2>4 DEF DrainTimeout, mainVars, ControlInv, PointsInv, EndedInv
  <2> QED BY <2>1, <2>2, <2>3, <2>4 DEF Close
<1>3. \A p \in Range(queue') : p \in Range(queue) \/ p = Terminate
  <2>1. Range(Append(queue, Terminate)) = Range(queue) \cup {Terminate}
    BY <1>0, PacketTypes, RangeAppend
  <2> QED BY <2>1 DEF Close, BeginClose, PostTerminate, CloseCancel, Join, DrainTimeout, portVars
<1>4. ASSUME NEW k \in kernel'
      PROVE  k \in kernel \/ \E j \in kernel : k.by = j.by /\ k.op = j.op
                                               /\ (k.cancelled => j.cancelled \/ j.by = Main)
  <2>1. CASE CloseCancel
    BY <2>1 DEF CloseCancel, CancelThreadIos, TypeInv, TypeOK, InFlight
  <2>2. CASE ~CloseCancel
    BY <2>2 DEF Close, BeginClose, PostTerminate, Join, DrainTimeout
  <2> QED BY <2>1, <2>2
<1>5. PointsInv'
  BY <1>0, <1>1, <1>2 DEF PointsInv, ControlInv
<1>6. StopInv'
  <2>1. \A t \in Threads : t # Main => pc'[t] = pc[t]
    BY <1>1 DEF Threads
  <2>2. pc'[Main] \notin {"terminate", "cancel"}
    BY <1>2
  <2> QED BY <1>1, <1>2, <2>1, <2>2 DEF StopInv, ControlInv
<1>7. EndedInv'
  BY <1>1, <1>2, <1>4 DEF EndedInv, ControlInv
<1>8. FaultInv'
  <2> SUFFICES ASSUME ~terminated, ~Ended
               PROVE  /\ \A p \in Range(queue') : IsCompletion(p) /\ ~p.ok => p.op \in Faulty
                      /\ \A k \in kernel' : k.cancelled => k.op \in Faulty
    BY <1>1, <1>2 DEF FaultInv
  <2>1. /\ \A p \in Range(queue) : IsCompletion(p) /\ ~p.ok => p.op \in Faulty
        /\ \A k \in kernel : k.cancelled => k.op \in Faulty
        /\ \A k \in kernel : k.by # Main
    BY DEF FaultInv, EndedInv, ControlInv
  <2>2. Terminate.op = None
    BY DEF Terminate
  <2> QED BY <1>3, <1>4, <2>1, <2>2 DEF IsCompletion
<1> QED BY <1>5, <1>6, <1>7, <1>8 DEF ControlInv

\* The owner's jobs and the operating system.
LEMMA OutsideControl ==
  ASSUME TypeInv, ControlInv, TypeInv',
         \/ \E j \in Jobs : PostJob(j)
         \/ \E f \in Files, p \in Priorities : SetPriority(f, p)
         \/ Kernel
         \/ UNCHANGED vars
  PROVE  ControlInv'
<1> USE DEF At
<1>0. /\ Main \in Threads /\ \A w \in Workers : w \in Threads /\ w # Main
      /\ pc \in [Threads -> WorkerPoints \cup MainPoints] /\ queue \in Seq(Packets)
      /\ None \notin Ops
  BY ThreadsAssumption, OpsAssumption DEF Threads, TypeInv, TypeOK
<1>1. CASE \E j \in Jobs : PostJob(j)
  <2>1. PICK j \in Jobs : PostJob(j)
    BY <1>1
  <2>2. /\ pc[Main] = "open" /\ initialized' = TRUE
        /\ pc' = [t \in Threads |-> IF pc[t] = "unborn" THEN "wait" ELSE pc[t]]
        /\ UNCHANGED <<terminated, pending, kernel, closes>>
    BY <2>1 DEF PostJob, mainVars
  <2>3. Range(queue') = Range(queue) \cup {Completion(j, TRUE)}
    <3> DEFINE p == Completion(j, TRUE)
    <3>1. p \in Packets /\ queue' = Append(queue, p)
      BY <2>1, PacketTypes DEF PostJob, Ops
    <3> HIDE DEF p
    <3>2. Range(queue') = Range(queue) \cup {p}
      BY <1>0, <3>1, RangeAppend
    <3> QED BY <3>2 DEF p
  <2>4. ~IsTerminate(Completion(j, TRUE)) /\ Completion(j, TRUE).ok
    BY <1>0 DEF IsTerminate, Completion, Ops
  <2>5. closes = 0 /\ ~terminated
    BY <2>2 DEF ControlInv, PointsInv, StopInv
  <2>6. PointsInv'
    BY <1>0, <2>2 DEF ControlInv, PointsInv, MainPoints
  <2>7. StopInv'
    BY <2>2, <2>3, <2>4 DEF ControlInv, StopInv
  <2>8. EndedInv'
    <3>1. /\ \A p \in Range(pending) : p.by # Main
          /\ \A k \in kernel : k.by # Main
      BY <2>5 DEF ControlInv, EndedInv
    <3> QED BY <1>0, <2>2, <2>5, <3>1 DEF EndedInv
  <2>9. FaultInv'
    BY <2>2, <2>3, <2>4, <2>5 DEF ControlInv, FaultInv
  <2> QED BY <2>6, <2>7, <2>8, <2>9 DEF ControlInv
<1>2. CASE (\E f \in Files, p \in Priorities : SetPriority(f, p)) \/ UNCHANGED vars
  <2>1. UNCHANGED <<initialized, terminated, queue, pending, kernel, pc, closes>>
    BY <1>2 DEF SetPriority, vars, portVars, mainVars
  <2> QED BY <2>1 DEF ControlInv, PointsInv, StopInv, EndedInv, FaultInv, Ended
<1>3. CASE Kernel
  <2>1. PICK k \in kernel, ok \in BOOLEAN :
          /\ queue' = Append(queue, Completion(k.op, ok)) /\ kernel' = kernel \ {k}
          /\ ~ok => k.cancelled \/ k.op \in Faulty
          /\ UNCHANGED <<initialized, terminated, pending, pc, closes>>
    BY <1>3 DEF Kernel, KernelSucceeds, KernelFails, mainVars
  <2>2. k.op \in Ops
    BY DEF TypeInv, TypeOK, InFlight, Ops
  <2>3. Range(queue') = Range(queue) \cup {Completion(k.op, ok)}
    <3>1. Completion(k.op, ok) \in Packets
      BY <2>2, PacketTypes
    <3> QED BY <1>0, <2>1, <3>1, RangeAppend
  <2>4. ~IsTerminate(Completion(k.op, ok)) /\ Completion(k.op, ok).ok = ok
        /\ Completion(k.op, ok).op = k.op
    BY <1>0, <2>2 DEF IsTerminate, Completion
  <2>5. FaultInv'
    BY <2>1, <2>3, <2>4 DEF ControlInv, FaultInv, Ended
  <2>6. PointsInv' /\ StopInv' /\ EndedInv'
    BY <2>1, <2>3, <2>4 DEF ControlInv, PointsInv, StopInv, EndedInv, Ended
  <2> QED BY <2>5, <2>6 DEF ControlInv
<1> QED BY <1>1, <1>2, <1>3

\* Together: ControlInv is inductive relative to TypeInv.
LEMMA NextControl ==
  ASSUME TypeInv, ControlInv, TypeInv', [Next]_vars
  PROVE  ControlInv'
BY LoopSteps, CloseControl, OutsideControl DEF Next, Closed

\* IoCompletionPort: nothing stops before close(), and reads fail by themselves
\* until CancelIo has reached them.
THEOREM ControlInvariant == Spec => []ControlInv
BY InitControl, NextControl, TypeInvariant, PTL DEF Spec
-----------------------------------------------------------------------------
(***************************************************************************)
(* What becomes of the objects, step by step, and the service it makes.    *)
(***************************************************************************)
\* One object is submitted, served, or given up for a reason; or close() begins.
FateStep ==
  \/ fate' = fate /\ closes' \in {closes, closes + 1}
  \/ /\ closes' = closes
     /\ \E x \in Ops, f \in Fates :
          /\ fate' = [fate EXCEPT ![x] = f]
          /\ \/ fate[x] = "new" /\ f = "live"
             \/ fate[x] = "live" /\ f \in {"done", "kept"}
             \/ fate[x] = "live" /\ f \in {"dropped", "leaked"} /\ (closes > 0 \/ x \in Faulty)

\* A thread that settles its object settles a live one.
LEMMA SettleIsFateStep ==
  ASSUME TypeInv, HolderInv, NEW t \in Threads, cur[t] \in Ops, closes' = closes,
         NEW f \in {"done", "kept", "dropped", "leaked"}, Settle(t, f),
         f \in {"dropped", "leaked"} => closes > 0 \/ cur[t] \in Faulty
  PROVE  FateStep
<1>1. fate[cur[t]] = "live"
  BY HeldOnce
<1>2. f \in Fates /\ fate' = [fate EXCEPT ![cur[t]] = f]
  BY DEF Settle, Fates
<1> QED BY <1>1, <1>2 DEF FateStep

\* A failed read is at the head of the queue: it is live, and it failed by itself
\* or close() has begun.
LEMMA HeadFails ==
  ASSUME TypeInv, HolderInv, ControlInv, queue # <<>>,
         IsCompletion(Head(queue)), ~Head(queue).ok
  PROVE  /\ Head(queue).op \in Ops /\ fate[Head(queue).op] = "live"
         /\ closes = 0 \/ (~terminated /\ ~Ended) => Head(queue).op \in Faulty
<1>1. queue \in Seq(Packets)
  BY DEF TypeInv, TypeOK
<1>2. Head(queue).op \in Ops
  BY HeadCompletes
<1>3. 1 \in DOMAIN queue /\ Head(queue) = queue[1]
  BY <1>1
<1>4. fate[Head(queue).op] = "live"
  BY <1>2, <1>3, HeldOnce
<1>5. Head(queue) \in Range(queue)
  BY <1>1, RangeTail
<1> QED BY <1>2, <1>4, <1>5 DEF ControlInv, FaultInv

\* Every step of the port is such a step.
LEMMA EveryFateStep ==
  ASSUME TypeInv, HolderInv, ControlInv, [Next]_vars
  PROVE  FateStep
<1> USE DEF At, Goto
<1>0. closes \in Nat /\ (terminated => closes > 0)
  BY DEF TypeInv, TypeOK, ControlInv, StopInv
<1>1. ASSUME NEW t \in Threads, Loop(t) PROVE FateStep
  <2>1. closes' = closes
    BY <1>1 DEF Loop, TakeCompletion, TakeFailure, TakeSignal, TakeTerminate, PostSignal,
                SelectTask, PostCompletion, EnqueueCompleted, EnqueueIssued, EnqueueFailed,
                EnqueueRefused, SetTerminated, EndOnTerminate, mainVars
  <2>2. CASE TakeFailure(t)
    <3>1. /\ queue # <<>> /\ IsCompletion(Head(queue)) /\ ~Head(queue).ok
          /\ fate' = [fate EXCEPT ![Head(queue).op] = "leaked"]
      BY <2>2 DEF TakeFailure
    <3>2. /\ Head(queue).op \in Ops /\ fate[Head(queue).op] = "live"
          /\ closes = 0 => Head(queue).op \in Faulty
      BY <3>1, HeadFails
    <3>3. "leaked" \in Fates
      BY DEF Fates
    <3>4. closes > 0 \/ Head(queue).op \in Faulty
      BY <1>0, <3>2
    <3>5. PICK x \in Ops : x = Head(queue).op
      BY <3>2
    <3>6. fate' = [fate EXCEPT ![x] = "leaked"] /\ fate[x] = "live" /\ (closes > 0 \/ x \in Faulty)
      BY <3>1, <3>2, <3>4, <3>5
    <3> QED BY <2>1, <3>3, <3>6 DEF FateStep
  <2>3. CASE PostSignal(t) \/ PostCompletion(t)
    <3>1. cur[t] \in Ops
      BY <2>3 DEF PostSignal, PostCompletion, TypeInv, CurOK, Owning
    <3>2. CASE fate' = fate
      BY <2>1, <3>2 DEF FateStep
    <3>3. CASE terminated /\ \E f \in {"done", "dropped"} : Settle(t, f)
      BY <1>0, <2>1, <3>1, <3>3, SettleIsFateStep
    <3>4. fate' = fate \/ (terminated /\ \E f \in {"done", "dropped"} : Settle(t, f))
      <4>1. CASE PostSignal(t)
        BY <4>1 DEF PostSignal, Refused
      <4>2. CASE PostCompletion(t)
        BY <4>2 DEF PostCompletion, Refused
      <4> QED BY <2>3, <4>1, <4>2
    <3> QED BY <3>2, <3>3, <3>4
  <2>4. CASE EnqueueFailed(t) \/ EnqueueRefused(t)
    <3>1. cur[t] \in Ops
      BY <2>4 DEF EnqueueFailed, EnqueueRefused, TypeInv, CurOK, Owning
    <3>2. Settle(t, "dropped") /\ (cur[t] \in Faulty \/ terminated)
      BY <2>4 DEF EnqueueFailed, EnqueueRefused
    <3> QED BY <1>0, <2>1, <3>1, <3>2, SettleIsFateStep
  <2>5. CASE ~TakeFailure(t) /\ ~PostSignal(t) /\ ~PostCompletion(t)
             /\ ~EnqueueFailed(t) /\ ~EnqueueRefused(t)
    <3>1. fate' = fate
      BY <1>1, <2>5 DEF Loop, TakeCompletion, TakeSignal, TakeTerminate, SelectTask,
                        EnqueueCompleted, EnqueueIssued, SetTerminated, EndOnTerminate, histVars
    <3> QED BY <2>1, <3>1 DEF FateStep
  <2> QED BY <2>2, <2>3, <2>4, <2>5
<1>2. ASSUME NEW t \in Threads, NEW r \in Reads, PushTask(t, r) PROVE FateStep
  <2>1. /\ r \in Ops /\ "live" \in Fates /\ closes' = closes /\ fate[r] = "new"
        /\ fate' = [fate EXCEPT ![r] = "live"]
    BY <1>2 DEF PushTask, mainVars, Ops, Fates
  <2> QED BY <2>1 DEF FateStep
<1>3. ASSUME NEW t \in Threads, NEW r \in {-1, 0, 1}, Return(t, r) PROVE FateStep
  <2>1. cur[t] \in Ops /\ closes' = closes
    BY <1>3 DEF Return, mainVars, TypeInv, CurOK, Owning
  <2>2. CASE UNCHANGED fate
    BY <2>1, <2>2 DEF FateStep
  <2>3. CASE \E f \in {"done", "kept"} : Settle(t, f)
    BY <2>1, <2>3, SettleIsFateStep
  <2> QED BY <1>3, <2>2, <2>3 DEF Return
<1>4. ASSUME NEW j \in Jobs, PostJob(j) PROVE FateStep
  <2>1. /\ j \in Ops /\ "live" \in Fates /\ closes' = closes /\ fate[j] = "new"
        /\ fate' = [fate EXCEPT ![j] = "live"]
    BY <1>4 DEF PostJob, mainVars, Ops, Fates
  <2> QED BY <2>1 DEF FateStep
<1>5. CASE \/ \E f \in Files, p \in Priorities : SetPriority(f, p)
           \/ Close \/ Kernel \/ Closed \/ UNCHANGED vars
  BY <1>5 DEF SetPriority, Close, BeginClose, PostTerminate, CloseCancel, Join, DrainTimeout,
              Kernel, KernelSucceeds, KernelFails, Closed, vars, mainVars, histVars, FateStep
<1> QED BY <1>1, <1>2, <1>3, <1>4, <1>5 DEF Next, Callback

\* Of the objects, seen by AsyncReadService: what is settled stays settled, each
\* object is submitted and settled once, and nothing is given up before close()
\* but what fails by itself.
THEOREM FatesFollowTheService == Spec => [][FateStep]_vars
<1>1. TypeInv /\ HolderInv /\ ControlInv /\ [Next]_vars => [FateStep]_vars
  BY EveryFateStep
<1> QED BY <1>1, TypeInvariant, HolderInvariant, ControlInvariant, PTL DEF Spec

\* The safety of IoCompletionPort!ImplementsService, the refinement of
\* AsyncReadService: the port starts as the service does, and each of its steps
\* is a step of the service or leaves it alone.
THEOREM ImplementsServiceSafely == Spec => Service!Spec
<1> DEFINE Status(g) ==
             [o \in Ops |-> CASE g[o] = "new" -> "idle"
                              [] g[o] = "live" -> "submitted"
                              [] g[o] \in {"done", "kept"} -> "served"
                              [] OTHER -> "abandoned"]
<1>1. Init => Service!Init
  <2> SUFFICES ASSUME Init PROVE Service!Init
    OBVIOUS
  <2>1. closes = 0 /\ \A o \in Ops : fate[o] = "new"
    BY DEF Init
  <2> QED BY <2>1 DEF Service!Init
<1>2. TypeInv /\ FateStep => [Service!Next]_(Service!vars)
  <2> SUFFICES ASSUME TypeInv, FateStep PROVE [Service!Next]_(Service!vars)
    OBVIOUS
  <2>1. fate \in [Ops -> Fates] /\ closes \in Nat
    BY DEF TypeInv, TypeOK
  <2>2. CASE fate' = fate /\ closes' \in {closes, closes + 1}
    BY <2>1, <2>2 DEF Service!Next, Service!BeginClosing, Service!vars
  <2>3. ASSUME closes' = closes, NEW x \in Ops, NEW f \in Fates,
               fate' = [fate EXCEPT ![x] = f],
               \/ fate[x] = "new" /\ f = "live"
               \/ fate[x] = "live" /\ f \in {"done", "kept"}
               \/ fate[x] = "live" /\ f \in {"dropped", "leaked"}
                    /\ (closes > 0 \/ x \in Faulty)
        PROVE  Service!Next
    <3>1. \A o \in Ops : fate'[o] = IF o = x THEN f ELSE fate[o]
      BY <2>1, <2>3
    <3>2. /\ Status(fate') = [Status(fate) EXCEPT ![x] = Status(fate')[x]]
          /\ Status(fate)[x] = CASE fate[x] = "new" -> "idle"
                                 [] fate[x] = "live" -> "submitted"
                                 [] fate[x] \in {"done", "kept"} -> "served"
                                 [] OTHER -> "abandoned"
          /\ Status(fate')[x] = CASE f = "new" -> "idle"
                                  [] f = "live" -> "submitted"
                                  [] f \in {"done", "kept"} -> "served"
                                  [] OTHER -> "abandoned"
      BY <3>1
    <3> QED BY <2>3, <3>2 DEF Service!Next, Service!Submit, Service!Serve, Service!Abandon,
                              Service!Step
  <2> QED BY <2>2, <2>3 DEF FateStep
<1>3. TypeInv /\ HolderInv /\ ControlInv /\ [Next]_vars => [Service!Next]_(Service!vars)
  BY <1>2, EveryFateStep
<1> QED BY <1>1, <1>3, TypeInvariant, HolderInvariant, ControlInvariant, PTL
        DEF Spec, Service!Spec
-----------------------------------------------------------------------------
(***************************************************************************)
(* PoolAlive: a worker that leaves the loop before a worker has set        *)
(* _terminated has lost a read that fails by itself.                       *)
(***************************************************************************)
Gone == {w \in Workers : pc[w] = "exited"}
Lost == {r \in Faulty : fate[r] \in {"leaked", "dropped"}}

LossInv ==
  /\ IsFiniteSet(Lost)
  /\ ~terminated => Cardinality(Gone) =< Cardinality(Lost)

\* There are finitely many workers.
LEMMA GoneFinite == IsFiniteSet(Gone) /\ Cardinality(Gone) \in Nat
BY ThreadsAssumption, FS_Subset, FS_CardinalityType DEF Gone

\* What is lost stays lost.
LEMMA LostStays ==
  ASSUME TypeInv, LossInv, FateStep
  PROVE  /\ IsFiniteSet(Lost') /\ Cardinality(Lost) =< Cardinality(Lost')
         /\ Cardinality(Lost) \in Nat /\ Cardinality(Lost') \in Nat
<1>1. fate \in [Ops -> Fates] /\ Faulty \subseteq Ops
  BY OpsAssumption DEF TypeInv, TypeOK, Ops
<1>2. Lost' = Lost \/ \E x \in Ops : x \notin Lost /\ Lost' = Lost \cup {x}
  <2>1. CASE fate' = fate
    BY <2>1 DEF Lost
  <2>2. ASSUME NEW x \in Ops, NEW f \in Fates, fate' = [fate EXCEPT ![x] = f],
               fate[x] \in {"new", "live"}
        PROVE  Lost' = Lost \/ (x \notin Lost /\ Lost' = Lost \cup {x})
    <3>1. \A r \in Faulty : fate'[r] = IF r = x THEN f ELSE fate[r]
      BY <1>1, <2>2
    <3> QED BY <2>2, <3>1 DEF Lost
  <2> QED BY <2>1, <2>2 DEF FateStep
<1>3. ASSUME NEW A, IsFiniteSet(A), NEW B, B = A \/ \E x : x \notin A /\ B = A \cup {x}
      PROVE  /\ IsFiniteSet(B) /\ Cardinality(A) =< Cardinality(B)
             /\ Cardinality(A) \in Nat /\ Cardinality(B) \in Nat
  <2>1. Cardinality(A) \in Nat
    BY <1>3, FS_CardinalityType
  <2> QED BY <1>3, <2>1, FS_AddElement
<1>4. IsFiniteSet(Lost)
  BY DEF LossInv
<1> QED BY <1>2, <1>3, <1>4

\* A step in which no worker leaves.
LEMMA LossStays ==
  ASSUME TypeInv, LossInv, FateStep, terminated => terminated', terminated' \/ Gone' \subseteq Gone
  PROVE  LossInv'
<1>1. /\ IsFiniteSet(Lost') /\ Cardinality(Lost) =< Cardinality(Lost')
      /\ Cardinality(Lost) \in Nat /\ Cardinality(Lost') \in Nat
  BY LostStays
<1>2. ~terminated' => Cardinality(Gone') =< Cardinality(Gone) /\ Cardinality(Gone') \in Nat
  BY GoneFinite, FS_Subset, FS_CardinalityType
<1> QED BY <1>1, <1>2, GoneFinite DEF LossInv

\* A step in which a worker leaves with a read that fails by itself.
LEMMA LossGrows ==
  ASSUME TypeInv, LossInv, NEW x \in Faulty, fate[x] = "live",
         NEW f \in {"leaked", "dropped"}, fate' = [fate EXCEPT ![x] = f],
         NEW t \in Threads, pc' = [pc EXCEPT ![t] = LoopEnd(t)], UNCHANGED terminated
  PROVE  LossInv'
<1>1. Lost' = Lost \cup {x} /\ x \notin Lost
  <2>1. Faulty \subseteq Ops /\ fate \in [Ops -> Fates]
    BY OpsAssumption DEF Ops, TypeInv, TypeOK
  <2>2. \A r \in Faulty : fate'[r] = IF r = x THEN f ELSE fate[r]
    BY <2>1
  <2> QED BY <2>2 DEF Lost
<1>2. /\ IsFiniteSet(Lost') /\ Cardinality(Lost') = Cardinality(Lost) + 1
      /\ Cardinality(Lost) \in Nat
  BY <1>1, FS_AddElement, FS_CardinalityType DEF LossInv
<1>3. Gone' \in SUBSET (Gone \cup {t})
  BY DEF Gone, TypeInv, TypeOK, Threads
<1>4. /\ Cardinality(Gone') =< Cardinality(Gone) + 1 /\ Cardinality(Gone) \in Nat
      /\ Cardinality(Gone') \in Nat
  <2>1. IsFiniteSet(Gone) /\ Cardinality(Gone) \in Nat
    BY GoneFinite
  <2>2. /\ IsFiniteSet(Gone \cup {t})
        /\ Cardinality(Gone \cup {t}) \in {Cardinality(Gone), Cardinality(Gone) + 1}
    BY <2>1, FS_AddElement
  <2>3. Cardinality(Gone') =< Cardinality(Gone \cup {t}) /\ Cardinality(Gone') \in Nat
    BY <1>3, <2>2, FS_Subset, FS_CardinalityType
  <2> QED BY <2>1, <2>2, <2>3
<1> QED BY <1>2, <1>4 DEF LossInv

\* Together: LossInv is inductive relative to the others.
LEMMA NextLoss ==
  ASSUME TypeInv, HolderInv, ControlInv, LossInv, [Next]_vars
  PROVE  LossInv'
<1> USE DEF At, Goto
<1>0. FateStep
  BY EveryFateStep
<1>p. /\ pc \in [Threads -> WorkerPoints \cup MainPoints] /\ fate \in [Ops -> Fates]
      /\ Main \in Threads /\ \A w \in Workers : w \in Threads /\ w # Main
  BY ThreadsAssumption DEF TypeInv, TypeOK, Threads
<1>1. ASSUME NEW t \in Threads, NEW x, pc' = [pc EXCEPT ![t] = x], t = Main \/ x # "exited"
      PROVE  Gone' \subseteq Gone
  BY <1>p, <1>1 DEF Gone
<1>2. ASSUME NEW t \in Threads, TakeFailure(t) PROVE LossInv'
  <2>1. /\ queue # <<>> /\ IsCompletion(Head(queue)) /\ ~Head(queue).ok /\ pc[t] = "wait"
        /\ fate' = [fate EXCEPT ![Head(queue).op] = "leaked"]
        /\ pc' = [pc EXCEPT ![t] = LoopEnd(t)] /\ terminated' = terminated
    BY <1>2 DEF TakeFailure
  <2>2. CASE t = Main \/ terminated
    <3>1. terminated' \/ Gone' \subseteq Gone
      BY <1>1, <2>1, <2>2
    <3> QED BY <1>0, <2>1, <3>1, LossStays
  <2>3. CASE t # Main /\ ~terminated
    <3>1. ~Ended
      BY <2>1, <2>3 DEF Ended, Threads
    <3>2. PICK x \in Faulty : x = Head(queue).op /\ fate[x] = "live"
      BY <2>1, <2>3, <3>1, HeadFails
    <3> QED BY <2>1, <3>2, LossGrows
  <2> QED BY <2>2, <2>3
<1>3. ASSUME NEW t \in Threads, EnqueueFailed(t) PROVE LossInv'
  <2>1. PICK x \in Faulty : x = cur[t]
    BY <1>3 DEF EnqueueFailed
  <2>2. /\ fate' = [fate EXCEPT ![x] = "dropped"]
        /\ pc' = [pc EXCEPT ![t] = LoopEnd(t)] /\ terminated' = terminated
    BY <1>3, <2>1 DEF EnqueueFailed, Settle, portVars
  <2>3. fate[x] = "live"
    <3>1. x \in Ops
      BY OpsAssumption DEF Ops
    <3> QED BY <2>1, <3>1, HeldOnce
  <2> QED BY <2>2, <2>3, LossGrows
<1>4. ASSUME NEW t \in Threads, PostSignal(t) \/ PostCompletion(t) \/ EndOnTerminate(t)
      PROVE  LossInv'
  <2>1. terminated' = terminated
    BY <1>4 DEF PostSignal, PostCompletion, EndOnTerminate, portVars
  <2>2. CASE terminated
    BY <1>0, <2>1, <2>2, LossStays
  <2>3. CASE ~terminated
    <3>1. ~EndOnTerminate(t)
      BY <2>3 DEF EndOnTerminate, ControlInv, StopInv
    <3>2. PICK x \in {"callback", "wait"} : pc' = [pc EXCEPT ![t] = x]
      BY <1>4, <2>3, <3>1 DEF PostSignal, PostCompletion, Refused
    <3>3. Gone' \subseteq Gone
      BY <1>1, <3>2
    <3> QED BY <1>0, <2>1, <3>3, LossStays
  <2> QED BY <2>2, <2>3
<1>5. ASSUME NEW t \in Threads, Loop(t) \/ Callback(t),
             ~TakeFailure(t), ~EnqueueFailed(t), ~PostSignal(t), ~PostCompletion(t),
             ~EndOnTerminate(t)
      PROVE  LossInv'
  <2>1. PICK x \in WorkerPoints \ {"exited"} : pc' = [pc EXCEPT ![t] = x]
    BY <1>5 DEF Loop, Callback, TakeCompletion, TakeSignal, TakeTerminate, SelectTask,
                EnqueueCompleted, EnqueueIssued, EnqueueRefused, SetTerminated, PushTask,
                Return, WorkerPoints
  <2>2. terminated => terminated'
    BY <1>5 DEF Loop, Callback, TakeCompletion, TakeSignal, TakeTerminate, SelectTask,
                EnqueueCompleted, EnqueueIssued, EnqueueRefused, SetTerminated, PushTask,
                Return, portVars
  <2>3. Gone' \subseteq Gone
    BY <1>1, <2>1
  <2> QED BY <1>0, <2>2, <2>3, LossStays
<1>6. CASE \/ \E j \in Jobs : PostJob(j)
           \/ \E f \in Files, p \in Priorities : SetPriority(f, p)
           \/ Close \/ Kernel \/ Closed \/ UNCHANGED vars
  <2>1. terminated' = terminated
    BY <1>6 DEF PostJob, SetPriority, Close, BeginClose, PostTerminate, CloseCancel, Join,
                DrainTimeout, Kernel, KernelSucceeds, KernelFails, Closed, vars, portVars
  <2>2. Gone' \subseteq Gone
    <3>1. \A w \in Workers : pc'[w] = "exited" => pc[w] = "exited"
      BY <1>p, <1>6 DEF PostJob, SetPriority, Close, BeginClose, PostTerminate, CloseCancel,
                  Join, DrainTimeout, Kernel, KernelSucceeds, KernelFails, Closed, vars, portVars
    <3> QED BY <3>1 DEF Gone
  <2> QED BY <1>0, <2>1, <2>2, LossStays
<1> QED BY <1>2, <1>3, <1>4, <1>5, <1>6 DEF Next

\* IoCompletionPort!PoolAlive: until a worker has set _terminated, every failed
\* read has cost the pool at most one thread, and nothing else has cost any.
THEOREM PoolStaysAlive == Spec => []PoolAlive
<1>1. Init => LossInv
  <2> SUFFICES ASSUME Init PROVE LossInv
    OBVIOUS
  <2>1. Gone = {} /\ Lost = {}
    <3>1. /\ \A w \in Workers : pc[w] = "unborn"
          /\ \A r \in Faulty : fate[r] = "new"
      BY ThreadsAssumption, OpsAssumption DEF Init, Threads, Ops
    <3> QED BY <3>1 DEF Gone, Lost
  <2> QED BY <2>1, FS_EmptySet DEF LossInv
<1>2. ControlInv /\ LossInv => PoolAlive
  BY DEF ControlInv, PointsInv, LossInv, PoolAlive, Gone, Lost, At
<1> QED BY <1>1, <1>2, NextLoss, TypeInvariant, HolderInvariant, ControlInvariant, PTL DEF Spec
=============================================================================
