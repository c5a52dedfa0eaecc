---------------------------- MODULE PendingQueue ----------------------------
(***************************************************************************)
(* The pending vector of IoCompletionPort by itself: which task is issued  *)
(* next when the requests never stop.  A stream is a source of reads that  *)
(* has at most one read pending at a time and asks again after each one    *)
(* (one slot of the pipeline of one drive); its tasks carry the priority   *)
(* hint of its volume, which the owner may change at any time.             *)
(***************************************************************************)
EXTENDS Integers, Sequences, FiniteSets, SequencesExt, PendingScan

CONSTANTS
  Streams,
  Priorities

ASSUME QueueAssumption ==
  IsFiniteSet(Streams) /\ Priorities \subseteq Nat /\ Priorities # {}

VARIABLES
  pending,     \* _pending, as the sequence of the streams of its tasks
  scan,        \* _pending_scan_offset
  priority,    \* what IoPriority::query returns for each stream's volume
  overtaken    \* history: overtaken[r][s] counts the tasks of s selected
               \* since the waiting task of r was pushed, or since all
               \* priorities have become the same

vars == <<pending, scan, priority, overtaken>>

IsWaiting(r) == r \in ToSet(pending)
AllEqual == \A r, s \in Streams : priority[r] = priority[s]
NobodyOvertaken == [r \in Streams |-> [s \in Streams |-> 0]]
PriorityAt == [i \in 1 .. Len(pending) |-> priority[pending[i]]]

TypeOK ==
  /\ pending \in Seq(Streams) /\ IsInjective(pending)
  /\ scan \in Nat
  /\ priority \in [Streams -> Priorities]
  /\ overtaken \in [Streams -> [Streams -> Nat]]

Init ==
  /\ pending = <<>> /\ scan = 0
  /\ priority \in [Streams -> Priorities]
  /\ overtaken = NobodyOvertaken

\* The critical section of read_file().
Push(r) ==
  /\ ~IsWaiting(r)
  /\ pending' = Append(pending, r)
  /\ overtaken' = [overtaken EXCEPT ![r] = [s \in Streams |-> 0]]
  /\ UNCHANGED <<scan, priority>>

\* What the scan leaves in _pending_scan_offset: the index it has found.
\* Mutants: the index behind it, the old offset.
OffsetBehind(found) == found + 1
OffsetKept(found)   == scan
NextOffset(found)   == found

\* The critical section of worker() for a key 1 packet.
Select ==
  /\ pending # <<>>
  /\ LET found == Found(PriorityAt, scan)
         chosen == pending[found + 1]
     IN  /\ scan' = NextOffset(found)
         /\ pending' = RemoveAt(pending, found + 1)
         /\ overtaken' = [r \in Streams |->
              IF IsWaiting(r) /\ r # chosen /\ AllEqual
              THEN [overtaken[r] EXCEPT ![chosen] = @ + 1]
              ELSE [s \in Streams |-> 0]]
  /\ UNCHANGED priority

\* IoPriority::set on the volume of a stream.
SetPriority(r, p) ==
  /\ p # priority[r]
  /\ priority' = [priority EXCEPT ![r] = p]
  /\ overtaken' = NobodyOvertaken
  /\ UNCHANGED <<pending, scan>>

Next ==
  \/ \E r \in Streams : Push(r)
  \/ Select
  \/ \E r \in Streams, p \in Priorities : SetPriority(r, p)

Spec == Init /\ [][Next]_vars
-----------------------------------------------------------------------------
\* The task at index i of the vector (1-based here) leaves it in this step.
Issued(i) == IsWaiting(pending[i]) /\ pending[i] \notin ToSet(pending')

\* A task is only issued while no pending task has a higher priority.
HighestPriorityFirst ==
  [][\A i \in DOMAIN pending : Issued(i) =>
       \A j \in DOMAIN pending : priority[pending[j]] =< priority[pending[i]]]_vars

\* The task that is issued is the one the loop of worker() finds, iteration by
\* iteration, from the scan offset the previous selection has left.
SelectsAsTheLoop ==
  [][\A i \in DOMAIN pending : Issued(i) =>
       i - 1 = LoopState(PriorityAt, scan).found]_vars

\* The offset survives pushes and erasures: it never points past the end.
OffsetInRange == scan =< Len(pending)

\* No starvation among equals: while all priorities are the same, the round
\* robin lets no stream issue more than two reads ahead of a waiting one,
\* although the vector is filled at one end and searched from the middle.
BoundedOvertaking ==
  AllEqual => \A r, s \in Streams : overtaken[r][s] =< 2
=============================================================================
