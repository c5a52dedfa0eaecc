---------------------------- MODULE PendingScan ----------------------------
(***************************************************************************)
(* The selection rule of IoCompletionPort::worker: which task of the       *)
(* vector _pending a worker that received a key 1 packet takes.  The loop  *)
(* visits every index once, downwards from _pending_scan_offset and        *)
(* wrapping at 0, and keeps the first index whose priority is strictly     *)
(* above the best one seen so far.                                         *)
(*                                                                         *)
(* Indices are those of the C++ vector (0-based); prio is the sequence of  *)
(* the priorities IoPriority::query returns for the pending tasks, so the  *)
(* priority at index i is prio[i + 1].                                     *)
(***************************************************************************)
EXTENDS Integers, Sequences

\* Where the downward walk starts: a spent or stale offset restarts at the end.
ScanStart(n, scan) == IF scan = 0 \/ scan > n THEN n ELSE scan

\* The index visited in iteration o of the loop, o \in 0..n-1.
Visited(n, scan, o) ==
  LET s == ScanStart(n, scan)
  IN  IF o < s THEN s - 1 - o ELSE s + n - 1 - o

\* Mutants of Wins: the lowest priority wins; the last of the highest wins.
WinsLowest(prio, scan, o) ==
  LET At(q) == prio[Visited(Len(prio), scan, q) + 1]
  IN  /\ \A q \in 0 .. Len(prio) - 1 : At(q) >= At(o)
      /\ \A q \in 0 .. o - 1 : At(q) > At(o)

WinsLast(prio, scan, o) ==
  LET At(q) == prio[Visited(Len(prio), scan, q) + 1]
  IN  /\ \A q \in 0 .. Len(prio) - 1 : At(q) =< At(o)
      /\ \A q \in o + 1 .. Len(prio) - 1 : At(q) < At(o)

\* Iteration o meets a maximal priority, and no earlier iteration does.
Wins(prio, scan, o) ==
  LET At(q) == prio[Visited(Len(prio), scan, q) + 1]
  IN  /\ \A q \in 0 .. Len(prio) - 1 : At(q) =< At(o)
      /\ \A q \in 0 .. o - 1 : At(q) < At(o)

\* The index the loop leaves in `found'; prio is not empty.
Found(prio, scan) ==
  Visited(Len(prio), scan,
          CHOOSE o \in 0 .. Len(prio) - 1 : Wins(prio, scan, o))

(***************************************************************************)
(* The same loop iteration by iteration, as the reference Found is checked *)
(* against: the pair of the scan offset and the best index after o         *)
(* iterations (-1 is the initial value of `found').                        *)
(***************************************************************************)
LoopState(prio, scan) ==
  LET n == Len(prio)
      step[o \in 0 .. n] ==
        IF o = 0 THEN [offset |-> scan, found |-> -1]
        ELSE LET prev == step[o - 1]
                 i == (IF prev.offset = 0 \/ prev.offset > n
                       THEN n ELSE prev.offset) - 1
                 better == \/ prev.found = -1
                           \/ prio[i + 1] > prio[prev.found + 1]
             IN  [offset |-> i,
                  found  |-> IF better THEN i ELSE prev.found]
  IN  step[n]
=============================================================================
