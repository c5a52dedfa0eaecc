-------------------------- MODULE AsyncReadService --------------------------
(***************************************************************************)
(* What the completion port promises the code that uses it, without        *)
(* threads, packets or priorities: every object that is submitted is       *)
(* served (its callback runs to its end), and is given up only once the    *)
(* owner closes the port, or if the object's own I/O is unreliable.        *)
(***************************************************************************)
EXTENDS Naturals, FiniteSets

CONSTANTS
  Objects,
  Unreliable,   \* objects whose I/O may fail
  Strength      \* so many failures use up the service

VARIABLES
  status,       \* what has become of every object
  closing       \* the owner has begun to close the service

vars == <<status, closing>>

Init ==
  /\ status = [o \in Objects |-> "idle"]
  /\ closing = FALSE

Step(o, from, to) ==
  /\ status[o] = from
  /\ status' = [status EXCEPT ![o] = to]
  /\ UNCHANGED closing

Submit(o)  == Step(o, "idle", "submitted")
Serve(o)   == Step(o, "submitted", "served")
Abandon(o) == (closing \/ o \in Unreliable) /\ Step(o, "submitted", "abandoned")

BeginClosing ==
  /\ ~closing /\ closing' = TRUE
  /\ UNCHANGED status

Next ==
  \/ \E o \in Objects : Submit(o) \/ Serve(o) \/ Abandon(o)
  \/ BeginClosing

Spec == Init /\ [][Next]_vars

Abandoned == {o \in Objects : status[o] = "abandoned"}

\* Each failure may weaken the service; as long as it is not used up nor being
\* closed, it makes progress.
Fairness ==
  \A o \in Objects : WF_vars(~closing /\ Cardinality(Abandoned) < Strength /\ Serve(o))

FairSpec == Spec /\ Fairness
=============================================================================
