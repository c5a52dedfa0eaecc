------------------------------- MODULE Volumes ------------------------------
(***************************************************************************)
(* The drives of the two programs, the dialog and the command line, as far *)
(* as the thread that searches sees them: an index for each, which other   *)
(* threads open, read and finish (how, is in MftReader), and the handles   *)
(* of their volumes, whose priorities it changes (io/io_priority.hpp).     *)
(***************************************************************************)
EXTENDS Integers, Sequences, SequencesExt, FiniteSetsExt

CONSTANTS
    DriveCount, \* drives of the computer, numbered 1 .. DriveCount
    Capacity,   \* records in the MFT of each drive
    Tree,       \* what a search of each drive visits: records with depth and match at least
    Handles     \* numbers the system gives to volume handles

Drives == 1 .. DriveCount

ASSUME DrivesAssumption ==
    /\ DriveCount \in Nat
    /\ Capacity \in [Drives -> Nat \ {0}]
    /\ \A d \in Drives : Len(Tree[d]) \in Nat

\* The numbers of handles are multiples of four.
ASSUME HandlesAssumption == \A h \in Handles : h \in Nat \ {0} /\ h % 4 = 0

VARIABLES
    index,      \* of each drive: how far it is read, its handle, capacity, records and names
    priority    \* of each volume handle, normal if it is not open

indexVars == <<index, priority>>

-----------------------------------------------------------------------------
\* An index that has only been created; its volume is not open, and the
\* capacity of its MFT not known.
NewIndex == [phase |-> "new", handle |-> 0, capacity |-> 0, records |-> 0, names |-> 0]

Finished(d) == index[d].phase \in {"finished", "failed"}

DrivesInit ==
    /\ index = [d \in Drives |-> NewIndex]
    /\ priority = [h \in Handles |-> "normal"]

-----------------------------------------------------------------------------
(***************************************************************************)
(* The drives, each at its own pace.                                       *)
(***************************************************************************)
\* The volume is opened, under any number that is free, and with normal priority.
Open(d, h) ==
    /\ index[d].phase = "new"
    /\ \A e \in Drives : index[e].handle # h
    /\ index' = [index EXCEPT ![d].phase = "open", ![d].handle = h]
    /\ UNCHANGED priority

Measure(d) ==
    /\ index[d].phase = "open"
    /\ index' = [index EXCEPT ![d].phase = "reading", ![d].capacity = Capacity[d]]
    /\ UNCHANGED priority

\* Some more records are loaded.
Read(d) ==
    /\ index[d].phase = "reading"
    /\ \E n \in index[d].records + 1 .. Capacity[d] : index' = [index EXCEPT ![d].records = n]
    /\ UNCHANGED priority

\* The volume is closed when all are, ...
Close(d) ==
    /\ index[d].phase = "reading"
    /\ index[d].records = Capacity[d]
    /\ index' = [index EXCEPT ![d].phase = "closed", ![d].handle = 0, ![d].names = Len(Tree[d])]
    /\ priority' = [priority EXCEPT ![index[d].handle] = "normal"]

\* ... and the event set.
Signal(d) ==
    /\ index[d].phase = "closed"
    /\ index' = [index EXCEPT ![d].phase = "finished"]
    /\ UNCHANGED priority

\* The payload fails before the first record is read.
Fail(d) ==
    /\ index[d].phase \in {"new", "open", "reading"}
    /\ index[d].records = 0
    /\ index' = [index EXCEPT ![d].phase = "failed"]
    /\ UNCHANGED priority

DriveStep(d) ==
    \/ \E h \in Handles : Open(d, h)
    \/ Measure(d) \/ Read(d) \/ Close(d) \/ Signal(d) \/ Fail(d)

-----------------------------------------------------------------------------
(***************************************************************************)
(* Priorities.  A program may give any number for a handle: the system     *)
(* does not look at its two lowest bits, and refuses what is no handle.    *)
(***************************************************************************)
HandleOf(number) == 4 * (number \div 4)

IsOpen(number) == \E d \in Drives : index[d].handle = HandleOf(number) /\ HandleOf(number) # 0

\* IoPriority::set(), which does nothing if the volume is not open, or open no more.
SetPriority(p, number, hint) == IF IsOpen(number) THEN [p EXCEPT ![HandleOf(number)] = hint] ELSE p

\* IoPriority(volume, hint): remembers the priority the volume has had, ...
Remembered(p, number) ==
    [volume |-> number,
     hint |-> IF number = 0 THEN "none" ELSE IF IsOpen(number) THEN p[HandleOf(number)] ELSE "normal"]

\* ... which its destructor gives back.
GivenBack(p, remembered) == SetPriority(p, remembered.volume, remembered.hint)
=============================================================================
