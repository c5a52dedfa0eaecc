---------------------------- MODULE CommandLine ----------------------------
(***************************************************************************)
(* main() of the command line program (cli/cli_main.hpp): the drives that  *)
(* the options ask for are read by the completion port, main() waits for   *)
(* whichever is finished next, searches it and writes a line for each      *)
(* match, through a buffer that is written when it is large or old.  What  *)
(* the pattern matches is in PathSearch, what a line says is left out.     *)
(***************************************************************************)
EXTENDS Volumes, Ranking

CONSTANT Commands   \* the options of the calls, see IsCommand

AllDrives == 0                  \* --drives=*
NoSuchDrive == DriveCount + 1   \* a letter that is no drive's

\* The drive the search path begins with if any, the option --drives, the
\* drives whose root path the pattern allows, and the option --header.
IsCommand(c) ==
    /\ c.path \in Drives \union {0}
    /\ c.drives \in Seq(0 .. NoSuchDrive) /\ IsInjective(c.drives)
    /\ c.allowed \in SUBSET Drives
    /\ c.header \in BOOLEAN

ASSUME CommandsAssumption == \A c \in Commands : IsCommand(c)

VARIABLES
    command,    \* the options
    stage,      \* where main() is
    indices,    \* the drives it searches, in order
    posted,     \* how many of them have been posted to the completion port
    pending,    \* positions, from 0, of those that are not yet searched
    raised,     \* raise_first_priority
    current,    \* the drive that is searched and how many visits were made, if any
    writer,     \* header is still to be written, line_buffer and what was written
    status      \* of the process

commandVars == <<command, stage, indices, posted, pending, raised, current, writer, status>>

-----------------------------------------------------------------------------
\* The drives that are to be searched: that of the path, else those listed, else all.
DrivesOf(c) ==
    IF c.path # 0 THEN <<c.path>>
    ELSE IF c.drives # <<>> /\ AllDrives \notin Range(c.drives) THEN c.drives
    ELSE [d \in Drives |-> d]

IsRefused(c) ==
    /\ c.path = 0
    /\ AllDrives \notin Range(c.drives)
    /\ NoSuchDrive \in Range(c.drives)

NotRaised == [volume |-> 0, hint |-> "none"]
NoDrive == [drive |-> 0, visits |-> 0]

CommandInit(c) ==
    /\ command = c
    /\ stage = "options"
    /\ indices = <<>> /\ posted = 0 /\ pending = <<>>
    /\ raised = NotRaised
    /\ current = NoDrive
    /\ writer = [header |-> c.header, buffer |-> <<>>, output |-> <<>>]
    /\ status = "none"

\* A listed letter that is no drive's ends the program.
Refuse ==
    /\ stage = "options"
    /\ IsRefused(command)
    /\ stage' = "ended"
    /\ status' = "refused"
    /\ UNCHANGED <<indexVars, command, indices, posted, pending, raised, current, writer>>

\* Indices are created for the drives that pass prematch().
Create ==
    /\ stage = "options"
    /\ ~IsRefused(command)
    /\ LET drives == DrivesOf(command)
       IN indices' = Arranged(drives, Ascending({i \in DOMAIN drives : drives[i] \in command.allowed}))
    /\ stage' = "posting"
    /\ UNCHANGED <<indexVars, command, posted, pending, raised, current, writer, status>>

\* The payload of the next index is posted.  Its volume is opened by the payload:
\* volume() is still null here, and the priority is not lowered.
Post ==
    /\ stage = "posting"
    /\ posted < Len(indices)
    /\ posted' = posted + 1
    /\ pending' = Append(pending, posted)
    /\ UNCHANGED <<indexVars, command, stage, indices, raised, current, writer, status>>

AllPosted ==
    /\ stage = "posting"
    /\ posted = Len(indices)
    /\ stage' = "loop"
    /\ UNCHANGED <<indexVars, command, indices, posted, pending, raised, current, writer, status>>

-----------------------------------------------------------------------------
\* Mutant: the handle of the volume, as the dialog gives it.
RaisedNumberOfVolume == index[indices[Head(pending) + 1]].handle

\* raise_first_priority is given the position of the drive for a handle, and the
\* priority that a default IoPriority remembers, which is 0 or very low.
RaisedNumber == Head(pending)

RaiseFirst ==
    /\ stage = "loop"
    /\ pending # <<>>
    /\ raised' = Remembered(priority, RaisedNumber)
    /\ priority' = SetPriority(priority, RaisedNumber, "very low")
    /\ stage' = "waiting"
    /\ UNCHANGED <<index, command, indices, posted, pending, current, writer, status>>

IsFinished(position) == Finished(indices[position + 1])

\* Mutant: an index that has failed stays in the list.
UnlessFailed(k) ==
    IF index[indices[pending[k] + 1]].phase = "failed" THEN pending ELSE RemoveAt(pending, k)

Erased(k) == RemoveAt(pending, k)

\* The first event that is set; a failed index is searched like any other.
Waited ==
    /\ stage = "waiting"
    /\ \E k \in DOMAIN pending :
          /\ IsFinished(pending[k])
          /\ \A j \in 1 .. k - 1 : ~IsFinished(pending[j])
          /\ current' = [drive |-> indices[pending[k] + 1], visits |-> 0]
          /\ pending' = Erased(k)
    /\ priority' = GivenBack(priority, raised)
    /\ raised' = NotRaised
    /\ stage' = "searching"
    /\ UNCHANGED <<index, command, indices, posted, writer, status>>

-----------------------------------------------------------------------------
Header == [drive |-> 0, visit |-> 0]

\* flush_if_needed() after a line: the buffer is written when it is large or its
\* time has come, or when it must be.
Line(w, line, flush) ==
    IF flush
    THEN [w EXCEPT !.output = @ \o w.buffer \o <<line>>, !.buffer = <<>>]
    ELSE [w EXCEPT !.buffer = Append(@, line)]

\* Mutant: the header is written before every match.
HeadedAlways(w, flush) == IF w.header THEN Line(w, Header, flush) ELSE w

\* The header is written before the first match.
Headed(w, flush) == IF w.header THEN [Line(w, Header, flush) EXCEPT !.header = FALSE] ELSE w

\* The callback of matches().
VisitNext ==
    /\ stage = "searching"
    /\ current.visits < index[current.drive].names
    /\ current' = [current EXCEPT !.visits = @ + 1]
    /\ IF Tree[current.drive][current.visits + 1].match
       THEN \E first, second \in BOOLEAN :
               writer' = Line(Headed(writer, first),
                              [drive |-> current.drive, visit |-> current.visits + 1], second)
       ELSE UNCHANGED writer
    /\ UNCHANGED <<indexVars, command, stage, indices, posted, pending, raised, status>>

\* All were visited; what is left in the buffer is written.
DriveSearched ==
    /\ stage = "searching"
    /\ current.visits = index[current.drive].names
    /\ writer' = [writer EXCEPT !.output = @ \o writer.buffer, !.buffer = <<>>]
    /\ current' = NoDrive
    /\ stage' = "loop"
    /\ UNCHANGED <<indexVars, command, indices, posted, pending, raised, status>>

Finish ==
    /\ stage = "loop"
    /\ pending = <<>>
    /\ stage' = "ended"
    /\ status' = "done"
    /\ UNCHANGED <<indexVars, command, indices, posted, pending, raised, current, writer>>

-----------------------------------------------------------------------------
Main ==
    \/ Refuse \/ Create \/ Post \/ AllPosted \/ RaiseFirst
    \/ Waited \/ VisitNext \/ DriveSearched \/ Finish

\* The payloads that are posted are run.
Payload(d) ==
    /\ \E i \in 1 .. posted : indices[i] = d
    /\ DriveStep(d)
    /\ UNCHANGED commandVars

CommandNext == Main \/ \E d \in Drives : Payload(d)

\* The command line by itself; Programs adds that main() goes on.
CommandSpec ==
    /\ DrivesInit /\ \E c \in Commands : CommandInit(c)
    /\ [][CommandNext]_<<indexVars, commandVars>>

-----------------------------------------------------------------------------
\* What was written below the header.
Rows ==
    IF writer.output # <<>> /\ Head(writer.output) = Header
    THEN Tail(writer.output)
    ELSE writer.output

Asked == Range(DrivesOf(command)) \intersect command.allowed

(***************************************************************************)
(* A command that has ended has written every match of every drive it was  *)
(* asked for once, drive after drive and each in the order of its search,  *)
(* below one header if it was asked for and something was found, whatever  *)
(* the order the drives finished in and whenever the buffer was written.   *)
(***************************************************************************)
OutputComplete ==
    status = "done" =>
        /\ writer.output = (IF command.header /\ Rows # <<>> THEN <<Header>> ELSE <<>>) \o Rows
        /\ IsInjective(Rows)
        /\ Range(Rows) = UNION {{[drive |-> d, visit |-> v] :
                v \in {w \in 1 .. index[d].names : Tree[d][w].match}} : d \in Asked}
        /\ \A i, j \in DOMAIN Rows :
              i < j /\ Rows[i].drive = Rows[j].drive =>
                  /\ Rows[i].visit < Rows[j].visit
                  /\ \A k \in i .. j : Rows[k].drive = Rows[i].drive

(***************************************************************************)
(* A command ends when all its drives have finished or failed.             *)
(***************************************************************************)
CommandEnds ==
    (stage = "loop" /\ \A d \in Asked : Finished(d)) ~> stage = "ended"
=============================================================================
