------------------------------ MODULE Programs ------------------------------
(***************************************************************************)
(* The two programs that UltraFastFileSearch.cpp is built into, the dialog *)
(* and the command line: either runs over the same drives.                 *)
(***************************************************************************)
EXTENDS MainDialog, CommandLine

VARIABLE program    \* UFFS_GUI_BUILD or UFFS_CLI_BUILD

dialogVars == <<searchVars, results, listVars>>
allVars == <<program, indexVars, dialogVars, commandVars>>

\* The dialog runs without a command.
NoCommand == [path |-> 0, drives |-> <<>>, allowed |-> {}, header |-> FALSE]

ProgramsInit ==
    /\ Init
    /\ \/ program = "dialog" /\ CommandInit(NoCommand)
       \/ program = "command line" /\ \E c \in Commands : CommandInit(c)

RunDialog == program = "dialog" /\ Next /\ UNCHANGED <<program, commandVars>>

RunCommand == program = "command line" /\ CommandNext /\ UNCHANGED <<program, dialogVars>>

\* A command that has ended ends the process.
Ended == program = "command line" /\ stage = "ended" /\ UNCHANGED allVars

\* The thread that searches goes on; the drives may take as long as they like.
ProgramsSpec ==
    /\ ProgramsInit
    /\ [][RunDialog \/ RunCommand \/ Ended]_allVars
    /\ WF_allVars(program = "dialog" /\ Thread /\ UNCHANGED <<program, commandVars>>)
    /\ WF_allVars(program = "command line" /\ Main /\ UNCHANGED <<program, dialogVars>>)
=============================================================================
