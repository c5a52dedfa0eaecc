----------------------------- MODULE Algorithms -----------------------------
(***************************************************************************)
(* The parts of the program that one thread runs, or one thread at a time, *)
(* each by itself: the choice among pending reads, the memory of reads,    *)
(* the fixup of a record, the search with a pattern, and the diagnostic    *)
(* tools.                                                                  *)
(***************************************************************************)
EXTENDS PendingQueue, BufferPool, PatternMeaning, MftDiagnostics, RecordFixup

VARIABLE subject    \* which of them

allVars == <<subject, vars, poolVars, patternVars, toolVars, recordVars>>

\* What stands for a part that is not the subject.
QueueAtRest ==
    /\ pending = <<>> /\ scan = 0 /\ overtaken = NobodyOvertaken
    /\ priority = [r \in Streams |-> Min(Priorities)]

PatternAtRest ==
    /\ typed = <<>> /\ operation = Operation(<<>>)
    /\ path = <<>> /\ directory = TRUE /\ seen = TRUE

ToolAtRest == ToolInit /\ tool = "list" /\ mft = CHOOSE m \in Mfts : TRUE

RecordAtRest ==
    /\ recordSize = 0 /\ written = <<>> /\ disk = <<>> /\ chunk = <<>> /\ magic = "none"

AlgorithmsInit ==
    /\ subject \in {"queue", "memory", "pattern", "tool", "record"}
    /\ IF subject = "queue" THEN Init ELSE QueueAtRest
    /\ PoolInit
    /\ IF subject = "pattern" THEN PatternInit ELSE PatternAtRest
    /\ IF subject = "tool" THEN ToolInit ELSE ToolAtRest
    /\ IF subject = "record" THEN RecordInit ELSE RecordAtRest

RunQueue ==
    /\ subject = "queue" /\ Next
    /\ UNCHANGED <<subject, poolVars, patternVars, toolVars, recordVars>>

RunMemory ==
    /\ subject = "memory" /\ PoolNext
    /\ UNCHANGED <<subject, vars, patternVars, toolVars, recordVars>>

RunPattern ==
    /\ subject = "pattern" /\ PatternNext
    /\ UNCHANGED <<subject, vars, poolVars, toolVars, recordVars>>

RunTool ==
    /\ subject = "tool" /\ ToolNext
    /\ UNCHANGED <<subject, vars, poolVars, patternVars, recordVars>>

RunRecord ==
    /\ subject = "record" /\ RecordNext
    /\ UNCHANGED <<subject, vars, poolVars, patternVars, toolVars>>

AlgorithmsSpec ==
    AlgorithmsInit /\ [][RunQueue \/ RunMemory \/ RunPattern \/ RunTool \/ RunRecord]_allVars
=============================================================================
