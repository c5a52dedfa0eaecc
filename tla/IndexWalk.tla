------------------------------ MODULE IndexWalk ------------------------------
(***************************************************************************)
(* What reads the record table: the walk of Matcher, which calls the       *)
(* search back for the names and streams below the root, and the           *)
(* resolution of a key to a path (get_file_pointers, ParentIterator).      *)
(*                                                                         *)
(* A visit is one such call: the key of record, name and stream, and the   *)
(* names that lead to the file.  In a key, names and streams are numbered  *)
(* from 0 and AnyInfo stands for USHRT_MAX.                                    *)
(***************************************************************************)
EXTENDS RecordTable, Ranking

kRootFRS == 5
kVolumeFRS == 6
kFirstUserFRS == 16

AnyInfo == -1
NoPath == <<NoName>>

\* System files are passed over unless attributes are asked for.
IsWalked(f, attributes) == f = kRootFRS \/ f >= kFirstUserFRS \/ attributes

\* Streams that are neither data nor a directory need that, too.
IsShown(s, attributes) == attributes \/ s.type \in {DirType, DataType}

\* A mutant of IsCalled: at both times for all.
IsCalledTwice(f, s, depth) == TRUE

\* The root is met twice: by the call of the search, for its directory stream, and below
\* itself, for its others.
IsCalled(f, s, depth) == f # kRootFRS \/ (depth > 0) # (s.type = DirType)

\* A call of the walk for one name of a file: its depth and the names that lead to it.
\* It calls the search back for each stream of the file.
Calls(t, c, attributes) ==
    LET streams == StreamsOf(t, c.frs)
        numbers == Ascending({k \in DOMAIN streams : IsShown(streams[k], attributes)
                                                    /\ IsCalled(c.frs, streams[k], c.depth)})
    IN IF IsWalked(c.frs, attributes)
       THEN [j \in DOMAIN numbers |->
                [frs |-> c.frs, name |-> c.name, stream |-> numbers[j] - 1, path |-> c.path]]
       ELSE <<>>

\* A mutant of Targets: the root is not met below itself.
TargetsOnly(c, depth) == <<[record |-> c.record, nameIndex |-> c.nameIndex]>>

\* The targets of a child entry: after the volume's record at the first level, the root.
Targets(c, depth) ==
    <<[record |-> c.record, nameIndex |-> c.nameIndex]>> \o
    (IF c.record = kVolumeFRS /\ depth = 1 THEN <<[record |-> kRootFRS, nameIndex |-> 0]>> ELSE <<>>)

\* The names of a target that call c takes: by number and by parent.
NamesTaken(t, c, target) ==
    LET names == NamesOf(t, target.record)
        numbers == Ascending({j \in DOMAIN names : names[j].parent = c.frs /\ j - 1 = target.nameIndex})
    IN [i \in DOMAIN numbers |->
           [frs |-> target.record, name |-> numbers[i] - 1, depth |-> c.depth + 1,
            path |-> Append(c.path, names[numbers[i]].name)]]

\* The calls that call c makes for what is below its file.
Below(t, c) ==
    LET children == ChildrenOf(t, c.frs)
        targets == FlattenSeq([j \in DOMAIN children |-> Targets(children[j], c.depth + 1)])
    IN FlattenSeq([j \in DOMAIN targets |-> NamesTaken(t, c, targets[j])])

\* One call, the first of those still to come.  It goes below a file unless the search
\* returned 0 for all of its calls (for the files of the set refused).
WalkStep(t, attributes, refused, w) ==
    LET c == Head(w.todo)
        calls == Calls(t, c, attributes)
        descends == (c.frs # kRootFRS \/ c.depth = 0) /\ calls # <<>> /\ c.frs \notin refused
    IN IF w.todo = <<>>
       THEN w
       ELSE [todo |-> (IF descends THEN Below(t, c) ELSE <<>>) \o Tail(w.todo),
             visits |-> w.visits \o calls]

\* The call of the search: every name of the root, whose own name is no part of a path.
Visits(t, attributes, refused) ==
    LET start == [j \in DOMAIN NamesOf(t, kRootFRS) |->
                     [frs |-> kRootFRS, name |-> j - 1, depth |-> 0, path |-> <<>>]]
        walk[k \in 0 .. MaxSteps] ==
            IF k = 0
            THEN [todo |-> start, visits |-> <<>>]
            ELSE WalkStep(t, attributes, refused, walk[k - 1])
    IN walk[MaxSteps].visits

-----------------------------------------------------------------------------
\* get_file_pointers(): the numbers of the names a key allows, of which it takes the first,
\* and whether there is a stream.
NamesOfKey(t, key) ==
    {n \in DOMAIN NamesOf(t, key.frs) : key.name = AnyInfo \/ n - 1 = key.name}

HasStreamOfKey(t, key) ==
    LET streams == StreamsOf(t, key.frs)
    IN \E k \in DOMAIN streams :
           IF key.stream = AnyInfo THEN streams[k].type = DirType ELSE k - 1 = key.stream

\* A mutant of Parent: the parent's name has the number of the child's.
ParentSameNumber(link, n) == [frs |-> link.parent, name |-> n - 1, stream |-> AnyInfo]

\* The key of a directory on the way up.
Parent(link, n) == [frs |-> link.parent, name |-> AnyInfo, stream |-> AnyInfo]

\* ParentIterator: from a key to that of its directory, up to the root.
Ascend(t, p) ==
    LET numbers == NamesOfKey(t, p.key)
        n == Min(numbers)
        link == NamesOf(t, p.key.frs)[n]
        found == numbers # {} /\ HasStreamOfKey(t, p.key)
    IN CASE p.ended -> p
         [] ~p.ended /\ ~found -> [p EXCEPT !.ended = TRUE, !.path = NoPath]
         [] ~p.ended /\ found /\ p.key.frs = kRootFRS -> [p EXCEPT !.ended = TRUE]
         [] OTHER -> [p EXCEPT !.key = Parent(link, n), !.path = <<link.name>> \o @]

\* get_path(): the names from the root to a key's file, NoPath when get_file_pointers() throws.
PathOf(t, key) ==
    LET climb[k \in 0 .. MaxSteps] ==
            IF k = 0
            THEN [key |-> key, path |-> <<>>, ended |-> FALSE]
            ELSE Ascend(t, climb[k - 1])
    IN climb[MaxSteps].path
==============================================================================
