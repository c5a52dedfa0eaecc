--------------------------- MODULE DirectorySizes ---------------------------
(***************************************************************************)
(* The preprocessor of load(): one walk over the finished table, children  *)
(* first, that adds to the $I30 stream of every directory the sizes of all *)
(* below it.  A file with several names gives each of its directories a    *)
(* share of its sizes.                                                     *)
(***************************************************************************)
EXTENDS RecordTable

NoPlace == -1

ZeroSize == [length |-> 0, allocated |-> 0, bulkiness |-> 0, treesize |-> 0]

Plus(a, b) == [length |-> a.length + b.length, allocated |-> a.allocated + b.allocated,
               bulkiness |-> a.bulkiness + b.bulkiness, treesize |-> a.treesize + b.treesize]

\* A mutant of Share: every name gets the same, rounded down.
ShareEqual(value, i, n) == value \div n

\* Accumulator::delta: the share of name number i of n.
Share(value, i, n) == (value * (i + 1)) \div n - (value * i) \div n

IsDefaultStream(s) == s.type = DataType /\ s.name = ""

\* The stream that holds the compressed data of a file compressed by WOF.
IsCompressedData(s) == s.type = DataType /\ s.name = "WofCompressedData"

\* What is left of the children's bulkiness: the large ones are taken out, from the top
\* of a heap, down to a hundredth of what all children have allocated.
SmallBulk(size, bulks) ==
    FoldLeft(LAMBDA sum, b : IF b < size.allocated \div 100 THEN sum ELSE sum - b,
             size.bulkiness, bulks)

\* One stream of file f, seen under name number i of n; below is the size of what is
\* below the file.
StreamStep(acc, f, p, i, n, below) ==
    LET k == StreamAt(acc.table, f, p)
        allocated == Share(IF k.accounted THEN 0 ELSE k.allocated, i, n)
        share == [length |-> Share(IF IsCompressedData(k) THEN 0 ELSE k.length, i, n),
                  allocated |-> allocated,
                  bulkiness |-> Share(k.bulkiness, i, n),
                  treesize |-> 1]
        grown == [k EXCEPT !.length = @ + below.length, !.allocated = @ + below.allocated,
                           !.bulkiness = @ + below.bulkiness, !.treesize = @ + below.treesize]
        merges == IsCompressedData(k) /\ ~k.accounted
    IN [table |-> IF k.type = DirType THEN SetStream(acc.table, f, p, grown) ELSE acc.table,
        size |-> Plus(acc.size, share),
        default |-> IF IsDefaultStream(k) THEN p ELSE acc.default,
        compressed |-> IF merges THEN p ELSE acc.compressed,
        merged |-> acc.merged + (IF IsDefaultStream(k) \/ merges THEN allocated ELSE 0)]

\* The mark of a stream that has been merged.
Accounted(c) == [c EXCEPT !.accounted = TRUE]

\* Once per file the compressed data is counted as the allocation of the default stream.
MergeCompressed(acc, f, i, n) ==
    IF acc.compressed = NoPlace \/ acc.default = NoPlace
    THEN acc
    ELSE LET c == StreamAt(acc.table, f, acc.compressed)
             marked == SetStream(acc.table, f, acc.compressed, Accounted(c))
             d == StreamAt(marked, f, acc.default)
             sum == d.allocated + c.allocated
         IN [acc EXCEPT !.table = SetStream(marked, f, acc.default, [d EXCEPT !.allocated = sum]),
                        !.size.allocated = @ - acc.merged + Share(sum, i, n)]

-----------------------------------------------------------------------------
\* A call of the preprocessor: file f under its name number i of n, the child entries
\* that are still to come, and what those before them add up to.
Call(t, f, i, n) ==
    [frs |-> f, i |-> i, n |-> n, todo |-> ChildrenOf(t, f), size |-> ZeroSize, bulks |-> <<>>]

\* A state of the walk is the table with the calls under way, the innermost one first.
\* It calls itself for the file of the next child entry, unless that is the directory.
Descend(w) ==
    LET call == Head(w.calls)
        child == Head(call.todo)
        n == Rec(w.table, child.record).nameCount
        rest == <<[call EXCEPT !.todo = Tail(@)]>> \o Tail(w.calls)
    IN [w EXCEPT !.calls =
            IF child.record = call.frs
            THEN rest
            ELSE <<Call(w.table, child.record, n - 1 - child.nameIndex, n)>> \o rest]

\* What follows the loop over the children: the table and the size of the file as this
\* name counts it.
Sized(t, call, outermost) ==
    LET reserved == IF outermost THEN t.reserved ELSE 0
        below == [call.size EXCEPT !.allocated = @ + reserved,
                                   !.bulkiness = SmallBulk(call.size, call.bulks)]
        places == StreamPlaces(t, call.frs)
        after[k \in 0 .. Len(places)] ==
            IF k = 0
            THEN [table |-> t, size |-> below, default |-> NoPlace, compressed |-> NoPlace,
                  merged |-> 0]
            ELSE StreamStep(after[k - 1], call.frs, places[k], call.i, call.n, below)
    IN MergeCompressed(after[Len(places)], call.frs, call.i, call.n)

\* The innermost call returns its size to its caller.
Return(w) ==
    LET callers == Tail(w.calls)
        done == Sized(w.table, Head(w.calls), callers = <<>>)
        caller == [Head(callers) EXCEPT !.size = Plus(@, done.size),
                                        !.bulks = Append(@, done.size.bulkiness)]
    IN [table |-> done.table,
        calls |-> IF callers = <<>> THEN <<>> ELSE <<caller>> \o Tail(callers)]

PreprocessStep(w) ==
    CASE w.calls = <<>> -> w
      [] w.calls # <<>> /\ Head(w.calls).todo # <<>> -> Descend(w)
      [] OTHER -> Return(w)

\* The call in load(): from the root, under its only name.
Preprocess(t, root) ==
    LET walk[k \in 0 .. MaxSteps] ==
            IF k = 0
            THEN [table |-> t, calls |-> <<Call(t, root, 0, 1)>>]
            ELSE PreprocessStep(walk[k - 1])
    IN walk[MaxSteps].table
==============================================================================
