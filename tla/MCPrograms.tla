----------------------------- MODULE MCPrograms -----------------------------
(* An instance of Programs for TLC. *)
EXTENDS Programs

Entry(depth, match, name, length, allocated) ==
    [depth |-> depth, match |-> match, name |-> name, length |-> length,
     allocated |-> allocated, bulkiness |-> length + allocated]

MCCapacity == [d \in Drives |-> d]

\* The sizes give equal keys, and files that take more space than they are long.
MCTree ==
    <<<<Entry(0, FALSE, 1, 0, 0), Entry(2, TRUE, 2, 3, 5), Entry(1, TRUE, 1, 5, 3)>>,
      <<Entry(1, TRUE, 1, 3, 3)>>>>

\* The second visit is the second stream of the file.
MCIsStream(r) == r.visit = 2

MCFile(r) == Tree[r.drive][r.visit]

\* Every way to name drives, and patterns that allow all or only one.
MCCommands ==
    {[path |-> p, drives |-> l, allowed |-> a, header |-> h] :
        p \in {0, 1}, l \in {<<>>, <<2, 1>>, <<2>>, <<1, 0>>, <<1, NoSuchDrive>>},
        a \in {{1}, Drives}, h \in BOOLEAN}
=============================================================================
