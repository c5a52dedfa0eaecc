----------------------------- MODULE MCNtfsIndex -----------------------------
(***************************************************************************)
(* Small volumes for NtfsIndex: the root, $Bitmap, a directory 16 in the   *)
(* root, a directory 19 in 16, a file 17, and a record 18 that is a second *)
(* file or an extension record.                                            *)
(***************************************************************************)
EXTENDS NtfsIndex

RecordNumbers == {5, 6, 16, 17, 18, 19}

\* A chunk for every record, so that they come in every order.
SingleChunks == {<<f>> : f \in RecordNumbers}

Refusals == {{}, {16}, {kRootFRS}}

Name(n, p)   == [kind |-> "name", name |-> n, parent |-> p, dos |-> FALSE]
Short(n, p)  == [kind |-> "name", name |-> n, parent |-> p, dos |-> TRUE]
Stream(type, n, length, allocated) ==
    [kind |-> "stream", type |-> type, name |-> n, primary |-> TRUE,
     length |-> length, allocated |-> allocated, zone |-> 0]
Part(s)      == [s EXCEPT !.primary = FALSE]
Zoned(s)     == [s EXCEPT !.zone = 2]
Index(l, a)  == Stream(DirType, "", l, a)
Data(l, a)   == Stream(DataType, "", l, a)
Wof(l, a)    == Stream(DataType, "WofCompressedData", l, a)
Ads(l, a)    == Stream(DataType, "ads", l, a)
Reparse(l)   == Stream("reparse", "", l, 0)

Record(base, attributes) == [inUse |-> TRUE, base |-> base, attributes |-> attributes]
Unused == [inUse |-> FALSE, base |-> 18, attributes |-> <<>>]

\* A volume with the given files 17 and 18; the index of 16 has a part in record 19 or 19
\* is a directory.
Volume(r17, r18, r19) ==
    [f \in RecordNumbers |->
        CASE f = 5  -> Record(5, <<Name(".", 5), Index(1, 4), Ads(3, 0)>>)
          [] f = 6  -> Record(6, <<Name("$Bitmap", 5), Zoned(Data(8, 8))>>)
          [] f = 16 -> Record(16, <<Name("dir", 5), Index(1, 4)>>)
          [] f = 17 -> r17
          [] f = 18 -> r18
          [] f = 19 -> r19]

SubDir  == Record(19, <<Name("sub", 16), Index(1, 0)>>)
DirPart == Record(16, <<Index(5, 8)>>)
Large   == Record(18, <<Name("large", 16), Data(900, 900)>>)

\* No record is split: one name with three streams and a short name; two names in two
\* directories; two in one; three of which two in one; compressed under two names.
WholeVolumes ==
    {Volume(Record(17, <<Name("a", 19), Short("A~1", 19), Data(7, 8), Ads(3, 0), Reparse(2)>>), Large, SubDir),
     Volume(Record(17, <<Name("a", 16), Name("b", 5), Data(7, 8)>>), Unused, SubDir),
     Volume(Record(17, <<Name("a", 16), Name("b", 16), Data(7, 8), Ads(3, 0)>>), Large, SubDir),
     Volume(Record(17, <<Name("a", 16), Name("b", 19), Name("c", 16), Data(7, 8)>>), Large, SubDir),
     Volume(Record(17, <<Name("a", 16), Name("b", 19), Wof(5, 5), Data(9, 0)>>), Unused, SubDir)}

\* Split records: a name, the data, the rest of the data or a part of an index elsewhere.
SplitVolumes ==
    {Volume(Record(17, <<Name("a", 16), Data(7, 8)>>), Record(17, <<Name("b", 16)>>), SubDir),
     Volume(Record(17, <<Name("a", 19), Ads(3, 0)>>), Record(17, <<Data(7, 8)>>), SubDir),
     Volume(Record(17, <<Name("a", 19), Data(7, 8)>>), Record(17, <<Part(Data(7, 8))>>), SubDir),
     Volume(Record(17, <<Name("a", 16), Data(7, 8)>>), Large, DirPart)}

AllVolumes == WholeVolumes \cup SplitVolumes
==============================================================================
