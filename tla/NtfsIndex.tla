------------------------------ MODULE NtfsIndex ------------------------------
(***************************************************************************)
(* The index of one volume: chunks of the MFT are loaded in whatever order *)
(* their reads complete (each under the lock of the index), the last one   *)
(* runs the preprocessor, and then the dialog searches.  How chunks are    *)
(* claimed, skipped and counted is in MftReader; here every chunk is       *)
(* loaded once.                                                            *)
(***************************************************************************)
EXTENDS DirectorySizes, IndexWalk, FiniteSets

CONSTANTS
    Frss,       \* the numbers of the records of a volume
    Volumes,    \* the volumes: functions from Frss to records
    Chunks,     \* the chunks: sequences of record numbers, in ascending order
    Reserved,   \* the clusters reserved for the MFT zone
    RefusedSets \* for which files a search may return 0

ASSUME FrssAssumption ==
    /\ {kRootFRS, kVolumeFRS} \subseteq Frss /\ Frss \subseteq Nat \ {0}
    /\ IsFiniteSet(Frss)

\* The records of a volume as far as the loader tells their attributes apart.
NameAttributes == [kind : {"name"}, name : STRING \ {NoName}, parent : Frss, dos : BOOLEAN]

StreamAttributes ==
    [kind : {"stream"}, type : STRING, name : STRING \ {NoName}, primary : BOOLEAN,
     length : Nat, allocated : Nat, zone : Nat]

MftRecords ==
    [inUse : BOOLEAN, base : Frss, attributes : Seq(NameAttributes \cup StreamAttributes)]

\* Every NTFS volume has a root directory in its own record, from which load() walks.
ASSUME VolumesAssumption ==
    /\ Volumes \subseteq [Frss -> MftRecords] /\ Reserved \in Int
    /\ \A m \in Volumes : m[kRootFRS].inUse /\ m[kRootFRS].base = kRootFRS

(* What the records fs of volume m say: the places of attributes, by record and position. *)

PlacesIn(m, fs) == UNION {{f} \X DOMAIN m[f].attributes : f \in {g \in fs : m[g].inUse}}

AttributeAt(m, x) == m[x[1]].attributes[x[2]]

\* The names and streams of file f among the places xs.
LinksAmong(m, xs, f) ==
    {x \in xs : m[x[1]].base = f /\ AttributeAt(m, x).kind = "name" /\ ~AttributeAt(m, x).dos}

StreamsAmong(m, xs, f) ==
    {x \in xs : m[x[1]].base = f /\ AttributeAt(m, x).kind = "stream" /\ AttributeAt(m, x).primary}

DirsAmong(m, xs, f) == {x \in StreamsAmong(m, xs, f) : AttributeAt(m, x).type = DirType}

\* A volume that is not damaged: what has something in it is a directory, with an index and
\* one name (NTFS has no hard links to directories), and the first records lie in the root.
ASSUME DirectoriesAssumption ==
    \A m \in Volumes :
        LET all == PlacesIn(m, Frss)
        IN /\ \A f \in Frss : \A x \in LinksAmong(m, all, f) :
                  LET p == AttributeAt(m, x).parent
                  IN Cardinality(LinksAmong(m, all, p)) = 1 /\ DirsAmong(m, all, p) # {}
           /\ \A f \in {kRootFRS, kVolumeFRS} :
                  /\ Cardinality(LinksAmong(m, all, f)) = 1
                  /\ \A x \in LinksAmong(m, all, f) : AttributeAt(m, x).parent = kRootFRS

\* The bound lets a search end.
ASSUME StepsAssumption == \A m \in Volumes : 2 * Cardinality(PlacesIn(m, Frss)) < MaxSteps

ASSUME ChunksAssumption ==
    /\ \A c \in Chunks : c \in Seq(Frss) /\ IsInjective(c)
    /\ UNION {Range(c) : c \in Chunks} = Frss
    /\ \A c, d \in Chunks : Range(c) \cap Range(d) # {} => c = d

VARIABLES
    mft,        \* the volume that is read
    unread,     \* the chunks that have not been loaded
    table,      \* the record table
    finished,   \* the preprocessor has run
    result      \* what the last search has seen

vars == <<mft, unread, table, finished, result>>

NoSearch == [attributes |-> FALSE, refused |-> {}, visits |-> <<>>, overrun |-> FALSE]

Init ==
    /\ mft \in Volumes
    /\ unread = Chunks
    /\ table = EmptyTable(Frss, Reserved)
    /\ finished = FALSE
    /\ result = NoSearch

\* load() of a chunk; with the last one the index is complete.
Load(c) ==
    /\ c \in unread
    /\ unread' = unread \ {c}
    /\ LET loaded == LoadRecords(table, mft, c)
       IN IF unread' = {}
          THEN table' = Preprocess(loaded, kRootFRS) /\ finished' = TRUE
          ELSE table' = loaded /\ UNCHANGED finished
    /\ UNCHANGED <<mft, result>>

\* The numerator of the progress counts visits; the search ends with an exception when it
\* exceeds the denominator.
Search(attributes, refused) ==
    /\ finished
    /\ LET visits == Visits(table, attributes, refused)
           overrun == Len(visits) > table.total
       IN result' = [attributes |-> attributes, refused |-> refused, overrun |-> overrun,
                     visits |-> IF overrun THEN SubSeq(visits, 1, table.total) ELSE visits]
    /\ UNCHANGED <<mft, unread, table, finished>>

Next ==
    \/ \E c \in Chunks : Load(c)
    \/ \E attributes \in BOOLEAN, refused \in RefusedSets : Search(attributes, refused)

Spec == Init /\ [][Next]_vars

-----------------------------------------------------------------------------
LengthOf(m, xs) == SumFunction([x \in xs |-> AttributeAt(m, x).length])

\* What of the volume has been loaded.
Loaded == {f \in Frss : \A c \in unread : f \notin Range(c)}

LoadedPlaces == PlacesIn(mft, Loaded)

Slots(t) == {f \in DOMAIN t.lookup : t.lookup[f] # Nil}

DirPositions(t, f) ==
    {j \in DOMAIN StreamsOf(t, f) : StreamsOf(t, f)[j].type = DirType}

-----------------------------------------------------------------------------
\* Slots and the files that have one belong to each other, and every chain goes to older
\* entries only, so it ends.
WellFormed(t) ==
    /\ t.lookup \in [Frss -> 0 .. Len(t.records)]
    /\ \A f, g \in Slots(t) : t.lookup[f] = t.lookup[g] => f = g
    /\ \A i \in 1 .. Len(t.records) : \E f \in Slots(t) : t.lookup[f] = i
    /\ \A v \in {t.nameinfos, t.streaminfos, t.childinfos} :
           \A i \in 1 .. Len(v) : v[i].next \in 0 .. i - 1

TypeOK ==
    /\ mft \in Volumes
    /\ unread \subseteq Chunks
    /\ finished = (unread = {})
    /\ WellFormed(table)

\* The chain of names of a file holds the names at the places xs, each once, and none of
\* another file.
NamesHeld(t, m, xs) ==
    \A f \in Frss :
        LET names == NamesOf(t, f)
            links == LinksAmong(m, xs, f)
        IN IF f \in Slots(t)
           THEN /\ Len(names) = Rec(t, f).nameCount
                /\ Len(names) = Cardinality(links)
                /\ {<<l.name, l.parent>> : l \in Range(names)}
                      = {<<AttributeAt(m, x).name, AttributeAt(m, x).parent>> : x \in links}
           ELSE links = {}

\* Of the streams of a file at the places xs the chain has each once with its own length;
\* the parts of a directory's index are one stream, whichever part came first.
StreamsHeld(t, m, xs) ==
    \A f \in Frss :
        LET streams == StreamsOf(t, f)
            dirs == DirsAmong(m, xs, f)
            others == StreamsAmong(m, xs, f) \ dirs
            few == IF dirs = {} THEN 0 ELSE 1
        IN IF f \in Slots(t)
           THEN /\ Len(streams) = Rec(t, f).streamCount
                /\ Len(streams) = Cardinality(others) + few
                /\ {<<s.type, s.name, s.length>> : s \in {u \in Range(streams) : u.type # DirType}}
                      = {<<AttributeAt(m, x).type, AttributeAt(m, x).name, AttributeAt(m, x).length>> :
                            x \in others}
                /\ Cardinality(DirPositions(t, f)) = few
           ELSE dirs \cup others = {}

\* Until the preprocessor adds what is below, the length of an index is that of its parts.
IndexesHeld(t, m, xs) ==
    \A f \in Slots(t) : \A j \in DirPositions(t, f) :
        StreamsOf(t, f)[j].length = LengthOf(m, DirsAmong(m, xs, f))

\* The number in a child entry, counted from the oldest name, leads to a name in that
\* directory; every name of a file but the root's own is led to by one entry.
ChildrenLead(t) ==
    \A p \in Slots(t) :
        LET entries == {<<e.record, e.nameIndex>> : e \in Range(ChildrenOf(t, p))}
            named(f) == {j \in DOMAIN NamesOf(t, f) : NamesOf(t, f)[j].parent = p}
        IN /\ Len(ChildrenOf(t, p)) = Cardinality(entries)
           /\ entries = UNION {{<<f, Rec(t, f).nameCount - j>> : j \in named(f)} :
                                  f \in Slots(t) \ {p}}

\* At any moment of a load in any order, the table is well formed and holds just the
\* names and streams of the records that have come.
TableAsLoaded ==
    /\ TypeOK
    /\ NamesHeld(table, mft, LoadedPlaces)
    /\ StreamsHeld(table, mft, LoadedPlaces)
    /\ ~finished => IndexesHeld(table, mft, LoadedPlaces)

\* The walk finds every name again: before, between and after the loads, child entries
\* and names of the table belong to each other.
ChildrenLeadToNames == ChildrenLead(table)

\* The root's sizes are those of the volume: a file counts once, however many names share
\* it; compressed data has no length of its own; the reserved clusters are allocated; and
\* treesize counts the root and every stream below it once for each name.
SizesConserved ==
    finished =>
        LET root == CHOOSE s \in Range(StreamsOf(table, kRootFRS)) : s.type = DirType
            others == Slots(table) \ {kRootFRS}
            counted == UNION {StreamsAmong(mft, LoadedPlaces, f) : f \in others}
                          \cup DirsAmong(mft, LoadedPlaces, kRootFRS)
            long == {x \in counted : ~IsCompressedData(AttributeAt(mft, x))}
        IN /\ root.length = LengthOf(mft, long)
           /\ root.allocated = table.reserved
                                  + SumFunction([x \in counted |-> AttributeAt(mft, x).allocated])
           /\ root.treesize
                 = 1 + SumFunction([f \in others |-> Rec(table, f).nameCount * Rec(table, f).streamCount])

Searched == result # NoSearch /\ ~result.overrun

\* A search meets no name and stream twice: neither by two entries of a directory that has
\* a file under two names, nor at the root, which the walk passes twice.
VisitedOnce ==
    \A i, j \in 1 .. Len(result.visits) :
        LET key(v) == <<v.frs, v.name, v.stream>>
        IN key(result.visits[i]) = key(result.visits[j]) => i = j

\* The files a search has met, and the directories below which it has gone.
Met == {v.frs : v \in Range(result.visits)}

GoneBelow == Met \ result.refused

\* ... and every shown stream of a file with one name is met, unless the search has not gone
\* below its directory.
SingleNamesVisitedOnce ==
    /\ VisitedOnce
    /\ Searched =>
          \A f \in {g \in Slots(table) : IsWalked(g, result.attributes)} :
              LET names == NamesOf(table, f)
                  streams == StreamsOf(table, f)
              IN Len(names) = 1 =>
                     \A k \in 1 .. Len(streams) :
                         (/\ IsShown(streams[k], result.attributes)
                          /\ \/ names[1].parent \in GoneBelow
                             \/ f = kRootFRS /\ streams[k].type = DirType)
                         => \E v \in Range(result.visits) : v.frs = f /\ v.stream = k - 1

\* The path of a visit is the one get_path() finds later for its key.
PathsAgree ==
    \A v \in Range(result.visits) : v.frs # kRootFRS => PathOf(table, v) = v.path

\* All names and sizes of a file are in its base record, names first.
ContiguousIn(m) ==
    \A g \in Frss :
        LET a == m[g].attributes
            sized == {k \in DOMAIN a : a[k].kind = "stream" /\ a[k].primary}
        IN /\ m[g].base # g => \A k \in DOMAIN a : a[k].kind = "stream" /\ ~a[k].primary
           /\ \A j \in DOMAIN a, k \in sized : a[j].kind = "name" => j < k

Contiguous == ContiguousIn(mft)

\* When no record was split, a search does not count beyond the names and streams that
\* load() has counted.
ProgressHolds == Contiguous => ~result.overrun

\* VIOLATED.  The progress never passes its denominator, which is what the check in the
\* callback of the search takes for granted.  load() counts a stream once for the names it
\* has seen by then, and extension records bring names and streams in any order.
ProgressNeverExceeds == ~result.overrun

\* VIOLATED.  The walk finds the name that points to the directory it is in.  It compares
\* the position in the chain, counted from the newest name, with a number counted from
\* the oldest.
EveryNameVisited ==
    Searched /\ result.refused = {} =>
        \A f \in {g \in Slots(table) : IsWalked(g, result.attributes)} :
            \A n \in 1 .. Len(NamesOf(table, f)) :
                (\E k \in 1 .. Len(StreamsOf(table, f)) : IsShown(StreamsOf(table, f)[k], result.attributes))
                => \E v \in Range(result.visits) : v.frs = f /\ v.name = n - 1
==============================================================================
