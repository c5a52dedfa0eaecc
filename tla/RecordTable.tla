----------------------------- MODULE RecordTable -----------------------------
(***************************************************************************)
(* The record table of NtfsIndex and the part of load() that fills it.     *)
(*                                                                         *)
(* A table has a slot per file (records, found through lookup) and three   *)
(* vectors of chain entries.  The first name and the first stream of a     *)
(* file lie in its record and the others in nameinfos and streaminfos; the *)
(* children of a directory lie in childinfos.  Every new element becomes   *)
(* the head of its chain.  Indices are 1-based here and Nil stands for the *)
(* sentinel ~0.                                                            *)
(*                                                                         *)
(* A volume is a function from record numbers to records of the MFT.  The  *)
(* record of a file may have extension records, whose attributes go to the *)
(* base record, and chunks reach load() in any order.                      *)
(***************************************************************************)
EXTENDS Integers, Sequences, SequencesExt

CONSTANT MaxSteps   \* bound: steps of a walk over the table

ASSUME MaxStepsAssumption == MaxSteps \in Nat

Nil == 0
NoName == "no name"

\* The places of streams: in the record, or an index of streaminfos.
InRecord == 0

\* Types of streams: $I30 indices (type_name_id 0), $DATA, and the others.
DirType == "dir"
DataType == "data"

NoLink == [name |-> NoName, parent |-> Nil, next |-> Nil]

NoStream == [type |-> DirType, name |-> NoName, next |-> Nil, accounted |-> FALSE,
             length |-> 0, allocated |-> 0, bulkiness |-> 0, treesize |-> 0]

EmptyRecord == [nameCount |-> 0, streamCount |-> 0, firstChild |-> Nil,
                firstName |-> NoLink, firstStream |-> NoStream]

EmptyTable(frss, reserved) ==
    [lookup |-> [f \in frss |-> Nil], records |-> <<>>, nameinfos |-> <<>>,
     streaminfos |-> <<>>, childinfos |-> <<>>, total |-> 0, reserved |-> reserved]

-----------------------------------------------------------------------------
\* A mutant of At: a new slot at every call.
AtAnew(t, f) == [t EXCEPT !.records = Append(@, EmptyRecord), !.lookup[f] = Len(t.records) + 1]

\* at(): the slot of a file, made when there is none.
At(t, f) ==
    IF t.lookup[f] # Nil
    THEN t
    ELSE [t EXCEPT !.records = Append(@, EmptyRecord), !.lookup[f] = Len(t.records) + 1]

\* find() of a file that has a slot.
Rec(t, f) == t.records[t.lookup[f]]

SetRec(t, f, r) == [t EXCEPT !.records[t.lookup[f]] = r]

\* The indices of the entries of a chain, from its head.
Chain(entries, head) ==
    LET from[i \in 0 .. Len(entries)] == IF i = Nil THEN <<>> ELSE <<i>> \o from[entries[i].next]
    IN from[head]

Entries(entries, head) ==
    LET c == Chain(entries, head) IN [j \in 1 .. Len(c) |-> entries[c[j]]]

\* The names of a file, from the head of their chain.
NamesOf(t, f) ==
    LET first == Rec(t, f).firstName
    IN IF first.name = NoName THEN <<>> ELSE <<first>> \o Entries(t.nameinfos, first.next)

\* The entries of the children of a directory.
ChildrenOf(t, f) == Entries(t.childinfos, Rec(t, f).firstChild)

\* Where the streams of a file are.
StreamPlaces(t, f) ==
    LET first == Rec(t, f).firstStream
    IN IF first.name = NoName THEN <<>> ELSE <<InRecord>> \o Chain(t.streaminfos, first.next)

StreamAt(t, f, p) == IF p = InRecord THEN Rec(t, f).firstStream ELSE t.streaminfos[p]

SetStream(t, f, p, s) ==
    IF p = InRecord
    THEN SetRec(t, f, [Rec(t, f) EXCEPT !.firstStream = s])
    ELSE [t EXCEPT !.streaminfos[p] = s]

StreamsOf(t, f) ==
    LET p == StreamPlaces(t, f) IN [j \in 1 .. Len(p) |-> StreamAt(t, f, p[j])]

-----------------------------------------------------------------------------
\* The child entry of name number nameIndex of file f, at the head of its parent's chain.
AddChild(t, parent, f, nameIndex) ==
    LET entry == [record |-> f, nameIndex |-> nameIndex, next |-> Rec(t, parent).firstChild]
    IN SetRec([t EXCEPT !.childinfos = Append(@, entry)], parent,
              [Rec(t, parent) EXCEPT !.firstChild = Len(t.childinfos) + 1])

\* The vector of further names once the first name of record r is kept there, too.
KeptNames(t, r) ==
    IF r.firstName.name = NoName THEN t.nameinfos ELSE Append(t.nameinfos, r.firstName)

\* The number of the name that is being added.  The mutant counts from 1.
NameNumberFromOne(r) == r.nameCount + 1

NameNumber(r) == r.nameCount

\* A name becomes the head of the chain and a child of its directory.
AddName(t, f, a) ==
    LET r == Rec(t, f)
        kept == KeptNames(t, r)
        link == [name |-> a.name, parent |-> a.parent,
                 next |-> IF r.firstName.name = NoName THEN Nil ELSE Len(kept)]
        named == SetRec([t EXCEPT !.nameinfos = kept], f, [r EXCEPT !.firstName = link])
        linked == IF a.parent = f
                  THEN named
                  ELSE AddChild(At(named, a.parent), a.parent, f, NameNumber(r))
    IN SetRec(linked, f, [Rec(linked, f) EXCEPT !.nameCount = @ + 1])

\* The streams of a directory's index are merged, any other stream is a new one: where in
\* the chain there is a stream to merge with.
Merges(t, f, a) ==
    {j \in DOMAIN StreamPlaces(t, f) :
        a.type = DirType /\ StreamAt(t, f, StreamPlaces(t, f)[j]).type = DirType}

\* A new stream in place of the first one of record r.  The mutant keeps its sizes.
NewStreamUnreset(r, a, next) ==
    [r.firstStream EXCEPT !.type = a.type, !.name = a.name, !.next = next]

NewStream(r, a, next) == [NoStream EXCEPT !.type = a.type, !.name = a.name, !.next = next]

\* The new stream becomes the head of the chain and counts once for every name so far.
PushStream(t, f, a) ==
    LET r == Rec(t, f)
        kept == IF r.firstStream.name = NoName
                THEN t.streaminfos
                ELSE Append(t.streaminfos, r.firstStream)
        next == IF r.firstStream.name = NoName THEN Nil ELSE Len(kept)
    IN SetRec([t EXCEPT !.streaminfos = kept, !.total = @ + r.nameCount], f,
              [r EXCEPT !.firstStream = NewStream(r, a, next), !.streamCount = @ + 1])

\* The sizes of an attribute are added to its stream; bulkiness adds the sum so far.
AddSizes(t, f, p, a) ==
    LET s == StreamAt(t, f, p)
    IN SetStream(t, f, p, [s EXCEPT !.length = @ + a.length,
                                    !.allocated = @ + a.allocated,
                                    !.bulkiness = @ + s.allocated + a.allocated,
                                    !.treesize = IF a.type = DirType THEN 1 ELSE 0])

\* The first part of a stream (LowestVCN 0) carries its sizes.
IsPrimary(a) == a.primary

\* Any other attribute: clusters in the MFT zone are no longer reserved; the first
\* part of a stream is added to the stream's entry.
AddStream(t, f, a) ==
    LET zoned == [t EXCEPT !.reserved = @ - a.zone]
        merges == Merges(zoned, f, a)
        target == IF merges = {} THEN InRecord ELSE StreamPlaces(zoned, f)[Min(merges)]
        held == IF merges = {} THEN PushStream(zoned, f, a) ELSE zoned
    IN IF IsPrimary(a) THEN AddSizes(held, f, target, a) ELSE zoned

\* Names in the DOS name space are skipped.  The mutant takes them.
IsSkippedNever(a) == FALSE

IsSkipped(a) == a.dos

\* One attribute.
AddAttribute(t, f, a) ==
    IF a.kind = "name"
    THEN IF IsSkipped(a) THEN t ELSE AddName(t, f, a)
    ELSE AddStream(t, f, a)

\* One record of the MFT: the attributes of an extension record go to its base.
LoadRecord(t, m) ==
    LET after[k \in 0 .. Len(m.attributes)] ==
            IF k = 0 THEN At(t, m.base) ELSE AddAttribute(after[k - 1], m.base, m.attributes[k])
    IN IF m.inUse THEN after[Len(m.attributes)] ELSE t

\* The records of a chunk, in the order of their numbers.
LoadRecords(t, mft, chunk) ==
    LET after[k \in 0 .. Len(chunk)] ==
            IF k = 0 THEN t ELSE LoadRecord(after[k - 1], mft[chunk[k]])
    IN after[Len(chunk)]
==============================================================================
