--------------------------- MODULE MftDiagnostics ---------------------------
(***************************************************************************)
(* The diagnostic tools of the command line (cli/mft_diagnostics.cpp), one *)
(* per call of the program: the raw dump of the MFT, the benchmark that    *)
(* only reads it, and the listing of its extents.                          *)
(*                                                                         *)
(* The unit is the sector: clusters, records and reads of a volume opened  *)
(* without buffering are whole sectors, so that aligning a size to sectors *)
(* changes nothing.  A sector is known by its number on the disk.          *)
(***************************************************************************)
EXTENDS Integers, Sequences

CONSTANTS Mfts,       \* what the MFT of the volume may be
          BufferSize  \* sectors read at a time

(***************************************************************************)
(* An extent is what FSCTL_GET_RETRIEVAL_POINTERS says of it: the virtual  *)
(* cluster behind it and the logical cluster it begins at.  The size of    *)
(* the file is one of several: it is asked for when the extents have been  *)
(* returned, and the MFT of a volume in use grows.                         *)
(***************************************************************************)
ASSUME MftAssumption ==
    /\ BufferSize \in Nat \ {0}
    /\ \A m \in Mfts :
          /\ m.extents \in Seq([next : Nat, lcn : Nat])
          /\ m.cluster \in Nat \ {0} /\ m.record \in Nat \ {0}
          /\ \A s \in m.sizes : s \in Nat
          /\ \A i \in 1 .. Len(m.extents) - 1 : m.extents[i].next <= m.extents[i + 1].next

VARIABLES tool,       \* which tool runs
          mft,        \* the MFT of its volume
          step,       \* the call it makes next
          handles,    \* what it has open
          size,       \* mft_size
          extent,     \* i, from 1
          extentRead, \* extent_bytes_read
          buffer,     \* read_buffer
          count,      \* bytes_written or bytes_read_total
          file,       \* the output file behind its header
          ends,       \* first_4_bytes and last_4_bytes, by their sectors
          listing,    \* the extents listed so far
          status      \* what it returns

toolVars == <<tool, mft, step, handles, size, extent, extentRead, buffer, count, file, ends,
              listing, status>>

positionVars == <<size, extent, extentRead, buffer, count, file, ends, listing>>

-----------------------------------------------------------------------------
Smaller(a, b) == IF a <= b THEN a ELSE b

PreviousVcn(i) == IF i = 1 THEN 0 ELSE mft.extents[i - 1].next

\* byte_length and byte_offset.
LengthOf(i) == (mft.extents[i].next - PreviousVcn(i)) * mft.cluster
OffsetOf(i) == mft.extents[i].lcn * mft.cluster

\* total_bytes: whole records only.
Total == (size \div mft.record) * mft.record

InExtents == extent <= Len(mft.extents)

\* The condition of the inner loop.
MoreOfExtent == InExtents /\ extentRead < LengthOf(extent) /\ count < Total

\* How much of the extent to read next.
ToRead == Smaller(BufferSize, Smaller(LengthOf(extent) - extentRead, Total - count))

\* Mutant: every read of an extent begins where the extent begins.
PlacesUnmoved(n) == [k \in 1 .. n |-> OffsetOf(extent) + k - 1]

\* The sectors that a read returns, at the position the tool seeks.
Places(n) == [k \in 1 .. n |-> OffsetOf(extent) + extentRead + k - 1]

\* Mutant: the first record is computed from the end of the extent.
FirstRecordBehind(i) == mft.extents[i].next * (mft.cluster \div mft.record)

\* start_frs.
FirstRecord(i) == PreviousVcn(i) * (mft.cluster \div mft.record)

Entry(i, verify) ==
    [verify |-> verify,
     start |-> FirstRecord(i),
     end |-> FirstRecord(i) + (mft.extents[i].next - PreviousVcn(i)) * (mft.cluster \div mft.record) - 1,
     offset |-> OffsetOf(i)]

-----------------------------------------------------------------------------
ToolInit ==
    /\ tool \in {"dump", "benchmark", "list"} /\ mft \in Mfts /\ step = "open"
    /\ handles = {} /\ size = 0 /\ extent = 1 /\ extentRead = 0 /\ buffer = <<>> /\ count = 0
    /\ file = <<>> /\ ends = [first |-> 0, last |-> 0] /\ listing = <<>> /\ status = "none"

\* Every return closes what is open.
ReturnsWith(s) == status' = s /\ step' = "returned" /\ handles' = {} /\ UNCHANGED <<tool, mft>>

\* A call of the system fails, and the tool returns its error.  A read that
\* only verifies an extent is no such call.
Fails ==
    /\ \/ step \in {"open", "volume data", "extents", "size", "create", "header", "write", "output"}
       \/ step = "read" /\ MoreOfExtent
    /\ ReturnsWith("error") /\ UNCHANGED positionVars

\* The tool is done with a call and makes the next.
GoesOnWith(next) == step' = next /\ UNCHANGED <<tool, mft, status>>

OpenVolume ==
    /\ step = "open" /\ GoesOnWith("volume data")
    /\ handles' = {"volume"} /\ UNCHANGED positionVars

QueryVolume ==
    /\ step = "volume data" /\ GoesOnWith("extents")
    /\ UNCHANGED <<handles, positionVars>>

\* get_retrieval_pointers(): the extents; none at all is an error.
QueryExtents ==
    /\ step = "extents" /\ mft.extents # <<>> /\ GoesOnWith("size")
    /\ UNCHANGED <<handles, positionVars>>

\* get_retrieval_pointers(): then the size.
QuerySize ==
    /\ step = "size"
    /\ \E s \in mft.sizes : size' = s
    /\ GoesOnWith(CASE tool = "dump" -> "create" [] tool = "benchmark" -> "read"
                    [] tool = "list" -> "entry")
    /\ UNCHANGED <<handles, extent, extentRead, buffer, count, file, ends, listing>>

CreateOutput ==
    /\ step = "create" /\ GoesOnWith("header")
    /\ handles' = handles \union {"output"} /\ UNCHANGED positionVars

WriteHeader ==
    /\ step = "header" /\ GoesOnWith("read")
    /\ UNCHANGED <<handles, positionVars>>

\* An extent is finished, or everything is read and those left are passed over.
NextExtent ==
    /\ step = "read" /\ InExtents /\ ~MoreOfExtent
    /\ extent' = extent + 1 /\ extentRead' = 0
    /\ UNCHANGED <<tool, mft, step, handles, size, buffer, count, file, ends, listing, status>>

\* dump_raw_mft(): SetFilePointerEx() and ReadFile(), which may return less.
ReadToDump ==
    /\ tool = "dump" /\ step = "read" /\ MoreOfExtent
    /\ \E n \in 1 .. ToRead : buffer' = Places(n)
    /\ GoesOnWith("write")
    /\ UNCHANGED <<handles, size, extent, extentRead, count, file, ends, listing>>

\* dump_raw_mft(): WriteFile().
WriteDump ==
    /\ step = "write"
    /\ LET n == Smaller(Len(buffer), Total - count)
       IN file' = file \o SubSeq(buffer, 1, n) /\ count' = count + n
    /\ extentRead' = extentRead + Len(buffer)
    /\ GoesOnWith("read")
    /\ UNCHANGED <<handles, size, extent, buffer, ends, listing>>

\* benchmark_mft_read(): the first and the last bytes of the data are kept.
ReadToMeasure ==
    /\ tool = "benchmark" /\ step = "read" /\ MoreOfExtent
    /\ \E n \in 1 .. ToRead :
          LET data == Smaller(n, Total - count)
          IN /\ ends' = [first |-> IF count = 0 THEN Places(n)[1] ELSE ends.first,
                         last |-> Places(n)[data]]
             /\ count' = count + data
             /\ extentRead' = extentRead + n
             /\ buffer' = Places(n)
    /\ UNCHANGED <<tool, mft, step, handles, size, extent, file, listing, status>>

\* Every extent is behind the tool, and it closes its handles.
Complete ==
    /\ step = "read" /\ ~InExtents
    /\ ReturnsWith("done") /\ UNCHANGED positionVars

\* dump_mft_extents(): one entry.  Its verification, if the user asks for it,
\* reads the first cluster of the extent, which must hold a whole record; a
\* failure is listed, and so is the number that the record there bears.
ListExtent ==
    /\ step = "entry" /\ InExtents
    /\ \E verify \in {"none", "failed", "read"} :
          /\ verify = "read" => mft.cluster >= mft.record
          /\ listing' = Append(listing, Entry(extent, verify))
    /\ extent' = extent + 1
    /\ UNCHANGED <<tool, mft, step, handles, size, extentRead, buffer, count, file, ends, status>>

\* dump_mft_extents(): the volume is closed before the output file is opened.
ListComplete ==
    /\ step = "entry" /\ ~InExtents
    /\ handles' = {} /\ GoesOnWith("output") /\ UNCHANGED positionVars

WriteListing ==
    /\ step = "output"
    /\ ReturnsWith("done") /\ UNCHANGED positionVars

Loop == NextExtent \/ ReadToDump \/ WriteDump \/ ReadToMeasure \/ Complete

ToolNext ==
    \/ Fails \/ OpenVolume \/ QueryVolume \/ QueryExtents \/ QuerySize
    \/ CreateOutput \/ WriteHeader \/ Loop
    \/ ListExtent \/ ListComplete \/ WriteListing

ToolSpec == ToolInit /\ [][ToolNext]_toolVars

-----------------------------------------------------------------------------
\* The virtual sector that an extent begins with.
StartOf(i) == PreviousVcn(i) * mft.cluster

\* Virtual sector v of the MFT lies at this place of the disk.
Located(v, place) ==
    \E i \in 1 .. Len(mft.extents) :
       /\ StartOf(i) <= v /\ v < StartOf(i) + LengthOf(i)
       /\ place = OffsetOf(i) + (v - StartOf(i))

\* Virtual sectors that the extents hold.
Allocated == StartOf(Len(mft.extents) + 1)

(***************************************************************************)
(* What a dump holds is, at every moment and whatever is read at a time,   *)
(* the beginning of the MFT in virtual order, over any number of extents   *)
(* and without a gap; the benchmark has read what it says, and shows the   *)
(* first and the last bytes of it.  A tool that reports success has gone   *)
(* through the whole MFT, as far as the extents it knows of reach, and     *)
(* none leaves a handle open.                                              *)
(***************************************************************************)
ReadsInOrder ==
    /\ \A n \in 1 .. Len(file) : Located(n - 1, file[n])
    /\ tool = "benchmark" /\ count > 0 =>
          Located(0, ends.first) /\ Located(count - 1, ends.last)
    /\ tool \in {"dump", "benchmark"} /\ status = "done" => count = Smaller(Total, Allocated)
    /\ tool = "dump" /\ status = "done" => Len(file) = count
    /\ step = "returned" => handles = {}

(***************************************************************************)
(* A reader of the listing finds any record of the MFT: a record of the    *)
(* numbers an entry gives lies in its extent, as far from its offset as    *)
(* its number is from the first.  This is said of volumes whose clusters   *)
(* hold whole records; with smaller clusters every entry begins with 0.    *)
(***************************************************************************)
ListsEveryRecord ==
    mft.cluster % mft.record = 0 =>
        /\ \A i \in 1 .. Len(listing) :
              \A frs \in listing[i].start .. listing[i].end :
                 Located(frs * mft.record, listing[i].offset + (frs - listing[i].start) * mft.record)
        /\ tool = "list" /\ status = "done" =>
              \A frs \in 0 .. (Allocated \div mft.record) - 1 :
                 \E i \in 1 .. Len(listing) : frs \in listing[i].start .. listing[i].end

\* Each tool shows the MFT as it is.
ToolsReadTheMft == ReadsInOrder /\ ListsEveryRecord
=============================================================================
