----------------------------- MODULE RecordFixup ----------------------------
(***************************************************************************)
(* A record of the MFT is read while the file system may write it          *)
(* (core/ntfs_types.hpp, index/ntfs_index_load.hpp).  Either transfer goes *)
(* sector by sector, so that what is read may be part of one version and   *)
(* part of another.  On the disk the last word of every sector is replaced *)
(* by the number of the version, and the words themselves are kept in the  *)
(* header; unfixup() puts them back and tells whether the numbers agree.   *)
(***************************************************************************)
EXTENDS Integers, Sequences

CONSTANTS RecordSizes, \* _mft_record_size may be one of these, in bytes
          Contents,    \* versions of a record, each by the last words of its sectors
          CountBits,   \* width of a version's number, an unsigned short
          MaxWrites    \* bound: versions of the record

Stride == 512

\* No number comes again during a read.
ASSUME VersionsAssumption ==
    MaxWrites \in Nat \ {0} /\ CountBits \in Nat /\ MaxWrites < 2 ^ CountBits
ASSUME ContentsAssumption ==
    /\ RecordSizes \subseteq Nat
    /\ \A n \in RecordSizes, c \in Contents : n >= Stride /\ Len(c) * Stride >= n

VARIABLES recordSize, \* _mft_record_size
          written,    \* history: the versions
          disk,       \* the sectors of the record: version and last word
          chunk,      \* the same in the buffer of a read
          magic       \* "FILE", "BAAD" after a failed fixup, "none" before it is read

recordVars == <<recordSize, written, disk, chunk, magic>>

Sectors == 1 .. recordSize \div Stride

Count(version) == version % 2 ^ CountBits

Stored(version) == [version |-> version, last |-> Count(version)]

NotRead == [version |-> 0, last |-> 0]

-----------------------------------------------------------------------------
RecordInit ==
    /\ recordSize \in RecordSizes /\ \E c \in Contents : written = <<c>>
    /\ disk = [i \in Sectors |-> Stored(1)] /\ chunk = [i \in Sectors |-> NotRead]
    /\ magic = "none"

\* The file system begins to write a version when it has written the one before.
BeginWrite(content) ==
    /\ Len(written) < MaxWrites /\ \A i \in Sectors : disk[i].version = Len(written)
    /\ written' = Append(written, content)
    /\ UNCHANGED <<recordSize, disk, chunk, magic>>

WriteSector(i) ==
    /\ disk[i].version # Len(written)
    /\ disk' = [disk EXCEPT ![i] = Stored(Len(written))]
    /\ UNCHANGED <<recordSize, written, chunk, magic>>

ReadSector(i) ==
    /\ magic = "none" /\ chunk[i] = NotRead
    /\ chunk' = [chunk EXCEPT ![i] = disk[i]]
    /\ UNCHANGED <<recordSize, written, disk, magic>>

\* The header, with number and words, is in the first sector.
Header == chunk[1].version

\* Mutant: the last sector decides.
AgreesLast ==
    LET last == recordSize \div Stride IN chunk[last].last = Count(Header)

\* What unfixup() returns.
Agrees == \A i \in Sectors : chunk[i].last = Count(Header)

\* preload_concurrent(): the words are put back in any case.
Unfixup ==
    /\ magic = "none" /\ \A i \in Sectors : chunk[i] # NotRead
    /\ chunk' = [i \in Sectors |-> [chunk[i] EXCEPT !.last = written[Header][i]]]
    /\ magic' = IF Agrees THEN "FILE" ELSE "BAAD"
    /\ UNCHANGED <<recordSize, written, disk>>

RecordNext ==
    \/ \E c \in Contents : BeginWrite(c)
    \/ \E i \in Sectors : WriteSector(i) \/ ReadSector(i)
    \/ Unfixup

RecordSpec == RecordInit /\ [][RecordNext]_recordVars

-----------------------------------------------------------------------------
(***************************************************************************)
(* Every record that load() goes on to parse is one version of it, as the  *)
(* file system meant it, however reading and writing overlapped; and none  *)
(* is given up that was read whole.                                        *)
(***************************************************************************)
RecordWholeOrBad ==
    magic # "none" =>
        /\ magic = "FILE" <=> \A i \in Sectors : chunk[i].version = Header
        /\ magic = "FILE" => \A i \in Sectors : chunk[i].last = written[Header][i]
=============================================================================
