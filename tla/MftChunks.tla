----------------------------- MODULE MftChunks -----------------------------
(***************************************************************************)
(* The arithmetic of the MFT reader: how the extents of $MFT::$BITMAP and  *)
(* $MFT::$DATA are cut into chunks, which records a chunk covers, and how  *)
(* many of its clusters the bitmap allows to skip.                         *)
(*                                                                         *)
(* A bitmap is the set of the records whose bit is 1; a record beyond the  *)
(* bitmap's last byte is simply not in the set, as in bitmap_utils.        *)
(***************************************************************************)
EXTENDS Integers, Sequences, FiniteSets, SequencesExt

CONSTANTS
  ClusterSize,   \* bytes per cluster
  RecordSize,    \* bytes per file record
  BitsPerByte,   \* bits of the bitmap per byte (kBitsPerByte)
  MaxReadSize    \* bytes per read operation (max_read_size_)

ASSUME SizesAssumption ==
  {ClusterSize, RecordSize, BitsPerByte, MaxReadSize} \subseteq Nat \ {0}

MaxClustersPerChunk == 1 + (MaxReadSize - 1) \div ClusterSize

\* The chunks of the extent that ends before cluster `last'.
ExtentChunks(first, last) ==
  [k \in 1 .. (last - first + MaxClustersPerChunk - 1) \div MaxClustersPerChunk |->
     LET vcn == first + (k - 1) * MaxClustersPerChunk
     IN  [vcn |-> vcn, count |-> Min({last - vcn, MaxClustersPerChunk})]]

\* build_chunk_list_from_extents(); extents is the sequence of the ending
\* virtual cluster numbers, as FSCTL_GET_RETRIEVAL_POINTERS returns them.
ChunkList(extents) ==
  FlattenSeq([e \in DOMAIN extents |->
                ExtentChunks(IF e = 1 THEN 0 ELSE extents[e - 1], extents[e])])

FirstRecord(c) == (c.vcn * ClusterSize) \div RecordSize
RecordCount(c) == (c.count * ClusterSize) \div RecordSize
RecordsOf(c)   == FirstRecord(c) .. FirstRecord(c) + RecordCount(c) - 1

\* bitmap_utils: distance of the first set bit from the start of a range ...
FindFirstSet(bits, first, n) ==
  Min({i \in 0 .. n - 1 : first + i \in bits} \cup {n})

\* ... and of the last one from its end, not looking at the `skipped' records.
FindLastSet(bits, first, n, skipped) ==
  Min({i \in 0 .. n - skipped - 1 : first + n - 1 - i \in bits}
      \cup {n - skipped})

\* Mutant: a cluster that is only partly unused is skipped.
SkipBeginRoundedUp(bits, c) ==
  (FindFirstSet(bits, FirstRecord(c), RecordCount(c)) * RecordSize
     + ClusterSize - 1) \div ClusterSize

\* The body of calculate_all_skip_ranges() for one chunk, in clusters.
SkipBegin(bits, c) ==
  (FindFirstSet(bits, FirstRecord(c), RecordCount(c)) * RecordSize) \div ClusterSize

SkipEnd(bits, c) ==
  LET begin == FindFirstSet(bits, FirstRecord(c), RecordCount(c))
  IN  (FindLastSet(bits, FirstRecord(c), RecordCount(c), begin) * RecordSize)
        \div ClusterSize

\* The records in the buffer of a read that skips `begin' and `end' clusters:
\* load() starts at the first record boundary of the buffer.
RecordsRead(c, begin, end) ==
  {f \in RecordsOf(c) :
     /\ f * RecordSize >= (c.vcn + begin) * ClusterSize
     /\ (f + 1) * RecordSize =< (c.vcn + c.count - end) * ClusterSize}

\* Mutants: load() counts the skipped clusters twice, or not at all.
RecordsSkippedTwice(begin, end) == 2 * (((begin + end) * ClusterSize) \div RecordSize)
RecordsSkippedNever(begin, end) == 0

\* Records load() adds to _records_so_far for the skipped clusters.
RecordsSkipped(begin, end) == ((begin + end) * ClusterSize) \div RecordSize
=============================================================================
