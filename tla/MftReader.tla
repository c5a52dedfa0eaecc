----------------------------- MODULE MftReader -----------------------------
(***************************************************************************)
(* The MFT reading pipeline of src/io/mft_reader*.hpp and the part of      *)
(* NtfsIndex it drives: one payload per drive, posted to the completion    *)
(* port, builds the chunk lists and starts kIoConcurrencyLevel reads; the  *)
(* callback of each read first queues the next chunk and then processes    *)
(* its own: a bitmap chunk goes into mft_bitmap_ (the last one computes    *)
(* the skip ranges of all data chunks), a data chunk into the index.  The  *)
(* index is finished when it has counted mft_capacity records; a waiting   *)
(* thread then searches it.                                                *)
(*                                                                         *)
(* The completion port appears through what it does with a read: a worker  *)
(* issues it, and later a worker runs its callback.  Callbacks of several  *)
(* workers interleave at every atomic operation and every lock.            *)
(***************************************************************************)
EXTENDS MftChunks

CONSTANTS
  Workers,        \* threads of the completion port
  BitmapExtents,  \* ending clusters of the extents of $MFT::$BITMAP
  DataExtents,    \* ending clusters of the extents of $MFT::$DATA
  BitmapSize,     \* bytes of $MFT::$BITMAP
  Disks,          \* the sets of in-use records the volume may hold
  Capacity,       \* records of the MFT's valid data (mft_capacity), by disk
  Concurrency,    \* kIoConcurrencyLevel
  MayFail,        \* initialization may fail
  MayCancel       \* the owner may cancel the index
ASSUME ReaderAssumption ==
  /\ IsFiniteSet(Workers)
  /\ Concurrency \in Nat \ {0} /\ BitmapSize \in Nat
  /\ Capacity \in [Disks -> Nat \ {0}]
  /\ ClusterSize % RecordSize = 0           \* load() refuses smaller clusters
  /\ \A d \in Disks :
       /\ d \subseteq 0 .. Capacity[d] - 1
       /\ BitmapSize * BitsPerByte >= Capacity[d]  \* a bit for every record
  /\ {MayFail, MayCancel} \subseteq BOOLEAN

BitmapChunks == ChunkList(BitmapExtents)
DataChunks   == ChunkList(DataExtents)
ChunksOf(kind) == IF kind = "bitmap" THEN BitmapChunks ELSE DataChunks
AllBits == 0 .. BitmapSize * BitsPerByte - 1

\* Chunks are never empty.
ASSUME ChunkListsAssumption ==
  {BitmapChunks, DataChunks} \subseteq Seq([vcn : Nat, count : Nat \ {0}])

\* The ending clusters of the extents ascend, so that the chunks cover the
\* clusters of $DATA one after the other: none twice, and none left out.
ASSUME ChunkOrderAssumption ==
  /\ \A c, d \in DOMAIN DataChunks :
       c < d => DataChunks[c].vcn + DataChunks[c].count =< DataChunks[d].vcn
  /\ \A c \in DOMAIN DataChunks : \A v \in 0 .. DataChunks[c].vcn - 1 :
       \E d \in DOMAIN DataChunks :
         v \in DataChunks[d].vcn .. DataChunks[d].vcn + DataChunks[d].count - 1

VARIABLES
  disk,          \* the in-use records on the volume
  payload,       \* "new", "posted" or "taken"
  bitmapNext,    \* next_bitmap_chunk_index_
  bitmapLeft,    \* bitmap_chunks_remaining_
  dataNext,      \* next_data_chunk_index_
  valid,         \* total_valid_records_
  bits,          \* mft_bitmap_
  skip,          \* skip_begin and skip_end of every data chunk
  reads,         \* read operations the completion port holds
  pc, op, claim, calls, loop,  \* where each worker is, and its local variables
  soFar,         \* _records_so_far
  loaded,        \* in-use records load() has parsed into the index
  expected,      \* _expected_records
  preprocessed,  \* runs of the preprocessor
  volume,        \* _volume is open
  event,         \* _finished_event
  code,          \* _finished
  cancelled,     \* _cancelled
  waiter, seen,  \* the thread that waits for the index, and what it found
  order          \* history: the data chunks in the order load() got them

readerVars == <<bitmapNext, bitmapLeft, dataNext, valid, bits, skip>>
workerVars == <<pc, op, claim, calls, loop>>
indexVars  == <<soFar, loaded, expected, preprocessed, volume, event, code, cancelled>>
waiterVars == <<waiter, seen>>
vars == <<disk, payload, readerVars, reads, workerVars, indexVars, waiterVars, order>>
-----------------------------------------------------------------------------
Nothing == [kind |-> "none", chunk |-> 0, begin |-> 0]
NoRead  == [kind |-> "none", chunk |-> 0, begin |-> 0, end |-> 0, issued |-> FALSE]

Claims == [kind : {"bitmap", "data"}, chunk : Nat, begin : Nat] \cup {Nothing}
ReadOps == [kind : {"bitmap", "data"}, chunk : Nat, begin : Nat, end : Nat,
            issued : BOOLEAN]

TypeOK ==
  /\ disk \in Disks
  /\ payload \in {"new", "posted", "taken"}
  /\ {bitmapNext, bitmapLeft, dataNext, valid, soFar, expected, preprocessed}
       \subseteq Nat
  /\ bits \subseteq AllBits
  /\ skip \in [DOMAIN DataChunks -> [begin : Nat, end : Nat]]
  /\ reads \subseteq ReadOps
  /\ pc \in [Workers -> {"idle", "dead", "setevent", "setcode", "claimbitmap",
               "undobitmap", "claimdata", "undodata", "loadskip", "issue",
               "process", "countdown", "skipbegin", "skipend"}]
  /\ op \in [Workers -> ReadOps \cup {NoRead}]
  /\ claim \in [Workers -> Claims]
  /\ calls \in [Workers -> 0 .. Concurrency]
  /\ loop \in [Workers -> Nat]
  /\ loaded \subseteq disk
  /\ {volume, event, cancelled} \subseteq BOOLEAN
  /\ code \in {0, 1}
  /\ waiter \in {"waiting", "woken", "checked", "refused", "searched"}
  /\ seen \in [code : {0, 1}, records : SUBSET disk]
  /\ order \in Seq(DOMAIN DataChunks)

Init ==
  /\ disk \in Disks
  /\ payload = "new"
  /\ bitmapNext = 0 /\ bitmapLeft = 0 /\ dataNext = 0 /\ valid = 0
  /\ bits = {}
  /\ skip = [c \in DOMAIN DataChunks |-> [begin |-> 0, end |-> 0]]
  /\ reads = {}
  /\ pc = [w \in Workers |-> "idle"]
  /\ op = [w \in Workers |-> NoRead]
  /\ claim = [w \in Workers |-> Nothing]
  /\ calls = [w \in Workers |-> 0]
  /\ loop = [w \in Workers |-> 0]
  /\ soFar = 0 /\ loaded = {} /\ expected = 0 /\ preprocessed = 0
  /\ volume = FALSE /\ event = FALSE /\ code = 0 /\ cancelled = FALSE
  /\ waiter = "waiting" /\ seen = [code |-> 0, records |-> {}]
  /\ order = <<>>
-----------------------------------------------------------------------------
At(w, point)   == pc[w] = point
Goto(w, point) == pc' = [pc EXCEPT ![w] = point]

\* The owner posts the payload, may cancel the index, waits and searches.
PostPayload ==
  /\ payload = "new" /\ payload' = "posted"
  /\ UNCHANGED <<disk, readerVars, reads, workerVars, indexVars, waiterVars, order>>

Cancel ==
  /\ MayCancel /\ ~cancelled /\ cancelled' = TRUE
  /\ UNCHANGED <<disk, payload, readerVars, reads, workerVars, soFar, loaded,
                 expected, preprocessed, volume, event, code, waiterVars, order>>

\* WaitForMultipleObjects returns, ...
Wake ==
  /\ waiter = "waiting" /\ event
  /\ waiter' = "woken"
  /\ UNCHANGED <<disk, payload, readerVars, reads, workerVars, indexVars, seen, order>>

\* ... the benchmark reads get_finished() and leaves a failed index alone, ...
CheckCode ==
  /\ waiter = "woken"
  /\ waiter' = IF code = 0 THEN "checked" ELSE "refused"
  /\ seen' = [seen EXCEPT !.code = code]
  /\ UNCHANGED <<disk, payload, readerVars, reads, workerVars, indexVars, order>>

\* ... and the index is read, under its lock: by the benchmark after the look
\* at the code, by the command line without one.
Search ==
  /\ waiter \in {"woken", "checked"}
  /\ waiter' = "searched"
  /\ seen' = [seen EXCEPT !.records = loaded]
  /\ UNCHANGED <<disk, payload, readerVars, reads, workerVars, indexVars, order>>

(***************************************************************************)
(* The callback of the payload.                                            *)
(***************************************************************************)
\* Initialization fails: the guard marks the index as finished.
PayloadFails(w) ==
  /\ At(w, "idle") /\ payload = "posted" /\ MayFail
  /\ payload' = "taken"
  /\ Goto(w, "setevent")
  /\ UNCHANGED <<disk, readerVars, reads, op, claim, calls, loop, indexVars,
                 waiterVars, order>>

SetEvent(w) ==
  /\ At(w, "setevent")
  /\ event' = TRUE
  /\ Goto(w, "setcode")
  /\ UNCHANGED <<disk, payload, readerVars, reads, op, claim, calls, loop, soFar,
                 loaded, expected, preprocessed, volume, code, cancelled,
                 waiterVars, order>>

SetCode(w) ==
  /\ At(w, "setcode")
  /\ code' = 1
  /\ Goto(w, "idle")
  /\ UNCHANGED <<disk, payload, readerVars, reads, op, claim, calls, loop, soFar,
                 loaded, expected, preprocessed, volume, event, cancelled,
                 waiterVars, order>>

\* Volume opened, chunk lists built, guard disarmed; queue_next() follows
\* kIoConcurrencyLevel times.
PayloadStarts(w) ==
  /\ At(w, "idle") /\ payload = "posted"
  /\ payload' = "taken"
  /\ volume' = TRUE
  /\ bits' = AllBits
  /\ bitmapLeft' = Len(BitmapChunks)
  /\ calls' = [calls EXCEPT ![w] = Concurrency]
  /\ Goto(w, "claimbitmap")
  /\ UNCHANGED <<disk, bitmapNext, dataNext, valid, skip, reads, op, claim, loop,
                 soFar, loaded, expected, preprocessed, event, code, cancelled,
                 waiterVars, order>>

(***************************************************************************)
(* queue_next(): claim a bitmap chunk, else a data chunk, and issue it.    *)
(***************************************************************************)
\* The end of queue_next(): the payload calls it again, or returns; the
\* callback of a read goes on to process its chunk.
Queued(w) ==
  /\ claim' = [claim EXCEPT ![w] = Nothing]
  /\ calls' = [calls EXCEPT ![w] = IF @ = 0 THEN 0 ELSE @ - 1]
  /\ Goto(w, CASE calls[w] > 1 -> "claimbitmap"
               [] calls[w] = 1 -> "idle"
               [] calls[w] = 0 -> "process")

\* fetch_add on next_bitmap_chunk_index_.
ClaimBitmap(w) ==
  /\ At(w, "claimbitmap")
  /\ bitmapNext' = bitmapNext + 1
  /\ IF bitmapNext < Len(BitmapChunks)
     THEN /\ claim' = [claim EXCEPT ![w] = [kind |-> "bitmap",
                                            chunk |-> bitmapNext + 1, begin |-> 0]]
          /\ Goto(w, "loadskip")
     ELSE /\ Goto(w, IF bitmapNext > Len(BitmapChunks) THEN "undobitmap" ELSE "claimdata")
          /\ UNCHANGED claim
  /\ UNCHANGED <<disk, payload, bitmapLeft, dataNext, valid, bits, skip, reads, op,
                 calls, loop, indexVars, waiterVars, order>>

\* fetch_sub, when the index had already passed the end.
UndoBitmap(w) ==
  /\ At(w, "undobitmap")
  /\ bitmapNext' = bitmapNext - 1
  /\ Goto(w, "claimdata")
  /\ UNCHANGED <<disk, payload, bitmapLeft, dataNext, valid, bits, skip, reads, op,
                 claim, calls, loop, indexVars, waiterVars, order>>

\* Mutant: the index is read and not advanced.
ClaimDataUnshared(w) ==
  /\ At(w, "claimdata") /\ dataNext < Len(DataChunks)
  /\ claim' = [claim EXCEPT ![w] = [kind |-> "data", chunk |-> dataNext + 1, begin |-> 0]]
  /\ Goto(w, "loadskip")
  /\ UNCHANGED <<disk, payload, readerVars, reads, op, calls, loop, indexVars,
                 waiterVars, order>>

ClaimData(w) ==
  /\ At(w, "claimdata")
  /\ dataNext' = dataNext + 1
  /\ IF dataNext < Len(DataChunks)
     THEN /\ claim' = [claim EXCEPT ![w] = [kind |-> "data",
                                            chunk |-> dataNext + 1, begin |-> 0]]
          /\ Goto(w, "loadskip")
          /\ UNCHANGED calls
     ELSE IF dataNext > Len(DataChunks)
          THEN Goto(w, "undodata") /\ UNCHANGED <<claim, calls>>
          ELSE Queued(w)
  /\ UNCHANGED <<disk, payload, bitmapNext, bitmapLeft, valid, bits, skip, reads,
                 op, loop, indexVars, waiterVars, order>>

\* Mutant: after the claim is undone, the claim is tried again.
UndoDataRetries(w) ==
  /\ At(w, "undodata")
  /\ dataNext' = dataNext - 1
  /\ Goto(w, "claimdata")
  /\ UNCHANGED <<disk, payload, bitmapNext, bitmapLeft, valid, bits, skip, reads,
                 op, claim, calls, loop, indexVars, waiterVars, order>>

UndoData(w) ==
  /\ At(w, "undodata")
  /\ dataNext' = dataNext - 1
  /\ Queued(w)
  /\ UNCHANGED <<disk, payload, bitmapNext, bitmapLeft, valid, bits, skip, reads,
                 op, loop, indexVars, waiterVars, order>>

\* issue_chunk_read(): skip_begin is loaded, then skip_end.
SkipOf(c) == IF c.kind = "data" THEN skip[c.chunk] ELSE [begin |-> 0, end |-> 0]

LoadSkipBegin(w) ==
  /\ At(w, "loadskip")
  /\ claim' = [claim EXCEPT ![w].begin = SkipOf(claim[w]).begin]
  /\ Goto(w, "issue")
  /\ UNCHANGED <<disk, payload, readerVars, reads, op, calls, loop, indexVars,
                 waiterVars, order>>

IssueRead(w) ==
  /\ At(w, "issue")
  /\ reads' = reads \cup
       {[kind |-> claim[w].kind, chunk |-> claim[w].chunk, begin |-> claim[w].begin,
         end |-> SkipOf(claim[w]).end, issued |-> FALSE]}
  /\ Queued(w)
  /\ UNCHANGED <<disk, payload, readerVars, op, loop, indexVars, waiterVars, order>>

(***************************************************************************)
(* The completion port: a worker issues a pending read; ReadFile needs an  *)
(* open volume unless there is nothing to read, and a failure ends the     *)
(* worker (IoCompletionPort!EnqueueFailed).                                *)
(***************************************************************************)
IsEmptyRead(r) == r.begin + r.end = ChunksOf(r.kind)[r.chunk].count

PortIssues(w, r) ==
  /\ At(w, "idle") /\ r \in reads /\ ~r.issued
  /\ IF volume \/ IsEmptyRead(r)
     THEN /\ reads' = (reads \ {r}) \cup {[r EXCEPT !.issued = TRUE]}
          /\ UNCHANGED pc
     ELSE /\ reads' = reads \ {r}
          /\ Goto(w, "dead")
  /\ UNCHANGED <<disk, payload, readerVars, op, claim, calls, loop, indexVars,
                 waiterVars, order>>

\* The callback of a read: nothing is done for a cancelled index, else the
\* next chunk is queued before this one is processed.
Complete(w, r) ==
  /\ At(w, "idle") /\ r \in reads /\ r.issued
  /\ reads' = reads \ {r}
  /\ IF cancelled
     THEN UNCHANGED <<pc, op>>
     ELSE /\ op' = [op EXCEPT ![w] = r]
          /\ Goto(w, "claimbitmap")
  /\ UNCHANGED <<disk, payload, readerVars, claim, calls, loop, indexVars,
                 waiterVars, order>>

(***************************************************************************)
(* process_bitmap_chunk().                                                 *)
(***************************************************************************)
\* The records whose bits the chunk of a read brings into mft_bitmap_: none
\* beyond the capacity, and whole bytes only.
BitsCopied(r) ==
  LET c == BitmapChunks[r.chunk]
      offset == c.vcn * ClusterSize
      size == c.count * ClusterSize
      limit == Capacity[disk] \div BitsPerByte
      bytes == IF offset + size > limit THEN limit - offset ELSE size
  IN  IF offset * BitsPerByte > Capacity[disk] THEN {}
      ELSE offset * BitsPerByte .. (offset + bytes) * BitsPerByte - 1

CopyBitmap(w) ==
  /\ At(w, "process") /\ op[w].kind = "bitmap"
  /\ bits' = (bits \ BitsCopied(op[w])) \cup (disk \cap BitsCopied(op[w]))
  /\ valid' = valid + Cardinality(disk \cap BitsCopied(op[w]))
  /\ Goto(w, "countdown")
  /\ UNCHANGED <<disk, payload, bitmapNext, bitmapLeft, dataNext, skip, reads, op,
                 claim, calls, loop, indexVars, waiterVars, order>>

\* check_if_last_bitmap_chunk(): the callback that takes the counter from 1
\* to 0 reserves the index and goes on to the skip ranges.
CountDown(w) ==
  /\ At(w, "countdown")
  /\ bitmapLeft' = bitmapLeft - 1
  /\ IF bitmapLeft = 1
     THEN /\ valid' = 0 /\ expected' = valid
          /\ loop' = [loop EXCEPT ![w] = 1]
          /\ Goto(w, "skipbegin")
          /\ UNCHANGED op
     ELSE /\ op' = [op EXCEPT ![w] = NoRead]
          /\ Goto(w, "idle")
          /\ UNCHANGED <<valid, expected, loop>>
  /\ UNCHANGED <<disk, payload, bitmapNext, dataNext, bits, skip, reads, claim,
                 calls, soFar, loaded, preprocessed, volume, event, code, cancelled,
                 waiterVars, order>>

\* calculate_all_skip_ranges(), two atomic stores for every data chunk.
StoreSkipBegin(w) ==
  /\ At(w, "skipbegin")
  /\ skip' = [skip EXCEPT ![loop[w]].begin = SkipBegin(bits, DataChunks[loop[w]])]
  /\ Goto(w, "skipend")
  /\ UNCHANGED <<disk, payload, bitmapNext, bitmapLeft, dataNext, valid, bits, reads,
                 op, claim, calls, loop, indexVars, waiterVars, order>>

StoreSkipEnd(w) ==
  /\ At(w, "skipend")
  /\ skip' = [skip EXCEPT ![loop[w]].end = SkipEnd(bits, DataChunks[loop[w]])]
  /\ IF loop[w] < Len(DataChunks)
     THEN /\ loop' = [loop EXCEPT ![w] = @ + 1]
          /\ Goto(w, "skipbegin")
          /\ UNCHANGED op
     ELSE /\ loop' = [loop EXCEPT ![w] = 0]
          /\ op' = [op EXCEPT ![w] = NoRead]
          /\ Goto(w, "idle")
  /\ UNCHANGED <<disk, payload, bitmapNext, bitmapLeft, dataNext, valid, bits, reads,
                 claim, calls, indexVars, waiterVars, order>>

(***************************************************************************)
(* process_data_chunk(): load() under the lock of the index.  It finishes  *)
(* the index when the count of records, skipped ones included, reaches the *)
(* capacity: sizes are accumulated, the volume is closed and the event is  *)
(* set; otherwise the event is reset.                                      *)
(***************************************************************************)
\* Mutant: an index that has already been finished does not count as finished.
FinishOnce(finished) ==
  /\ preprocessed' = IF finished THEN preprocessed + 1 ELSE preprocessed
  /\ volume' = (volume /\ ~finished)
  /\ event' = (finished /\ volume)

Finish(finished) ==
  /\ preprocessed' = IF finished THEN preprocessed + 1 ELSE preprocessed
  /\ volume' = (volume /\ ~finished)
  /\ event' = finished

Load(w) ==
  /\ At(w, "process") /\ op[w].kind = "data"
  /\ LET c == DataChunks[op[w].chunk]
         buffer == RecordsRead(c, op[w].begin, op[w].end)
         count == soFar + RecordsSkipped(op[w].begin, op[w].end) + Cardinality(buffer)
     IN  /\ loaded' = loaded \cup (disk \cap buffer)
         /\ soFar' = count
         /\ Finish(count >= Capacity[disk])
  /\ order' = Append(order, op[w].chunk)
  /\ op' = [op EXCEPT ![w] = NoRead]
  /\ Goto(w, "idle")
  /\ UNCHANGED <<disk, payload, readerVars, reads, claim, calls, loop, expected,
                 code, cancelled, waiterVars>>
-----------------------------------------------------------------------------
Callback(w) ==
  \/ SetEvent(w) \/ SetCode(w)
  \/ ClaimBitmap(w) \/ UndoBitmap(w) \/ ClaimData(w) \/ UndoData(w)
  \/ LoadSkipBegin(w) \/ IssueRead(w)
  \/ CopyBitmap(w) \/ CountDown(w) \/ StoreSkipBegin(w) \/ StoreSkipEnd(w)
  \/ Load(w)

Payload(w) == PayloadFails(w) \/ PayloadStarts(w)
Port(w) == \E r \in reads : PortIssues(w, r) \/ Complete(w, r)
Owner == PostPayload \/ Cancel \/ Wake \/ CheckCode \/ Search

Next == Owner \/ \E w \in Workers : Callback(w) \/ Payload(w) \/ Port(w)

Spec == Init /\ [][Next]_vars

\* Every worker runs, the port issues and completes every read it holds, and
\* the waiting owner is woken by the event.
Fairness ==
  /\ \A w \in Workers : WF_vars(Callback(w))
  /\ WF_vars(\E w \in Workers : Payload(w))
  /\ WF_vars(\E w \in Workers : Port(w))
  /\ WF_vars(Wake \/ CheckCode \/ Search)

FairSpec == Spec /\ Fairness
-----------------------------------------------------------------------------
(***************************************************************************)
(* Properties.                                                             *)
(***************************************************************************)
\* Where the data chunk c is: claimed by a callback that has not issued the
\* read yet, held by the port, in a callback, or loaded.
Holders(c) ==
  Cardinality({w \in Workers : claim[w].kind = "data" /\ claim[w].chunk = c})
  + Cardinality({r \in reads : r.kind = "data" /\ r.chunk = c})
  + Cardinality({w \in Workers : op[w].kind = "data" /\ op[w].chunk = c})
  + Cardinality({i \in DOMAIN order : order[i] = c})

\* Every data chunk the shared index has passed is in exactly one place until
\* it is loaded, and a chunk it has not reached is nowhere: no chunk is read
\* or loaded twice and none is lost between two callbacks (a cancelled index
\* lets go of the chunks whose reads complete, and a closed volume of the chunk
\* whose read costs a worker its life).  "Index overflow - decrement to
\* prevent unbounded growth": whatever the number of callbacks, a shared index
\* exceeds the chunk count by at most one for the first failed claim and one
\* for every worker about to undo its own.
ChunkAccounting ==
  /\ \A c \in DOMAIN DataChunks :
       IF cancelled \/ (\E w \in Workers : pc[w] = "dead") THEN Holders(c) =< 1
       ELSE Holders(c) = IF c =< dataNext THEN 1 ELSE 0
  /\ bitmapNext =< Len(BitmapChunks) + 1 + Cardinality(Workers)
  /\ dataNext =< Len(DataChunks) + 1 + Cardinality(Workers)

\* Skipping loses nothing: a data read covers every in-use record of its
\* chunk, although skip_begin and skip_end are loaded one after the other
\* while another worker stores them; and its length never underflows: no pair
\* of skip values, half stored ones included, skips more than the chunk has.
NoUsedRecordSkipped ==
  \A r \in reads \cup {op[w] : w \in Workers} : r.kind = "data" =>
    /\ disk \cap RecordsOf(DataChunks[r.chunk])
         \subseteq RecordsRead(DataChunks[r.chunk], r.begin, r.end)
    /\ r.begin + r.end =< DataChunks[r.chunk].count

\* ntfs_index_load.hpp:468: the preprocessor runs (and the volume is closed)
\* once, and after every in-use record has been parsed.
PreprocessedAfterAll ==
  preprocessed =< 1 /\ (preprocessed > 0 => loaded = disk)

\* The extents of $DATA have no room beyond the valid records.
NoSlack == Capacity[disk] = Cardinality(UNION {RecordsOf(DataChunks[c]) : c \in DOMAIN DataChunks})

\* With such an MFT the preprocessor does run once and after the last record,
\* in whatever order the chunks complete and whatever their skip ranges.
PreprocessedAtTheEnd == NoSlack => PreprocessedAfterAll

\* A search that follows the event sees every in-use record of such an MFT, or
\* none if the payload has failed before it read any: never an index that is
\* half read.
SearchSeesAll ==
  waiter = "searched" /\ NoSlack =>
    seen.records = disk \/ (seen.records = {} /\ ~volume /\ preprocessed = 0)

\* SetEvent is never undone by the ResetEvent of a later load(), although slack
\* lets the index finish before its last chunk is loaded.
EventStays == [][event => event']_vars

\* An index whose payload was posted gets finished, and is searched or known
\* to have failed, unless the owner cancels it.
Finishes == (payload = "posted") ~> (waiter \in {"searched", "refused"} \/ cancelled)

\* The pipeline drains, also when the index is cancelled at any moment: from
\* some point on every callback has returned for good, and no read is left
\* unless the closed volume has cost the port its last worker.
Drains == (payload = "posted") ~>
  [](/\ \A w \in Workers : pc[w] \in {"idle", "dead"}
     /\ reads = {} \/ \A w \in Workers : pc[w] = "dead")
=============================================================================
