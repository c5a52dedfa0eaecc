-------------------------- MODULE MftReaderProofs ---------------------------
(***************************************************************************)
(* The MFT reader for any number of workers and of concurrent reads, any   *)
(* extents and any bitmap, with failures and cancellation at any moment:   *)
(*   - a data chunk is never in two places, none is lost while the volume  *)
(*     is open and nobody cancels, and the shared indices stay near the    *)
(*     ends of the lists;                                                  *)
(*   - a read that skips clusters covers every record in use of its chunk; *)
(*   - the preprocessor runs once and over a complete index, a search that *)
(*     follows the event finds it complete, and the event stays set.       *)
(***************************************************************************)
EXTENDS MftReader, SequenceLemmas

-----------------------------------------------------------------------------
(***************************************************************************)
(* What calculate_all_skip_ranges() stores are natural numbers.            *)
(***************************************************************************)
LEMMA ChunkTypes ==
  /\ DataChunks \in Seq([vcn : Nat, count : Nat \ {0}])
  /\ BitmapChunks \in Seq([vcn : Nat, count : Nat \ {0}])
  /\ Len(DataChunks) \in Nat /\ DOMAIN DataChunks = 1 .. Len(DataChunks)
  /\ Len(BitmapChunks) \in Nat /\ DOMAIN BitmapChunks = 1 .. Len(BitmapChunks)
  /\ \A c \in DOMAIN DataChunks : DataChunks[c] \in [vcn : Nat, count : Nat \ {0}]
<1> DEFINE Chunk == [vcn : Nat, count : Nat \ {0}]
<1>1. DataChunks \in Seq(Chunk) /\ BitmapChunks \in Seq(Chunk)
  BY ChunkListsAssumption
<1> HIDE DEF Chunk
<1>2. /\ Len(DataChunks) \in Nat /\ DOMAIN DataChunks = 1 .. Len(DataChunks)
      /\ Len(BitmapChunks) \in Nat /\ DOMAIN BitmapChunks = 1 .. Len(BitmapChunks)
      /\ \A c \in DOMAIN DataChunks : DataChunks[c] \in Chunk
  BY <1>1
<1> QED BY <1>1, <1>2, Zenon DEF Chunk

LEMMA QuotientType ==
  ASSUME NEW a \in Nat, NEW b \in Nat, NEW c \in Nat \ {0}
  PROVE  (a * b) \div c \in Nat
<1>1. a * b \in Nat
  OBVIOUS
<1> HIDE <1>1
<1> DEFINE p == a * b
<1>2. p \in Nat
  BY <1>1
<1> HIDE DEF p
<1>3. p \div c \in Nat
  BY <1>2
<1> QED BY <1>3 DEF p

LEMMA SkipTypes ==
  ASSUME NEW c \in [vcn : Nat, count : Nat \ {0}], NEW B
  PROVE  SkipBegin(B, c) \in Nat /\ SkipEnd(B, c) \in Nat
<1> DEFINE first == FirstRecord(c)
           n == RecordCount(c)
           begin == FindFirstSet(B, first, n)
           end == FindLastSet(B, first, n, begin)
<1>0. ClusterSize \in Nat \ {0} /\ RecordSize \in Nat \ {0}
  BY SizesAssumption
<1>1. first \in Nat /\ n \in Nat
  BY <1>0, QuotientType DEF FirstRecord, RecordCount
<1> HIDE DEF first, n
<1>2. begin \in 0 .. n
  <2> DEFINE T == {i \in 0 .. n - 1 : first + i \in B} \cup {n}
  <2>1. T \in SUBSET (0 .. n) /\ T # {}
    BY <1>1
  <2>2. Min(T) \in T
    <3> HIDE DEF T
    <3> QED BY <1>1, <2>1, SmallestExists
  <2> QED BY <2>1, <2>2 DEF FindFirstSet
<1> HIDE DEF begin
<1>3. end \in Nat
  <2> DEFINE T == {i \in 0 .. n - begin - 1 : first + n - 1 - i \in B} \cup {n - begin}
  <2>1. T \in SUBSET (0 .. n) /\ T # {}
    BY <1>1, <1>2
  <2>2. Min(T) \in T
    <3> HIDE DEF T
    <3> QED BY <1>1, <2>1, SmallestExists
  <2> QED BY <2>1, <2>2 DEF FindLastSet
<1> HIDE DEF end
<1>4. (begin * RecordSize) \div ClusterSize \in Nat
  BY <1>0, <1>1, <1>2, QuotientType
<1>5. (end * RecordSize) \div ClusterSize \in Nat
  BY <1>0, <1>3, QuotientType
<1> QED BY <1>4, <1>5 DEF SkipBegin, SkipEnd, begin, end, first, n

-----------------------------------------------------------------------------
(***************************************************************************)
(* Types, and what a worker holds at each point of its callback: a claim   *)
(* between taking and issuing it, the read it completes until that is      *)
(* processed, and no read while it runs the payload.                       *)
(***************************************************************************)
Points == {"idle", "dead", "setevent", "setcode", "claimbitmap", "undobitmap",
           "claimdata", "undodata", "loadskip", "issue", "process", "countdown",
           "skipbegin", "skipend"}

TypeInv ==
  /\ bitmapNext \in Nat /\ dataNext \in Nat
  /\ skip \in [DOMAIN DataChunks -> [begin : Nat, end : Nat]]
  /\ reads \subseteq ReadOps /\ IsFiniteSet(reads)
  /\ pc \in [Workers -> Points]
  /\ op \in [Workers -> ReadOps \cup {NoRead}]
  /\ claim \in [Workers -> Claims]
  /\ calls \in [Workers -> Nat]
  /\ order \in Seq(Nat)

LocalInv ==
  \A w \in Workers :
    /\ claim[w].kind # "none" <=> pc[w] \in {"loadskip", "issue"}
    /\ claim[w].kind = "data" => claim[w].chunk \in DOMAIN DataChunks
    /\ pc[w] \in {"idle", "dead", "setevent", "setcode"} => op[w].kind = "none"
    /\ pc[w] \in {"idle", "dead", "setevent", "setcode", "process", "countdown",
                  "skipbegin", "skipend"} => calls[w] = 0
    /\ pc[w] \in {"process", "countdown", "skipbegin", "skipend"} => op[w].kind # "none"
    /\ pc[w] \in {"countdown", "skipbegin", "skipend"} => op[w].kind = "bitmap"
    /\ calls[w] > 0 => op[w].kind = "none"
    /\ op[w].kind = "none" => calls[w] > 0 \/ pc[w] \in {"idle", "dead", "setevent", "setcode"}

\* Workers about to undo a claim beyond the end are what a shared index is too
\* large by.
Undoing(point) == {w \in Workers : pc[w] = point}

Overrun(next, length, point) ==
  IF next =< length THEN Undoing(point) = {} ELSE next = length + 1 + Cardinality(Undoing(point))

IndexInv ==
  /\ Overrun(bitmapNext, Len(BitmapChunks), "undobitmap")
  /\ Overrun(dataNext, Len(DataChunks), "undodata")

\* The end of queue_next() in every case.
LEMMA QueuedEffect ==
  ASSUME TypeInv, NEW w \in Workers, Queued(w)
  PROVE  /\ claim' = [claim EXCEPT ![w] = Nothing]
         /\ calls' \in [Workers -> Nat]
         /\ \A v \in Workers : v # w => calls'[v] = calls[v]
         /\ calls[w] = 0 => calls'[w] = 0 /\ pc' = [pc EXCEPT ![w] = "process"]
         /\ calls[w] = 1 => calls'[w] = 0 /\ pc' = [pc EXCEPT ![w] = "idle"]
         /\ calls[w] > 1 => calls'[w] > 0 /\ pc' = [pc EXCEPT ![w] = "claimbitmap"]
<1>1. calls \in [Workers -> Nat] /\ calls[w] \in Nat
  BY DEF TypeInv
<1>2. calls' = [calls EXCEPT ![w] = IF calls[w] = 0 THEN 0 ELSE calls[w] - 1]
  BY DEF Queued
<1>3. calls' \in [Workers -> Nat] /\ \A v \in Workers : v # w => calls'[v] = calls[v]
  BY <1>1, <1>2
<1>4. /\ calls[w] = 0 => calls'[w] = 0
      /\ calls[w] = 1 => calls'[w] = 0
      /\ calls[w] > 1 => calls'[w] > 0
  BY <1>1, <1>2
<1>5. calls[w] = 0 => pc' = [pc EXCEPT ![w] = "process"]
  BY DEF Queued, Goto
<1>6. calls[w] = 1 => pc' = [pc EXCEPT ![w] = "idle"]
  BY DEF Queued, Goto
<1>7. ASSUME calls[w] > 1 PROVE pc' = [pc EXCEPT ![w] = "claimbitmap"]
  <2>1. (calls[w] > 1) = TRUE /\ (calls[w] = 1) = FALSE /\ (calls[w] = 0) = FALSE
    BY <1>1, <1>7
  <2>2. (CASE calls[w] > 1 -> "claimbitmap" [] calls[w] = 1 -> "idle"
           [] calls[w] = 0 -> "process") = "claimbitmap"
    BY <2>1, Zenon
  <2> QED BY <2>2 DEF Queued, Goto
<1>8. claim' = [claim EXCEPT ![w] = Nothing]
  BY DEF Queued
<1> QED BY <1>3, <1>4, <1>5, <1>6, <1>7, <1>8

LEMMA QueuedGoes ==
  ASSUME TypeInv, NEW w \in Workers, Queued(w)
  PROVE  /\ claim' = [claim EXCEPT ![w] = Nothing]
         /\ \E q \in {"claimbitmap", "idle", "process"} : pc' = [pc EXCEPT ![w] = q]
<1>1. calls[w] \in Nat
  BY DEF TypeInv
<1>2. calls[w] = 0 \/ calls[w] = 1 \/ calls[w] > 1
  BY <1>1
<1> QED BY <1>2, QueuedEffect

chunkVars == <<bitmapNext, dataNext, skip, reads, pc, op, claim, calls, order>>

LEMMA OwnerEffect ==
  ASSUME Owner
  PROVE  UNCHANGED chunkVars /\ (cancelled => cancelled')
<1> USE DEF chunkVars, readerVars, workerVars, indexVars
<1>1. CASE PostPayload
  BY <1>1 DEF PostPayload
<1>2. CASE Cancel
  BY <1>2 DEF Cancel
<1>3. CASE Wake
  BY <1>3 DEF Wake
<1>4. CASE CheckCode
  BY <1>4 DEF CheckCode
<1>5. CASE Search
  BY <1>5 DEF Search
<1> QED BY <1>1, <1>2, <1>3, <1>4, <1>5 DEF Owner

\* Types are kept.
LEMMA NextType ==
  ASSUME TypeInv, LocalInv, IndexInv, [Next]_vars
  PROVE  TypeInv'
<1> USE DEF TypeInv, At, Goto, readerVars, workerVars, indexVars
<1>1. CASE Owner
  BY <1>1, OwnerEffect DEF chunkVars
<1>2. CASE UNCHANGED vars
  BY <1>2 DEF vars
<1>3. ASSUME NEW w \in Workers, SetEvent(w) \/ SetCode(w) \/ PayloadFails(w) PROVE TypeInv'
  BY <1>3 DEF SetEvent, SetCode, PayloadFails, Points
<1>4. ASSUME NEW w \in Workers, PayloadStarts(w) PROVE TypeInv'
  BY <1>4, ReaderAssumption DEF PayloadStarts, Points
<1>5. ASSUME NEW w \in Workers, ClaimBitmap(w) PROVE TypeInv'
  <2>1. [kind |-> "bitmap", chunk |-> bitmapNext + 1, begin |-> 0] \in Claims
    BY DEF Claims
  <2>2. claim' \in [Workers -> Claims]
    BY <1>5, <2>1 DEF ClaimBitmap
  <2>3. pc' \in [Workers -> Points]
    BY <1>5 DEF ClaimBitmap, Points
  <2> QED BY <1>5, <2>2, <2>3 DEF ClaimBitmap
<1>6. ASSUME NEW w \in Workers, UndoBitmap(w) PROVE TypeInv'
  <2>1. pc' \in [Workers -> Points]
    BY <1>6 DEF UndoBitmap, Points
  <2>2. bitmapNext - 1 \in Nat
    <3>1. w \in Undoing("undobitmap")
      BY <1>6 DEF UndoBitmap, Undoing
    <3>2. ~(bitmapNext =< Len(BitmapChunks))
      BY <3>1 DEF IndexInv, Overrun
    <3> QED BY <3>2, ChunkTypes
  <2> QED BY <1>6, <2>1, <2>2 DEF UndoBitmap
<1>7. ASSUME NEW w \in Workers, ClaimData(w) PROVE TypeInv'
  <2>1. CASE dataNext < Len(DataChunks)
    <3>1. [kind |-> "data", chunk |-> dataNext + 1, begin |-> 0] \in Claims
      BY DEF Claims
    <3>2. claim' \in [Workers -> Claims] /\ calls' = calls
      BY <1>7, <2>1, <3>1 DEF ClaimData
    <3>3. pc' \in [Workers -> Points]
      BY <1>7, <2>1 DEF ClaimData, Points
    <3> QED BY <1>7, <3>2, <3>3 DEF ClaimData
  <2>2. CASE dataNext > Len(DataChunks)
    <3>1. ~(dataNext < Len(DataChunks))
      BY <2>2, ChunkTypes
    <3>2. claim' = claim /\ calls' = calls /\ pc' = [pc EXCEPT ![w] = "undodata"]
      BY <1>7, <2>2, <3>1 DEF ClaimData
    <3>3. pc' \in [Workers -> Points]
      BY <3>2 DEF Points
    <3> QED BY <1>7, <3>2, <3>3 DEF ClaimData
  <2>3. CASE ~(dataNext < Len(DataChunks)) /\ ~(dataNext > Len(DataChunks))
    <3>1. Queued(w)
      BY <1>7, <2>3 DEF ClaimData
    <3>2. pc' \in [Workers -> Points]
      BY <3>1 DEF Queued, Points
    <3>3. claim' \in [Workers -> Claims]
      BY <3>1 DEF Queued, Claims
    <3> QED BY <1>7, <3>1, <3>2, <3>3, QueuedEffect DEF ClaimData
  <2> QED BY <2>1, <2>2, <2>3
<1>8. ASSUME NEW w \in Workers, UndoData(w) PROVE TypeInv'
  <2>1. Queued(w)
    BY <1>8 DEF UndoData
  <2>2. pc' \in [Workers -> Points]
    BY <2>1 DEF Queued, Points
  <2>3. claim' \in [Workers -> Claims]
    BY <2>1 DEF Queued, Claims
  <2>4. dataNext - 1 \in Nat
    <3>1. w \in Undoing("undodata")
      BY <1>8 DEF UndoData, Undoing
    <3>2. ~(dataNext =< Len(DataChunks))
      BY <3>1 DEF IndexInv, Overrun
    <3> QED BY <3>2, ChunkTypes
  <2> QED BY <1>8, <2>1, <2>2, <2>3, <2>4, QueuedEffect DEF UndoData
<1>9. ASSUME NEW w \in Workers, claim[w].kind = "data"
      PROVE  SkipOf(claim[w]).begin \in Nat /\ SkipOf(claim[w]).end \in Nat
  BY <1>9 DEF SkipOf, LocalInv
<1>10. ASSUME NEW w \in Workers
       PROVE  SkipOf(claim[w]).begin \in Nat /\ SkipOf(claim[w]).end \in Nat
  BY <1>9 DEF SkipOf
<1>11. ASSUME NEW w \in Workers, LoadSkipBegin(w) PROVE TypeInv'
  <2>1. claim[w].kind # "none"
    BY <1>11 DEF LoadSkipBegin, LocalInv
  <2>2. claim[w] \in [kind : {"bitmap", "data"}, chunk : Nat, begin : Nat]
    BY <2>1 DEF Claims, Nothing
  <2>3. [claim[w] EXCEPT !.begin = SkipOf(claim[w]).begin] \in Claims
    BY <1>10, <2>2 DEF Claims
  <2>4. claim' = [claim EXCEPT ![w] = [claim[w] EXCEPT !.begin = SkipOf(claim[w]).begin]]
    BY <1>11 DEF LoadSkipBegin
  <2>5. pc' \in [Workers -> Points]
    BY <1>11 DEF LoadSkipBegin, Points
  <2> QED BY <1>11, <2>3, <2>4, <2>5 DEF LoadSkipBegin
<1>12. ASSUME NEW w \in Workers, IssueRead(w) PROVE TypeInv'
  <2>1. Queued(w)
    BY <1>12 DEF IssueRead
  <2>2. pc' \in [Workers -> Points]
    BY <2>1 DEF Queued, Points
  <2>3. claim' \in [Workers -> Claims]
    BY <2>1 DEF Queued, Claims
  <2>4. claim[w] \in [kind : {"bitmap", "data"}, chunk : Nat, begin : Nat]
    BY <1>12 DEF IssueRead, LocalInv, Claims, Nothing
  <2>5. [kind |-> claim[w].kind, chunk |-> claim[w].chunk, begin |-> claim[w].begin,
         end |-> SkipOf(claim[w]).end, issued |-> FALSE] \in ReadOps
    BY <1>10, <2>4 DEF ReadOps
  <2>6. reads' \subseteq ReadOps /\ IsFiniteSet(reads')
    BY <1>12, <2>5, FS_AddElement DEF IssueRead
  <2> QED BY <1>12, <2>1, <2>2, <2>3, <2>6, QueuedEffect DEF IssueRead
<1>13. ASSUME NEW w \in Workers, CopyBitmap(w) PROVE TypeInv'
  BY <1>13 DEF CopyBitmap, Points
<1>14. ASSUME NEW w \in Workers, CountDown(w) PROVE TypeInv'
  <2>1. op' \in [Workers -> ReadOps \cup {NoRead}]
    BY <1>14 DEF CountDown
  <2>2. pc' \in [Workers -> Points]
    BY <1>14 DEF CountDown, Points
  <2> QED BY <1>14, <2>1, <2>2 DEF CountDown
<1>15. ASSUME NEW w \in Workers, StoreSkipBegin(w) PROVE TypeInv'
  <2>1. pc' \in [Workers -> Points]
    BY <1>15 DEF StoreSkipBegin, Points
  <2>2. skip' \in [DOMAIN DataChunks -> [begin : Nat, end : Nat]]
    <3>1. skip' = [skip EXCEPT ![loop[w]].begin = SkipBegin(bits, DataChunks[loop[w]])]
      BY <1>15 DEF StoreSkipBegin
    <3>2. loop[w] \in DOMAIN DataChunks => SkipBegin(bits, DataChunks[loop[w]]) \in Nat
      BY ChunkTypes, SkipTypes
    <3> QED BY <3>1, <3>2
  <2> QED BY <1>15, <2>1, <2>2 DEF StoreSkipBegin
<1>16. ASSUME NEW w \in Workers, StoreSkipEnd(w) PROVE TypeInv'
  <2>1. pc' \in [Workers -> Points] /\ op' \in [Workers -> ReadOps \cup {NoRead}]
    BY <1>16 DEF StoreSkipEnd, Points
  <2>2. skip' \in [DOMAIN DataChunks -> [begin : Nat, end : Nat]]
    <3>1. skip' = [skip EXCEPT ![loop[w]].end = SkipEnd(bits, DataChunks[loop[w]])]
      BY <1>16 DEF StoreSkipEnd
    <3>2. loop[w] \in DOMAIN DataChunks => SkipEnd(bits, DataChunks[loop[w]]) \in Nat
      BY ChunkTypes, SkipTypes
    <3> QED BY <3>1, <3>2
  <2> QED BY <1>16, <2>1, <2>2 DEF StoreSkipEnd
<1>17. ASSUME NEW w \in Workers, Load(w) PROVE TypeInv'
  <2>1. op[w] \in ReadOps /\ op[w].chunk \in Nat
    BY <1>17 DEF Load, ReadOps, NoRead
  <2>2. order' \in Seq(Nat)
    BY <1>17, <2>1 DEF Load
  <2>3. pc' \in [Workers -> Points] /\ op' \in [Workers -> ReadOps \cup {NoRead}]
    BY <1>17 DEF Load, Points
  <2> QED BY <1>17, <2>2, <2>3 DEF Load
<1>18. ASSUME NEW w \in Workers, NEW r \in reads, PortIssues(w, r) PROVE TypeInv'
  <2>1. pc' \in [Workers -> Points]
    BY <1>18 DEF PortIssues, Points
  <2>2. [r EXCEPT !.issued = TRUE] \in ReadOps
    BY DEF ReadOps
  <2>3. reads' \subseteq ReadOps /\ IsFiniteSet(reads')
    <3>1. IsFiniteSet(reads \ {r}) /\ IsFiniteSet((reads \ {r}) \cup {[r EXCEPT !.issued = TRUE]})
      BY FS_AddElement, FS_RemoveElement
    <3> QED BY <1>18, <2>2, <3>1 DEF PortIssues
  <2> QED BY <1>18, <2>1, <2>3 DEF PortIssues
<1>19. ASSUME NEW w \in Workers, NEW r \in reads, Complete(w, r) PROVE TypeInv'
  <2>1. pc' \in [Workers -> Points] /\ op' \in [Workers -> ReadOps \cup {NoRead}]
    BY <1>19 DEF Complete, Points
  <2>2. reads' \subseteq ReadOps /\ IsFiniteSet(reads')
    BY <1>19, FS_RemoveElement DEF Complete
  <2> QED BY <1>19, <2>1, <2>2 DEF Complete
<1> HIDE DEF TypeInv
<1> QED BY <1>1, <1>2, <1>3, <1>4, <1>5, <1>6, <1>7, <1>8, <1>11, <1>12, <1>13, <1>14, <1>15,
           <1>16, <1>17, <1>18, <1>19 DEF Next, Callback, Payload, Port

\* What a worker holds stays in step with its point.
LEMMA NextLocal ==
  ASSUME TypeInv, LocalInv, [Next]_vars
  PROVE  LocalInv'
<1> DEFINE LI(v) ==
    /\ claim[v].kind # "none" <=> pc[v] \in {"loadskip", "issue"}
    /\ claim[v].kind = "data" => claim[v].chunk \in DOMAIN DataChunks
    /\ pc[v] \in {"idle", "dead", "setevent", "setcode"} => op[v].kind = "none"
    /\ pc[v] \in {"idle", "dead", "setevent", "setcode", "process", "countdown",
                  "skipbegin", "skipend"} => calls[v] = 0
    /\ pc[v] \in {"process", "countdown", "skipbegin", "skipend"} => op[v].kind # "none"
    /\ pc[v] \in {"countdown", "skipbegin", "skipend"} => op[v].kind = "bitmap"
    /\ calls[v] > 0 => op[v].kind = "none"
    /\ op[v].kind = "none" => calls[v] > 0 \/ pc[v] \in {"idle", "dead", "setevent", "setcode"}
<1>0. /\ pc \in [Workers -> Points] /\ op \in [Workers -> ReadOps \cup {NoRead}]
      /\ claim \in [Workers -> Claims] /\ calls \in [Workers -> Nat]
      /\ dataNext \in Nat /\ bitmapNext \in Nat
  BY DEF TypeInv
<1>1. \A v \in Workers : LI(v)
  BY DEF LocalInv
<1>2. ASSUME NEW w \in Workers,
             \A v \in Workers : v # w => /\ pc'[v] = pc[v] /\ op'[v] = op[v]
                                         /\ claim'[v] = claim[v] /\ calls'[v] = calls[v],
             LI(w)'
      PROVE  LocalInv'
  <2>1. \A v \in Workers : v # w => LI(v)'
    BY <1>1, <1>2
  <2>2. \A v \in Workers : LI(v)'
    <3> HIDE DEF LI
    <3> QED BY <1>2, <2>1
  <2> QED BY <2>2 DEF LocalInv
<1>3. ASSUME NEW w \in Workers, op' = op, Queued(w),
             pc[w] \in {"issue", "claimdata", "undodata"}
      PROVE  LocalInv'
  <2>1. /\ claim' = [claim EXCEPT ![w] = Nothing]
        /\ calls' \in [Workers -> Nat]
        /\ \A v \in Workers : v # w => calls'[v] = calls[v]
        /\ calls[w] = 0 => calls'[w] = 0 /\ pc' = [pc EXCEPT ![w] = "process"]
        /\ calls[w] = 1 => calls'[w] = 0 /\ pc' = [pc EXCEPT ![w] = "idle"]
        /\ calls[w] > 1 => calls'[w] > 0 /\ pc' = [pc EXCEPT ![w] = "claimbitmap"]
    BY <1>3, QueuedEffect
  <2>2. calls[w] \in Nat /\ LI(w)
    BY <1>0, <1>1
  <2>3. claim'[w].kind = "none"
    BY <1>0, <2>1 DEF Nothing
  <2>4. CASE calls[w] = 0
    <3>1. LI(w)'
      BY <1>0, <1>3, <2>1, <2>2, <2>3, <2>4
    <3> HIDE DEF LI
    <3> QED BY <1>0, <1>2, <1>3, <2>1, <2>4, <3>1
  <2>5. CASE calls[w] = 1
    <3>1. LI(w)'
      BY <1>0, <1>3, <2>1, <2>2, <2>3, <2>5
    <3> HIDE DEF LI
    <3> QED BY <1>0, <1>2, <1>3, <2>1, <2>5, <3>1
  <2>6. CASE calls[w] > 1
    <3>1. LI(w)'
      BY <1>0, <1>3, <2>1, <2>2, <2>3, <2>6
    <3> HIDE DEF LI
    <3> QED BY <1>0, <1>2, <1>3, <2>1, <2>6, <3>1
  <2> QED BY <2>2, <2>4, <2>5, <2>6
<1> USE DEF At, Goto, readerVars, workerVars, indexVars
<1>4. CASE Owner \/ UNCHANGED vars
  <2>1. pc' = pc /\ op' = op /\ claim' = claim /\ calls' = calls
    BY <1>4, OwnerEffect DEF chunkVars, vars
  <2> QED BY <1>1, <2>1 DEF LocalInv
<1>5. ASSUME NEW w \in Workers,
             SetEvent(w) \/ SetCode(w) \/ PayloadFails(w) \/ UndoBitmap(w) \/ CopyBitmap(w)
               \/ StoreSkipBegin(w)
      PROVE  LocalInv'
  <2>1. /\ op' = op /\ claim' = claim /\ calls' = calls
        /\ \E q \in Points : pc' = [pc EXCEPT ![w] = q]
    BY <1>5 DEF SetEvent, SetCode, PayloadFails, UndoBitmap, CopyBitmap, StoreSkipBegin, Points
  <2>2. LI(w)'
    BY <1>0, <1>1, <1>5 DEF SetEvent, SetCode, PayloadFails, UndoBitmap, CopyBitmap, StoreSkipBegin
  <2> HIDE DEF LI
  <2> QED BY <1>0, <1>2, <2>1, <2>2
<1>6. ASSUME NEW w \in Workers, PayloadStarts(w) PROVE LocalInv'
  <2>0. /\ calls' = [calls EXCEPT ![w] = Concurrency] /\ claim' = claim /\ op' = op
        /\ pc[w] = "idle" /\ pc' = [pc EXCEPT ![w] = "claimbitmap"]
    BY <1>6 DEF PayloadStarts
  <2>1. LI(w)'
    <3>1. calls'[w] > 0 /\ pc'[w] = "claimbitmap"
      BY <1>0, <2>0, ReaderAssumption
    <3> QED BY <1>0, <1>1, <2>0, <3>1
  <2> HIDE DEF LI
  <2> QED BY <1>0, <1>2, <1>6, <2>1 DEF PayloadStarts
<1>7. ASSUME NEW w \in Workers, ClaimBitmap(w) PROVE LocalInv'
  <2>1. CASE bitmapNext < Len(BitmapChunks)
    <3>1. /\ claim' = [claim EXCEPT ![w] = [kind |-> "bitmap", chunk |-> bitmapNext + 1, begin |-> 0]]
          /\ pc' = [pc EXCEPT ![w] = "loadskip"] /\ op' = op /\ calls' = calls
          /\ pc[w] = "claimbitmap"
      BY <1>7, <2>1 DEF ClaimBitmap
    <3>2. LI(w)'
      BY <1>0, <1>1, <3>1
    <3> HIDE DEF LI
    <3> QED BY <1>0, <1>2, <3>1, <3>2
  <2>2. CASE ~(bitmapNext < Len(BitmapChunks))
    <3>1. /\ claim' = claim /\ op' = op /\ calls' = calls /\ pc[w] = "claimbitmap"
          /\ \E q \in {"undobitmap", "claimdata"} : pc' = [pc EXCEPT ![w] = q]
      BY <1>7, <2>2 DEF ClaimBitmap
    <3>2. LI(w)'
      BY <1>0, <1>1, <3>1
    <3> HIDE DEF LI
    <3> QED BY <1>0, <1>2, <3>1, <3>2
  <2> QED BY <2>1, <2>2
<1>8. ASSUME NEW w \in Workers, ClaimData(w) PROVE LocalInv'
  <2>1. CASE dataNext < Len(DataChunks)
    <3>1. /\ claim' = [claim EXCEPT ![w] = [kind |-> "data", chunk |-> dataNext + 1, begin |-> 0]]
          /\ pc' = [pc EXCEPT ![w] = "loadskip"] /\ op' = op /\ calls' = calls
          /\ pc[w] = "claimdata"
      BY <1>8, <2>1 DEF ClaimData
    <3>2. dataNext + 1 \in DOMAIN DataChunks
      BY <1>0, <2>1, ChunkTypes
    <3>3. LI(w)'
      BY <1>0, <1>1, <3>1, <3>2
    <3> HIDE DEF LI
    <3> QED BY <1>0, <1>2, <3>1, <3>3
  <2>2. CASE dataNext > Len(DataChunks)
    <3>1. /\ claim' = claim /\ op' = op /\ calls' = calls /\ pc[w] = "claimdata"
          /\ pc' = [pc EXCEPT ![w] = "undodata"]
      BY <1>0, <1>8, <2>2, ChunkTypes DEF ClaimData
    <3>2. LI(w)'
      BY <1>0, <1>1, <3>1
    <3> HIDE DEF LI
    <3> QED BY <1>0, <1>2, <3>1, <3>2
  <2>3. CASE ~(dataNext < Len(DataChunks)) /\ ~(dataNext > Len(DataChunks))
    BY <1>3, <1>8, <2>3 DEF ClaimData
  <2> QED BY <2>1, <2>2, <2>3
<1>9. ASSUME NEW w \in Workers, UndoData(w) PROVE LocalInv'
  BY <1>3, <1>9 DEF UndoData
<1>10. ASSUME NEW w \in Workers, IssueRead(w) PROVE LocalInv'
  BY <1>3, <1>10 DEF IssueRead
<1>11. ASSUME NEW w \in Workers, LoadSkipBegin(w) PROVE LocalInv'
  <2>1. claim' = [claim EXCEPT ![w] = [claim[w] EXCEPT !.begin = SkipOf(claim[w]).begin]]
    BY <1>11 DEF LoadSkipBegin
  <2>2. claim'[w].kind = claim[w].kind /\ claim'[w].chunk = claim[w].chunk
    BY <1>0, <2>1 DEF Claims, Nothing
  <2>3. pc' = [pc EXCEPT ![w] = "issue"] /\ op' = op /\ calls' = calls /\ pc[w] = "loadskip"
    BY <1>11 DEF LoadSkipBegin
  <2>4. LI(w)'
    BY <1>0, <1>1, <2>2, <2>3
  <2> HIDE DEF LI
  <2> QED BY <1>0, <1>2, <2>1, <2>3, <2>4
<1>12. ASSUME NEW w \in Workers, CountDown(w) \/ StoreSkipEnd(w) PROVE LocalInv'
  <2>1. /\ claim' = claim /\ calls' = calls /\ pc[w] \in {"countdown", "skipend"}
        /\ \/ op' = op /\ pc' = [pc EXCEPT ![w] = "skipbegin"]
           \/ op' = [op EXCEPT ![w] = NoRead] /\ pc' = [pc EXCEPT ![w] = "idle"]
    BY <1>12 DEF CountDown, StoreSkipEnd
  <2>2. LI(w)'
    BY <1>0, <1>1, <2>1 DEF NoRead
  <2> HIDE DEF LI
  <2> QED BY <1>0, <1>2, <2>1, <2>2
<1>13. ASSUME NEW w \in Workers, Load(w) PROVE LocalInv'
  <2>1. /\ claim' = claim /\ calls' = calls /\ pc[w] = "process"
        /\ op' = [op EXCEPT ![w] = NoRead] /\ pc' = [pc EXCEPT ![w] = "idle"]
    BY <1>13 DEF Load
  <2>2. LI(w)'
    BY <1>0, <1>1, <2>1 DEF NoRead
  <2> HIDE DEF LI
  <2> QED BY <1>0, <1>2, <2>1, <2>2
<1>14. ASSUME NEW w \in Workers, NEW r \in reads, PortIssues(w, r) PROVE LocalInv'
  <2>1. /\ claim' = claim /\ calls' = calls /\ op' = op /\ pc[w] = "idle"
        /\ pc' = pc \/ pc' = [pc EXCEPT ![w] = "dead"]
    BY <1>14 DEF PortIssues
  <2>2. LI(w)'
    BY <1>0, <1>1, <2>1
  <2> HIDE DEF LI
  <2> QED BY <1>0, <1>2, <2>1, <2>2
<1>15. ASSUME NEW w \in Workers, NEW r \in reads, Complete(w, r) PROVE LocalInv'
  <2>1. /\ claim' = claim /\ calls' = calls /\ pc[w] = "idle"
        /\ \/ op' = op /\ pc' = pc
           \/ op' = [op EXCEPT ![w] = r] /\ pc' = [pc EXCEPT ![w] = "claimbitmap"]
    BY <1>15 DEF Complete
  <2>2. r.kind # "none"
    BY DEF TypeInv, ReadOps
  <2>3. LI(w)'
    BY <1>0, <1>1, <2>1, <2>2
  <2> HIDE DEF LI
  <2> QED BY <1>0, <1>2, <2>1, <2>3
<1> HIDE DEF LI
<1> QED BY <1>4, <1>5, <1>6, <1>7, <1>8, <1>9, <1>10, <1>11, <1>12, <1>13, <1>14, <1>15
        DEF Next, Callback, Payload, Port

-----------------------------------------------------------------------------
(***************************************************************************)
(* The shared indices.                                                     *)
(***************************************************************************)
\* A step of a worker from one point to another changes who undoes a claim
\* only if one of the two is that point.
LEMMA UndoingEffect ==
  ASSUME TypeInv, NEW w \in Workers, NEW q, NEW p, pc' = [pc EXCEPT ![w] = q]
  PROVE  /\ pc[w] # p /\ q # p => Undoing(p)' = Undoing(p)
         /\ pc[w] # p /\ q = p => /\ Undoing(p)' = Undoing(p) \cup {w}
                                  /\ Cardinality(Undoing(p)') = Cardinality(Undoing(p)) + 1
         /\ pc[w] = p /\ q # p => /\ Undoing(p)' = Undoing(p) \ {w}
                                  /\ Cardinality(Undoing(p)') = Cardinality(Undoing(p)) - 1
         /\ Cardinality(Undoing(p)) \in Nat
         /\ w \in Undoing(p) => Cardinality(Undoing(p)) > 0
<1>1. IsFiniteSet(Undoing(p)) /\ Cardinality(Undoing(p)) \in Nat
  <2>1. Undoing(p) \in SUBSET Workers
    BY DEF Undoing
  <2> QED BY <2>1, FS_Subset, FS_CardinalityType, ReaderAssumption
<1>2. pc \in [Workers -> Points]
  BY DEF TypeInv
<1>3. pc[w] # p /\ q # p => Undoing(p)' = Undoing(p)
  BY <1>2 DEF Undoing
<1>4. pc[w] # p /\ q = p => Undoing(p)' = Undoing(p) \cup {w} /\ w \notin Undoing(p)
  BY <1>2 DEF Undoing
<1>5. pc[w] = p /\ q # p => Undoing(p)' = Undoing(p) \ {w} /\ w \in Undoing(p)
  BY <1>2 DEF Undoing
<1>6. w \notin Undoing(p) => Cardinality(Undoing(p) \cup {w}) = Cardinality(Undoing(p)) + 1
  BY <1>1, FS_AddElement
<1>7. w \in Undoing(p) => /\ Cardinality(Undoing(p) \ {w}) = Cardinality(Undoing(p)) - 1
                          /\ Cardinality(Undoing(p) \ {w}) \in Nat
  BY <1>1, FS_RemoveElement, FS_CardinalityType
<1>8. w \in Undoing(p) => Cardinality(Undoing(p)) > 0
  BY <1>1, <1>7
<1> QED BY <1>1, <1>3, <1>4, <1>5, <1>6, <1>7, <1>8

LEMMA NoneUndoing == Cardinality({}) = 0
BY FS_EmptySet

LEMMA NextIndex ==
  ASSUME TypeInv, LocalInv, IndexInv, [Next]_vars
  PROVE  IndexInv'
<1> DEFINE B == Undoing("undobitmap")
           D == Undoing("undodata")
<1>0. /\ bitmapNext \in Nat /\ dataNext \in Nat
      /\ Len(BitmapChunks) \in Nat /\ Len(DataChunks) \in Nat
  BY ChunkTypes DEF TypeInv
<1>1. ASSUME B' = B, D' = D, bitmapNext' = bitmapNext, dataNext' = dataNext
      PROVE  IndexInv'
  BY <1>1 DEF IndexInv, Overrun
<1>2. ASSUME NEW w \in Workers, NEW q \in Points, pc' = [pc EXCEPT ![w] = q],
             pc[w] \notin {"undobitmap", "undodata"}, q \notin {"undobitmap", "undodata"}
      PROVE  B' = B /\ D' = D
  BY <1>2, UndoingEffect
<1> USE DEF At, Goto, readerVars, workerVars, indexVars
<1>3. CASE Owner \/ UNCHANGED vars
  <2>1. pc' = pc /\ bitmapNext' = bitmapNext /\ dataNext' = dataNext
    BY <1>3, OwnerEffect DEF chunkVars, vars
  <2> QED BY <1>1, <2>1 DEF Undoing
<1>4. ASSUME NEW w \in Workers,
             \/ SetEvent(w) \/ SetCode(w) \/ PayloadFails(w) \/ PayloadStarts(w)
             \/ LoadSkipBegin(w) \/ CopyBitmap(w) \/ CountDown(w) \/ StoreSkipBegin(w)
             \/ StoreSkipEnd(w) \/ Load(w)
      PROVE  IndexInv'
  <2>1. /\ bitmapNext' = bitmapNext /\ dataNext' = dataNext
        /\ pc[w] \notin {"undobitmap", "undodata"}
        /\ \E q \in Points \ {"undobitmap", "undodata"} : pc' = [pc EXCEPT ![w] = q]
    BY <1>4 DEF SetEvent, SetCode, PayloadFails, PayloadStarts, LoadSkipBegin, CopyBitmap,
                CountDown, StoreSkipBegin, StoreSkipEnd, Load, Points
  <2> HIDE DEF B, D
  <2> QED BY <1>1, <1>2, <2>1
<1>5. ASSUME NEW w \in Workers, Queued(w), pc[w] # "undobitmap"
      PROVE  /\ \E q \in Points \ {"undobitmap", "undodata"} : pc' = [pc EXCEPT ![w] = q]
             /\ B' = B
             /\ pc[w] # "undodata" => D' = D
             /\ pc[w] = "undodata" => Cardinality(D') = Cardinality(D) - 1
  <2>1. calls[w] \in Nat
    BY DEF TypeInv
  <2>2. \E q \in Points \ {"undobitmap", "undodata"} : pc' = [pc EXCEPT ![w] = q]
    BY <1>5, <2>1, QueuedEffect DEF Points
  <2>3. PICK q \in Points \ {"undobitmap", "undodata"} : pc' = [pc EXCEPT ![w] = q]
    BY <2>2
  <2>4. B' = B
    BY <1>5, <2>3, UndoingEffect
  <2>5. pc[w] # "undodata" => D' = D
    BY <2>3, UndoingEffect
  <2>6. pc[w] = "undodata" => Cardinality(D') = Cardinality(D) - 1
    BY <2>3, UndoingEffect
  <2> HIDE DEF B, D
  <2> QED BY <2>2, <2>4, <2>5, <2>6
<1>6. ASSUME NEW w \in Workers, IssueRead(w) PROVE IndexInv'
  <2>1. Queued(w) /\ pc[w] = "issue" /\ bitmapNext' = bitmapNext /\ dataNext' = dataNext
    BY <1>6 DEF IssueRead
  <2> HIDE DEF B, D
  <2> QED BY <1>1, <1>5, <2>1
<1>7. ASSUME NEW w \in Workers, ClaimBitmap(w) PROVE IndexInv'
  <2>0. pc[w] = "claimbitmap" /\ bitmapNext' = bitmapNext + 1 /\ dataNext' = dataNext
    BY <1>7 DEF ClaimBitmap
  <2>1. CASE bitmapNext < Len(BitmapChunks)
    <3>1. pc' = [pc EXCEPT ![w] = "loadskip"]
      BY <1>7, <2>1 DEF ClaimBitmap
    <3>2. B' = B /\ D' = D
      BY <2>0, <3>1, UndoingEffect
    <3>3. bitmapNext =< Len(BitmapChunks) /\ bitmapNext' =< Len(BitmapChunks)
      BY <1>0, <2>0, <2>1
    <3> QED BY <2>0, <3>2, <3>3 DEF IndexInv, Overrun
  <2>2. CASE bitmapNext = Len(BitmapChunks)
    <3>1. pc' = [pc EXCEPT ![w] = "claimdata"]
      BY <1>0, <1>7, <2>2 DEF ClaimBitmap
    <3>2. B' = B /\ D' = D
      BY <2>0, <3>1, UndoingEffect
    <3>0. bitmapNext =< Len(BitmapChunks)
      BY <1>0, <2>2
    <3>3. B = {}
      BY <3>0 DEF IndexInv, Overrun
    <3>4. Cardinality(B') = 0
      BY <3>2, <3>3, NoneUndoing
    <3>5. /\ bitmapNext' = Len(BitmapChunks) + 1 + Cardinality(B')
          /\ ~(bitmapNext' =< Len(BitmapChunks))
      <4> HIDE DEF B
      <4> QED BY <1>0, <2>0, <2>2, <3>4
    <3> HIDE DEF B, D
    <3> QED BY <2>0, <3>2, <3>5 DEF IndexInv, Overrun, B, D
  <2>3. CASE bitmapNext > Len(BitmapChunks)
    <3>1. pc' = [pc EXCEPT ![w] = "undobitmap"]
      BY <1>0, <1>7, <2>3 DEF ClaimBitmap
    <3>2. Cardinality(B') = Cardinality(B) + 1 /\ D' = D /\ Cardinality(B) \in Nat
      BY <2>0, <3>1, UndoingEffect
    <3>3. bitmapNext = Len(BitmapChunks) + 1 + Cardinality(B)
      BY <1>0, <2>3 DEF IndexInv, Overrun
    <3> HIDE DEF B, D
    <3>4. /\ bitmapNext' = Len(BitmapChunks) + 1 + Cardinality(B')
          /\ ~(bitmapNext' =< Len(BitmapChunks))
      BY <1>0, <2>0, <3>2, <3>3
    <3> QED BY <2>0, <3>2, <3>4 DEF IndexInv, Overrun, B, D
  <2> QED BY <1>0, <2>1, <2>2, <2>3
<1>8. ASSUME NEW w \in Workers, UndoBitmap(w) PROVE IndexInv'
  <2>1. /\ pc[w] = "undobitmap" /\ bitmapNext' = bitmapNext - 1 /\ dataNext' = dataNext
        /\ pc' = [pc EXCEPT ![w] = "claimdata"]
    BY <1>8 DEF UndoBitmap
  <2>2. /\ Cardinality(B') = Cardinality(B) - 1 /\ D' = D /\ Cardinality(B) \in Nat
        /\ Cardinality(B) > 0 /\ B # {}
    <3>1. w \in B
      BY <2>1 DEF Undoing
    <3>2. B # {}
      BY <3>1
    <3>3. D' = D
      BY <2>1, UndoingEffect
    <3>4. /\ Cardinality(B') = Cardinality(B) - 1
          /\ Cardinality(B) \in Nat /\ Cardinality(B) > 0
      BY <2>1, <3>1, UndoingEffect
    <3> QED BY <3>2, <3>3, <3>4
  <2>3. bitmapNext = Len(BitmapChunks) + 1 + Cardinality(B)
    BY <1>0, <2>2 DEF IndexInv, Overrun
  <2> HIDE DEF B, D
  <2>4. /\ bitmapNext' = Len(BitmapChunks) + 1 + Cardinality(B')
        /\ ~(bitmapNext' =< Len(BitmapChunks))
    BY <1>0, <2>1, <2>2, <2>3
  <2> QED BY <2>1, <2>2, <2>4 DEF IndexInv, Overrun, B, D
<1>9. ASSUME NEW w \in Workers, ClaimData(w) PROVE IndexInv'
  <2>0. pc[w] = "claimdata" /\ dataNext' = dataNext + 1 /\ bitmapNext' = bitmapNext
    BY <1>9 DEF ClaimData
  <2>1. CASE dataNext < Len(DataChunks)
    <3>1. pc' = [pc EXCEPT ![w] = "loadskip"]
      BY <1>9, <2>1 DEF ClaimData
    <3>2. B' = B /\ D' = D
      BY <2>0, <3>1, UndoingEffect
    <3>3. dataNext =< Len(DataChunks) /\ dataNext' =< Len(DataChunks)
      BY <1>0, <2>0, <2>1
    <3> QED BY <2>0, <3>2, <3>3 DEF IndexInv, Overrun
  <2>2. CASE dataNext = Len(DataChunks)
    <3>1. Queued(w)
      BY <1>0, <1>9, <2>2 DEF ClaimData
    <3>2. B' = B /\ D' = D
      <4> HIDE DEF B, D
      <4> QED BY <1>5, <2>0, <3>1
    <3>0. dataNext =< Len(DataChunks)
      BY <1>0, <2>2
    <3>3. D = {}
      BY <3>0 DEF IndexInv, Overrun
    <3>4. Cardinality(D') = 0
      BY <3>2, <3>3, NoneUndoing
    <3>5. /\ dataNext' = Len(DataChunks) + 1 + Cardinality(D')
          /\ ~(dataNext' =< Len(DataChunks))
      <4> HIDE DEF D
      <4> QED BY <1>0, <2>0, <2>2, <3>4
    <3> HIDE DEF B, D
    <3> QED BY <2>0, <3>2, <3>5 DEF IndexInv, Overrun, B, D
  <2>3. CASE dataNext > Len(DataChunks)
    <3>1. pc' = [pc EXCEPT ![w] = "undodata"]
      BY <1>0, <1>9, <2>3 DEF ClaimData
    <3>2. Cardinality(D') = Cardinality(D) + 1 /\ B' = B /\ Cardinality(D) \in Nat
      BY <2>0, <3>1, UndoingEffect
    <3>3. dataNext = Len(DataChunks) + 1 + Cardinality(D)
      BY <1>0, <2>3 DEF IndexInv, Overrun
    <3> HIDE DEF B, D
    <3>4. /\ dataNext' = Len(DataChunks) + 1 + Cardinality(D')
          /\ ~(dataNext' =< Len(DataChunks))
      BY <1>0, <2>0, <3>2, <3>3
    <3> QED BY <2>0, <3>2, <3>4 DEF IndexInv, Overrun, B, D
  <2> QED BY <1>0, <2>1, <2>2, <2>3
<1>10. ASSUME NEW w \in Workers, UndoData(w) PROVE IndexInv'
  <2>1. /\ pc[w] = "undodata" /\ dataNext' = dataNext - 1 /\ bitmapNext' = bitmapNext
        /\ Queued(w)
    BY <1>10 DEF UndoData
  <2>2. /\ Cardinality(D') = Cardinality(D) - 1 /\ B' = B
    <3> HIDE DEF B, D
    <3> QED BY <1>5, <2>1
  <2>3. Cardinality(D) \in Nat /\ Cardinality(D) > 0 /\ D # {}
    <3>1. w \in D
      BY <2>1 DEF Undoing
    <3>2. PICK q \in Points \ {"undobitmap", "undodata"} : pc' = [pc EXCEPT ![w] = q]
      BY <1>5, <2>1
    <3> QED BY <3>1, <3>2, UndoingEffect
  <2>4. dataNext = Len(DataChunks) + 1 + Cardinality(D)
    BY <1>0, <2>3 DEF IndexInv, Overrun
  <2> HIDE DEF B, D
  <2>5. /\ dataNext' = Len(DataChunks) + 1 + Cardinality(D')
        /\ ~(dataNext' =< Len(DataChunks))
    BY <1>0, <2>1, <2>2, <2>3, <2>4
  <2> QED BY <2>1, <2>2, <2>5 DEF IndexInv, Overrun, B, D
<1>11. ASSUME NEW w \in Workers, NEW r \in reads, PortIssues(w, r) \/ Complete(w, r)
       PROVE  IndexInv'
  <2>1. /\ bitmapNext' = bitmapNext /\ dataNext' = dataNext /\ pc[w] = "idle"
        /\ pc' = pc \/ \E q \in Points \ {"undobitmap", "undodata"} : pc' = [pc EXCEPT ![w] = q]
    BY <1>11 DEF PortIssues, Complete, Points
  <2>2. CASE pc' = pc
    BY <1>1, <2>1, <2>2 DEF Undoing
  <2>3. CASE pc' # pc
    <3> HIDE DEF B, D
    <3> QED BY <1>1, <1>2, <2>1, <2>3
  <2> QED BY <2>2, <2>3
<1> HIDE DEF B, D
<1> QED BY <1>3, <1>4, <1>6, <1>7, <1>8, <1>9, <1>10, <1>11 DEF Next, Callback, Payload, Port

\* At most every worker undoes a claim at the same time.
LEMMA IndexBound ==
  ASSUME TypeInv, IndexInv
  PROVE  /\ bitmapNext =< Len(BitmapChunks) + 1 + Cardinality(Workers)
         /\ dataNext =< Len(DataChunks) + 1 + Cardinality(Workers)
<1>1. ASSUME NEW p PROVE /\ Cardinality(Undoing(p)) \in Nat /\ Cardinality(Workers) \in Nat
                         /\ Cardinality(Undoing(p)) =< Cardinality(Workers)
  <2>1. Undoing(p) \in SUBSET Workers
    BY DEF Undoing
  <2> QED BY <2>1, FS_Subset, FS_CardinalityType, ReaderAssumption
<1>2. /\ bitmapNext \in Nat /\ dataNext \in Nat
      /\ Len(BitmapChunks) \in Nat /\ Len(DataChunks) \in Nat
  BY ChunkTypes DEF TypeInv
<1>3. bitmapNext =< Len(BitmapChunks) + 1 + Cardinality(Workers)
  BY <1>1, <1>2 DEF IndexInv, Overrun
<1>4. dataNext =< Len(DataChunks) + 1 + Cardinality(Workers)
  BY <1>1, <1>2 DEF IndexInv, Overrun
<1> QED BY <1>3, <1>4

-----------------------------------------------------------------------------
(***************************************************************************)
(* The four places a data chunk may be in.                                 *)
(***************************************************************************)
Claimers(c)  == {w \in Workers : claim[w].kind = "data" /\ claim[w].chunk = c}
DataReads(c) == {r \in reads : r.kind = "data" /\ r.chunk = c}
Callbacks(c) == {w \in Workers : op[w].kind = "data" /\ op[w].chunk = c}
Loads(c)     == {i \in DOMAIN order : order[i] = c}

Dead == \E w \in Workers : pc[w] = "dead"

Accounted(c) ==
  /\ Holders(c) =< 1
  /\ c > dataNext => Holders(c) = 0
  /\ ~cancelled /\ ~Dead /\ c =< dataNext => Holders(c) = 1

HolderInv == \A c \in DOMAIN DataChunks : Accounted(c)

LEMMA HolderParts ==
  ASSUME TypeInv, NEW c
  PROVE  /\ IsFiniteSet(Claimers(c)) /\ Cardinality(Claimers(c)) \in Nat
         /\ IsFiniteSet(DataReads(c)) /\ Cardinality(DataReads(c)) \in Nat
         /\ IsFiniteSet(Callbacks(c)) /\ Cardinality(Callbacks(c)) \in Nat
         /\ IsFiniteSet(Loads(c)) /\ Cardinality(Loads(c)) \in Nat
         /\ Holders(c) = Cardinality(Claimers(c)) + Cardinality(DataReads(c))
                         + Cardinality(Callbacks(c)) + Cardinality(Loads(c))
<1>1. Claimers(c) \in SUBSET Workers /\ Callbacks(c) \in SUBSET Workers
  BY DEF Claimers, Callbacks
<1>2. DataReads(c) \in SUBSET reads /\ IsFiniteSet(reads)
  BY DEF DataReads, TypeInv
<1>3. Loads(c) \in SUBSET (1 .. Len(order)) /\ IsFiniteSet(1 .. Len(order))
  <2>1. DOMAIN order = 1 .. Len(order) /\ Len(order) \in Nat
    BY DEF TypeInv
  <2> QED BY <2>1, FS_Interval DEF Loads
<1>4. IsFiniteSet(Workers)
  BY ReaderAssumption
<1>5. /\ IsFiniteSet(Claimers(c)) /\ IsFiniteSet(DataReads(c))
      /\ IsFiniteSet(Callbacks(c)) /\ IsFiniteSet(Loads(c))
  BY <1>1, <1>2, <1>3, <1>4, FS_Subset
<1>6. Holders(c) = Cardinality(Claimers(c)) + Cardinality(DataReads(c))
                   + Cardinality(Callbacks(c)) + Cardinality(Loads(c))
  BY DEF Holders, Claimers, DataReads, Callbacks, Loads
<1> QED BY <1>5, <1>6, FS_CardinalityType

\* A step that moves no chunk keeps the account.
LEMMA KeepsAccount ==
  ASSUME TypeInv, NEW c \in DOMAIN DataChunks, Accounted(c),
         Holders(c)' = Holders(c),
         c =< dataNext <=> c =< dataNext', dataNext' \in Nat,
         cancelled => cancelled', Dead => Dead'
  PROVE  Accounted(c)'
<1>1. dataNext \in Nat /\ c \in Nat
  BY ChunkTypes DEF TypeInv
<1>2. c > dataNext' => c > dataNext
  BY <1>1
<1>3. (Holders(c) =< 1)'
  BY DEF Accounted
<1>4. (c > dataNext => Holders(c) = 0)'
  BY <1>2 DEF Accounted
<1>5. (~cancelled /\ ~Dead /\ c =< dataNext => Holders(c) = 1)'
  BY DEF Accounted
<1> QED BY <1>3, <1>4, <1>5 DEF Accounted

\* A chunk in one of the places is in no other, and only once in that.
LEMMA OnePlace ==
  ASSUME TypeInv, NEW c, Holders(c) =< 1
  PROVE  /\ Claimers(c) # {} => Cardinality(Claimers(c)) = 1 /\ DataReads(c) = {}
                                /\ Callbacks(c) = {} /\ Loads(c) = {}
         /\ DataReads(c) # {} => Cardinality(DataReads(c)) = 1 /\ Claimers(c) = {}
                                /\ Callbacks(c) = {} /\ Loads(c) = {}
         /\ Callbacks(c) # {} => Cardinality(Callbacks(c)) = 1 /\ Claimers(c) = {}
                                /\ DataReads(c) = {} /\ Loads(c) = {}
         /\ \A r \in DataReads(c) : DataReads(c) = {r}
         /\ \A w \in Claimers(c) : Claimers(c) = {w}
         /\ \A w \in Callbacks(c) : Callbacks(c) = {w}
<1>1. ASSUME NEW S, IsFiniteSet(S), S # {}
      PROVE  Cardinality(S) >= 1 /\ \A x \in S : Cardinality(S) = 1 => S = {x}
  <2>1. Cardinality(S) \in Nat /\ Cardinality(S) # 0
    BY <1>1, FS_CardinalityType, FS_EmptySet
  <2>2. ASSUME NEW x \in S, Cardinality(S) = 1 PROVE S = {x}
    <3>1. Cardinality(S \ {x}) = 0 /\ IsFiniteSet(S \ {x})
      BY <1>1, <2>2, FS_RemoveElement
    <3>2. S \ {x} = {}
      BY <3>1, FS_EmptySet
    <3> QED BY <3>2
  <2> QED BY <2>1, <2>2
<1> DEFINE n1 == Cardinality(Claimers(c))
           n2 == Cardinality(DataReads(c))
           n3 == Cardinality(Callbacks(c))
           n4 == Cardinality(Loads(c))
<1>2. /\ n1 \in Nat /\ n2 \in Nat /\ n3 \in Nat /\ n4 \in Nat
      /\ n1 + n2 + n3 + n4 =< 1
  BY HolderParts
<1>3. /\ Claimers(c) # {} => n1 >= 1
      /\ DataReads(c) # {} => n2 >= 1
      /\ Callbacks(c) # {} => n3 >= 1
      /\ Loads(c) # {} => n4 >= 1
  BY <1>1, HolderParts
<1>4. /\ \A r \in DataReads(c) : n2 = 1 => DataReads(c) = {r}
      /\ \A w \in Claimers(c) : n1 = 1 => Claimers(c) = {w}
      /\ \A w \in Callbacks(c) : n3 = 1 => Callbacks(c) = {w}
  BY <1>1, HolderParts
<1> HIDE DEF n1, n2, n3, n4
<1>5. Claimers(c) # {} => n1 = 1 /\ ~(n2 >= 1) /\ ~(n3 >= 1) /\ ~(n4 >= 1)
  BY <1>2, <1>3
<1>6. DataReads(c) # {} => n2 = 1 /\ ~(n1 >= 1) /\ ~(n3 >= 1) /\ ~(n4 >= 1)
  BY <1>2, <1>3
<1>7. Callbacks(c) # {} => n3 = 1 /\ ~(n1 >= 1) /\ ~(n2 >= 1) /\ ~(n4 >= 1)
  BY <1>2, <1>3
<1>8. Claimers(c) # {} => DataReads(c) = {} /\ Callbacks(c) = {} /\ Loads(c) = {}
  BY <1>3, <1>5
<1>9. DataReads(c) # {} => Claimers(c) = {} /\ Callbacks(c) = {} /\ Loads(c) = {}
  BY <1>3, <1>6
<1>10. Callbacks(c) # {} => Claimers(c) = {} /\ DataReads(c) = {} /\ Loads(c) = {}
  BY <1>3, <1>7
<1> QED BY <1>4, <1>5, <1>6, <1>7, <1>8, <1>9, <1>10 DEF n1, n2, n3

LEMMA NextHolder ==
  ASSUME TypeInv, TypeInv', LocalInv, IndexInv, HolderInv, [Next]_vars
  PROVE  HolderInv'
<1> SUFFICES ASSUME NEW c \in DOMAIN DataChunks PROVE Accounted(c)'
  BY DEF HolderInv
<1>0. /\ Accounted(c) /\ Holders(c) =< 1 /\ c \in Nat /\ c =< Len(DataChunks)
      /\ dataNext \in Nat /\ dataNext' \in Nat /\ Len(DataChunks) \in Nat
      /\ pc \in [Workers -> Points] /\ op \in [Workers -> ReadOps \cup {NoRead}]
      /\ claim \in [Workers -> Claims]
  BY ChunkTypes DEF TypeInv, HolderInv, Accounted
<1>1. Holders(c)' = Cardinality(Claimers(c)') + Cardinality(DataReads(c)')
                    + Cardinality(Callbacks(c)') + Cardinality(Loads(c)')
  BY DEF Holders, Claimers, DataReads, Callbacks, Loads
<1>2. /\ Holders(c) = Cardinality(Claimers(c)) + Cardinality(DataReads(c))
                      + Cardinality(Callbacks(c)) + Cardinality(Loads(c))
      /\ Cardinality(Claimers(c)) \in Nat /\ Cardinality(DataReads(c)) \in Nat
      /\ Cardinality(Callbacks(c)) \in Nat /\ Cardinality(Loads(c)) \in Nat
  BY HolderParts
<1>3. ASSUME Claimers(c)' = Claimers(c), DataReads(c)' = DataReads(c),
             Callbacks(c)' = Callbacks(c), Loads(c)' = Loads(c)
      PROVE  Holders(c)' = Holders(c)
  BY <1>1, <1>2, <1>3
<1>4. /\ claim' = claim => Claimers(c)' = Claimers(c)
      /\ reads' = reads => DataReads(c)' = DataReads(c)
      /\ op' = op => Callbacks(c)' = Callbacks(c)
      /\ order' = order => Loads(c)' = Loads(c)
  BY DEF Claimers, DataReads, Callbacks, Loads
<1>5. ASSUME NEW w \in Workers, NEW q, pc' = [pc EXCEPT ![w] = q], pc[w] # "dead"
      PROVE  Dead => Dead'
  BY <1>0, <1>5 DEF Dead
<1>6. ASSUME Holders(c)' = Holders(c), dataNext' = dataNext, cancelled => cancelled',
             Dead => Dead'
      PROVE  Accounted(c)'
  BY <1>0, <1>6, KeepsAccount
<1>7. ASSUME NEW w \in Workers, Queued(w)
      PROVE  /\ claim' = [claim EXCEPT ![w] = Nothing]
             /\ pc[w] # "dead" => (Dead => Dead')
  <2>1. claim' = [claim EXCEPT ![w] = Nothing] /\ \E q : pc' = [pc EXCEPT ![w] = q]
    BY <1>7 DEF Queued, Goto
  <2> QED BY <1>5, <2>1
<1>8. ASSUME NEW w \in Workers, claim' = [claim EXCEPT ![w] = Nothing],
             claim[w].kind # "data" \/ claim[w].chunk # c
      PROVE  Claimers(c)' = Claimers(c)
  BY <1>0, <1>8 DEF Claimers, Nothing
<1> USE DEF At, Goto, readerVars, workerVars, indexVars
<1>9. CASE Owner \/ UNCHANGED vars
  <2>1. UNCHANGED chunkVars /\ (cancelled => cancelled')
    BY <1>9, OwnerEffect DEF chunkVars, vars
  <2>2. Dead => Dead'
    BY <2>1 DEF Dead, chunkVars
  <2> QED BY <1>3, <1>4, <1>6, <2>1, <2>2 DEF chunkVars
<1>10. ASSUME NEW w \in Workers,
              \/ SetEvent(w) \/ SetCode(w) \/ PayloadFails(w) \/ PayloadStarts(w)
              \/ UndoBitmap(w) \/ CopyBitmap(w) \/ StoreSkipBegin(w)
       PROVE  Accounted(c)'
  <2>1. /\ claim' = claim /\ reads' = reads /\ op' = op /\ order' = order
        /\ dataNext' = dataNext /\ cancelled' = cancelled
        /\ pc[w] # "dead" /\ \E q : pc' = [pc EXCEPT ![w] = q]
    BY <1>10 DEF SetEvent, SetCode, PayloadFails, PayloadStarts, UndoBitmap, CopyBitmap,
                 StoreSkipBegin
  <2>2. Dead => Dead'
    BY <1>5, <2>1
  <2> QED BY <1>3, <1>4, <1>6, <2>1, <2>2
<1>11. ASSUME NEW w \in Workers, ClaimBitmap(w) PROVE Accounted(c)'
  <2>1. /\ reads' = reads /\ op' = op /\ order' = order
        /\ dataNext' = dataNext /\ cancelled' = cancelled
        /\ pc[w] = "claimbitmap" /\ \E q : pc' = [pc EXCEPT ![w] = q]
        /\ \/ claim' = claim
           \/ \E b \in Nat : claim' = [claim EXCEPT ![w] = [kind |-> "bitmap", chunk |-> b, begin |-> 0]]
    BY <1>11 DEF ClaimBitmap, TypeInv
  <2>2. claim[w].kind = "none"
    BY <1>0, <2>1 DEF LocalInv
  <2>3. Claimers(c)' = Claimers(c)
    BY <1>0, <2>1, <2>2 DEF Claimers
  <2>4. Dead => Dead'
    BY <1>5, <2>1
  <2> QED BY <1>3, <1>4, <1>6, <2>1, <2>3, <2>4
<1>12. ASSUME NEW w \in Workers, ClaimData(w) PROVE Accounted(c)'
  <2>1. /\ reads' = reads /\ op' = op /\ order' = order
        /\ dataNext' = dataNext + 1 /\ cancelled' = cancelled
        /\ pc[w] = "claimdata"
    BY <1>12 DEF ClaimData
  <2>2. claim[w].kind = "none"
    BY <1>0, <2>1 DEF LocalInv
  <2>3. CASE dataNext < Len(DataChunks)
    <3>1. /\ claim' = [claim EXCEPT ![w] = [kind |-> "data", chunk |-> dataNext + 1, begin |-> 0]]
          /\ pc' = [pc EXCEPT ![w] = "loadskip"]
      BY <1>12, <2>3 DEF ClaimData
    <3>2. Dead => Dead'
      BY <1>5, <2>1, <3>1
    <3>3. CASE c = dataNext + 1
      <4>1. Holders(c) = 0
        BY <1>0, <3>3 DEF Accounted
      <4>2. Claimers(c)' = Claimers(c) \cup {w} /\ w \notin Claimers(c)
        BY <1>0, <2>2, <3>1, <3>3 DEF Claimers
      <4>3. Cardinality(Claimers(c)') = Cardinality(Claimers(c)) + 1
        BY <4>2, FS_AddElement, HolderParts
      <4>4. Holders(c)' = 1
        BY <1>1, <1>2, <1>4, <2>1, <4>1, <4>3
      <4> QED BY <1>0, <2>1, <3>3, <4>4 DEF Accounted
    <3>4. CASE c # dataNext + 1
      <4>1. Claimers(c)' = Claimers(c)
        BY <1>0, <2>2, <3>1, <3>4 DEF Claimers
      <4>2. Holders(c)' = Holders(c)
        BY <1>3, <1>4, <2>1, <4>1
      <4>3. c =< dataNext <=> c =< dataNext'
        BY <1>0, <2>1, <3>4
      <4> QED BY <1>0, <2>1, <3>2, <4>2, <4>3, KeepsAccount
    <3> QED BY <3>3, <3>4
  <2>4. CASE ~(dataNext < Len(DataChunks))
    <3>1. /\ claim' = claim \/ claim' = [claim EXCEPT ![w] = Nothing]
          /\ \E q : pc' = [pc EXCEPT ![w] = q]
      BY <1>12, <2>4 DEF ClaimData, Queued
    <3>2. Claimers(c)' = Claimers(c)
      BY <1>4, <1>8, <2>2, <3>1
    <3>3. Dead => Dead'
      BY <1>5, <2>1, <3>1
    <3>4. c =< dataNext <=> c =< dataNext'
      BY <1>0, <2>1, <2>4
    <3>5. Holders(c)' = Holders(c)
      BY <1>3, <1>4, <2>1, <3>2
    <3> QED BY <1>0, <2>1, <3>3, <3>4, <3>5, KeepsAccount
  <2> QED BY <2>3, <2>4
<1>13. ASSUME NEW w \in Workers, UndoData(w) PROVE Accounted(c)'
  <2>1. /\ reads' = reads /\ op' = op /\ order' = order /\ Queued(w)
        /\ dataNext' = dataNext - 1 /\ cancelled' = cancelled /\ pc[w] = "undodata"
    BY <1>13 DEF UndoData
  <2>2. claim[w].kind = "none"
    BY <1>0, <2>1 DEF LocalInv
  <2>3. Claimers(c)' = Claimers(c)
    BY <1>7, <1>8, <2>1, <2>2
  <2>4. c =< dataNext <=> c =< dataNext'
    <3>1. w \in Undoing("undodata")
      BY <2>1 DEF Undoing
    <3>2. ~(dataNext =< Len(DataChunks))
      BY <3>1 DEF IndexInv, Overrun
    <3> QED BY <1>0, <2>1, <3>2
  <2>5. Holders(c)' = Holders(c)
    BY <1>3, <1>4, <2>1, <2>3
  <2>6. Dead => Dead'
    BY <1>7, <2>1
  <2> QED BY <1>0, <2>1, <2>4, <2>5, <2>6, KeepsAccount
<1>14. ASSUME NEW w \in Workers, LoadSkipBegin(w) PROVE Accounted(c)'
  <2>1. /\ reads' = reads /\ op' = op /\ order' = order
        /\ dataNext' = dataNext /\ cancelled' = cancelled
        /\ pc[w] = "loadskip" /\ pc' = [pc EXCEPT ![w] = "issue"]
        /\ claim' = [claim EXCEPT ![w] = [claim[w] EXCEPT !.begin = SkipOf(claim[w]).begin]]
    BY <1>14 DEF LoadSkipBegin
  <2>2. \A v \in Workers : claim'[v].kind = claim[v].kind /\ claim'[v].chunk = claim[v].chunk
    BY <1>0, <2>1 DEF Claims, Nothing
  <2>3. Claimers(c)' = Claimers(c)
    BY <2>2 DEF Claimers
  <2>4. Dead => Dead'
    BY <1>5, <2>1
  <2> QED BY <1>3, <1>4, <1>6, <2>1, <2>3, <2>4
<1>15. ASSUME NEW w \in Workers, CountDown(w) \/ StoreSkipEnd(w) PROVE Accounted(c)'
  <2>1. /\ reads' = reads /\ claim' = claim /\ order' = order
        /\ dataNext' = dataNext /\ cancelled' = cancelled
        /\ pc[w] \in {"countdown", "skipend"} /\ \E q : pc' = [pc EXCEPT ![w] = q]
        /\ op' = op \/ op' = [op EXCEPT ![w] = NoRead]
    BY <1>15 DEF CountDown, StoreSkipEnd
  <2>2. op[w].kind = "bitmap"
    BY <2>1 DEF LocalInv
  <2>3. Callbacks(c)' = Callbacks(c)
    BY <1>0, <2>1, <2>2 DEF Callbacks, NoRead
  <2>4. Dead => Dead'
    BY <1>5, <2>1
  <2> QED BY <1>3, <1>4, <1>6, <2>1, <2>3, <2>4
<1>16. Cardinality({}) = 0 /\ \A x : Cardinality({x}) = 1
  BY FS_EmptySet, FS_Singleton
<1>17. ASSUME NEW x,
              \/ Claimers(c)' = {} /\ DataReads(c)' = {x} /\ Callbacks(c)' = {} /\ Loads(c)' = {}
              \/ Claimers(c)' = {} /\ DataReads(c)' = {} /\ Callbacks(c)' = {x} /\ Loads(c)' = {}
              \/ Claimers(c)' = {} /\ DataReads(c)' = {} /\ Callbacks(c)' = {} /\ Loads(c)' = {x}
       PROVE  Holders(c)' = 1
  <2> DEFINE n1 == Cardinality(Claimers(c)')
             n2 == Cardinality(DataReads(c)')
             n3 == Cardinality(Callbacks(c)')
             n4 == Cardinality(Loads(c)')
  <2>1. CASE Claimers(c)' = {} /\ DataReads(c)' = {x} /\ Callbacks(c)' = {} /\ Loads(c)' = {}
    <3>1. n1 = 0 /\ n2 = 1 /\ n3 = 0 /\ n4 = 0
      BY <1>16, <2>1, Zenon
    <3> HIDE DEF n1, n2, n3, n4
    <3>2. n1 + n2 + n3 + n4 = 1
      BY <3>1
    <3> QED BY <1>1, <3>2, Zenon DEF n1, n2, n3, n4
  <2>2. CASE Claimers(c)' = {} /\ DataReads(c)' = {} /\ Callbacks(c)' = {x} /\ Loads(c)' = {}
    <3>1. n1 = 0 /\ n2 = 0 /\ n3 = 1 /\ n4 = 0
      BY <1>16, <2>2, Zenon
    <3> HIDE DEF n1, n2, n3, n4
    <3>2. n1 + n2 + n3 + n4 = 1
      BY <3>1
    <3> QED BY <1>1, <3>2, Zenon DEF n1, n2, n3, n4
  <2>3. CASE Claimers(c)' = {} /\ DataReads(c)' = {} /\ Callbacks(c)' = {} /\ Loads(c)' = {x}
    <3>1. n1 = 0 /\ n2 = 0 /\ n3 = 0 /\ n4 = 1
      BY <1>16, <2>3, Zenon
    <3> HIDE DEF n1, n2, n3, n4
    <3>2. n1 + n2 + n3 + n4 = 1
      BY <3>1
    <3> QED BY <1>1, <3>2, Zenon DEF n1, n2, n3, n4
  <2> QED BY <1>17, <2>1, <2>2, <2>3
<1>18. ASSUME NEW x, x \in Claimers(c) \/ x \in DataReads(c) \/ x \in Callbacks(c)
       PROVE  Holders(c) = 1
  <2> DEFINE n1 == Cardinality(Claimers(c))
             n2 == Cardinality(DataReads(c))
             n3 == Cardinality(Callbacks(c))
             n4 == Cardinality(Loads(c))
  <2>1. n1 = 1 \/ n2 = 1 \/ n3 = 1
    BY <1>0, <1>18, OnePlace
  <2>2. n1 \in Nat /\ n2 \in Nat /\ n3 \in Nat /\ n4 \in Nat /\ Holders(c) = n1 + n2 + n3 + n4
    BY <1>2
  <2> HIDE DEF n1, n2, n3, n4
  <2> QED BY <1>0, <2>1, <2>2
<1>19. ASSUME NEW w \in Workers, IssueRead(w) PROVE Accounted(c)'
  <2> DEFINE new == [kind |-> claim[w].kind, chunk |-> claim[w].chunk, begin |-> claim[w].begin,
                     end |-> SkipOf(claim[w]).end, issued |-> FALSE]
  <2>1. /\ reads' = reads \cup {new} /\ op' = op /\ order' = order /\ Queued(w)
        /\ dataNext' = dataNext /\ cancelled' = cancelled /\ pc[w] = "issue"
    BY <1>19 DEF IssueRead
  <2>2. new.kind = claim[w].kind /\ new.chunk = claim[w].chunk
    OBVIOUS
  <2> HIDE DEF new
  <2>3. claim' = [claim EXCEPT ![w] = Nothing] /\ (Dead => Dead')
    BY <1>7, <2>1
  <2>4. CASE claim[w].kind = "data" /\ claim[w].chunk = c
    <3>1. w \in Claimers(c)
      BY <2>4 DEF Claimers
    <3>2. /\ Claimers(c) = {w} /\ DataReads(c) = {} /\ Callbacks(c) = {} /\ Loads(c) = {}
      BY <1>0, <3>1, OnePlace
    <3>3. Claimers(c)' = {}
      BY <1>0, <2>3, <3>2 DEF Claimers, Nothing
    <3>4. DataReads(c)' = {new}
      BY <2>1, <2>2, <2>4, <3>2 DEF DataReads
    <3>5. Callbacks(c)' = {} /\ Loads(c)' = {}
      BY <1>4, <2>1, <3>2
    <3>6. Holders(c)' = 1
      BY <1>17, <3>3, <3>4, <3>5
    <3>7. Holders(c) = 1
      BY <1>0, <1>18, <3>1
    <3> QED BY <1>6, <2>1, <2>3, <3>6, <3>7
  <2>5. CASE ~(claim[w].kind = "data" /\ claim[w].chunk = c)
    <3>1. Claimers(c)' = Claimers(c)
      BY <1>8, <2>3, <2>5
    <3>2. DataReads(c)' = DataReads(c)
      BY <2>1, <2>2, <2>5 DEF DataReads
    <3> QED BY <1>3, <1>4, <1>6, <2>1, <2>3, <3>1, <3>2
  <2> QED BY <2>4, <2>5
<1>20. ASSUME NEW w \in Workers, Load(w) PROVE Accounted(c)'
  <2>1. /\ reads' = reads /\ claim' = claim /\ order' = Append(order, op[w].chunk)
        /\ op' = [op EXCEPT ![w] = NoRead] /\ op[w].kind = "data"
        /\ dataNext' = dataNext /\ cancelled' = cancelled
        /\ pc[w] = "process" /\ pc' = [pc EXCEPT ![w] = "idle"]
    BY <1>20 DEF Load
  <2>2. Dead => Dead'
    BY <1>5, <2>1
  <2>3. op[w].chunk \in Nat
    BY <1>0, <2>1 DEF ReadOps, NoRead
  <2>4. /\ order \in Seq(Nat) /\ Len(order) \in Nat /\ DOMAIN order = 1 .. Len(order)
        /\ DOMAIN order' = 1 .. Len(order) + 1
        /\ order'[Len(order) + 1] = op[w].chunk
        /\ \A i \in 1 .. Len(order) : order'[i] = order[i]
    BY <2>1, <2>3 DEF TypeInv
  <2>5. CASE op[w].chunk = c
    <3>1. w \in Callbacks(c)
      BY <2>1, <2>5 DEF Callbacks
    <3>2. /\ Callbacks(c) = {w} /\ DataReads(c) = {} /\ Claimers(c) = {} /\ Loads(c) = {}
      BY <1>0, <3>1, OnePlace
    <3>3. Callbacks(c)' = {}
      BY <1>0, <2>1, <3>2 DEF Callbacks, NoRead
    <3>4. Loads(c)' = {Len(order) + 1}
      <4>1. \A i \in 1 .. Len(order) : order[i] # c
        BY <2>4, <3>2 DEF Loads
      <4>2. \A i \in DOMAIN order' : order'[i] = c <=> i = Len(order) + 1
        BY <2>4, <2>5, <4>1
      <4> QED BY <2>4, <4>2 DEF Loads
    <3>5. Claimers(c)' = {} /\ DataReads(c)' = {}
      BY <1>4, <2>1, <3>2
    <3>6. Holders(c)' = 1
      BY <1>17, <3>3, <3>4, <3>5
    <3>7. Holders(c) = 1
      BY <1>0, <1>18, <3>1
    <3> QED BY <1>6, <2>1, <2>2, <3>6, <3>7
  <2>6. CASE op[w].chunk # c
    <3>1. Callbacks(c)' = Callbacks(c)
      BY <1>0, <2>1, <2>6 DEF Callbacks, NoRead
    <3>2. Loads(c)' = Loads(c)
      <4>1. \A i \in DOMAIN order' : order'[i] = c <=> i \in DOMAIN order /\ order[i] = c
        BY <2>4, <2>6
      <4>2. DOMAIN order \subseteq DOMAIN order'
        BY <2>4
      <4> QED BY <4>1, <4>2 DEF Loads
    <3> QED BY <1>3, <1>4, <1>6, <2>1, <2>2, <3>1, <3>2
  <2> QED BY <2>5, <2>6
<1>21. ASSUME NEW w \in Workers, NEW r \in reads, reads' = reads \ {r},
              claim' = claim, op' = op, order' = order, dataNext' = dataNext,
              cancelled => cancelled', Dead => Dead', cancelled' \/ Dead'
       PROVE  Accounted(c)'
  <2>1. CASE r.kind = "data" /\ r.chunk = c
    <3>1. r \in DataReads(c)
      BY <2>1 DEF DataReads
    <3>2. DataReads(c) = {r} /\ Callbacks(c) = {} /\ Claimers(c) = {} /\ Loads(c) = {}
      BY <1>0, <3>1, OnePlace
    <3>3. DataReads(c)' = {}
      BY <1>21, <3>2 DEF DataReads
    <3>4. Holders(c)' = 0
      BY <1>1, <1>4, <1>16, <1>21, <3>2, <3>3
    <3> QED BY <1>21, <3>4 DEF Accounted
  <2>2. CASE ~(r.kind = "data" /\ r.chunk = c)
    <3>1. DataReads(c)' = DataReads(c)
      BY <1>21, <2>2 DEF DataReads
    <3> QED BY <1>3, <1>4, <1>6, <1>21, <3>1
  <2> QED BY <2>1, <2>2
<1>22. ASSUME NEW w \in Workers, NEW r \in reads, PortIssues(w, r) PROVE Accounted(c)'
  <2> DEFINE new == [r EXCEPT !.issued = TRUE]
  <2>1. /\ claim' = claim /\ op' = op /\ order' = order
        /\ dataNext' = dataNext /\ cancelled' = cancelled /\ pc[w] = "idle"
        /\ \/ pc' = pc /\ reads' = (reads \ {r}) \cup {new}
           \/ pc' = [pc EXCEPT ![w] = "dead"] /\ reads' = reads \ {r}
    BY <1>22 DEF PortIssues
  <2>2. new.kind = r.kind /\ new.chunk = r.chunk
    BY DEF TypeInv, ReadOps
  <2> HIDE DEF new
  <2>3. CASE pc' = pc /\ reads' = (reads \ {r}) \cup {new}
    <3>0. Dead => Dead'
      BY <2>3 DEF Dead
    <3>1. CASE r.kind = "data" /\ r.chunk = c
      <4>1. r \in DataReads(c)
        BY <3>1 DEF DataReads
      <4>2. DataReads(c) = {r} /\ Callbacks(c) = {} /\ Claimers(c) = {} /\ Loads(c) = {}
        BY <1>0, <4>1, OnePlace
      <4>3. DataReads(c)' = {new}
        BY <2>2, <2>3, <3>1, <4>2 DEF DataReads
      <4>6. Claimers(c)' = {} /\ Callbacks(c)' = {} /\ Loads(c)' = {}
        BY <1>4, <2>1, <4>2
      <4>4. Holders(c)' = 1
        BY <1>17, <4>3, <4>6
      <4>5. Holders(c) = 1
        BY <1>0, <1>18, <4>1
      <4> QED BY <1>6, <2>1, <3>0, <4>4, <4>5
    <3>2. CASE ~(r.kind = "data" /\ r.chunk = c)
      <4>1. DataReads(c)' = DataReads(c)
        BY <2>2, <2>3, <3>2 DEF DataReads
      <4> QED BY <1>3, <1>4, <1>6, <2>1, <3>0, <4>1
    <3> QED BY <3>1, <3>2
  <2>4. CASE pc' = [pc EXCEPT ![w] = "dead"] /\ reads' = reads \ {r}
    <3>1. Dead'
      BY <1>0, <2>4 DEF Dead
    <3> QED BY <1>21, <2>1, <2>4, <3>1
  <2> QED BY <2>1, <2>3, <2>4
<1>23. ASSUME NEW w \in Workers, NEW r \in reads, Complete(w, r) PROVE Accounted(c)'
  <2>1. /\ claim' = claim /\ order' = order /\ reads' = reads \ {r}
        /\ dataNext' = dataNext /\ cancelled' = cancelled /\ pc[w] = "idle"
        /\ \/ cancelled /\ pc' = pc /\ op' = op
           \/ pc' = [pc EXCEPT ![w] = "claimbitmap"] /\ op' = [op EXCEPT ![w] = r]
    BY <1>23 DEF Complete
  <2>2. CASE cancelled /\ pc' = pc /\ op' = op
    <3>1. Dead => Dead'
      BY <2>2 DEF Dead
    <3> QED BY <1>21, <2>1, <2>2, <3>1
  <2>3. CASE pc' = [pc EXCEPT ![w] = "claimbitmap"] /\ op' = [op EXCEPT ![w] = r]
    <3>0. op[w].kind = "none" /\ (Dead => Dead')
      BY <1>5, <2>1, <2>3 DEF LocalInv
    <3>1. CASE r.kind = "data" /\ r.chunk = c
      <4>1. r \in DataReads(c)
        BY <3>1 DEF DataReads
      <4>2. DataReads(c) = {r} /\ Callbacks(c) = {} /\ Claimers(c) = {} /\ Loads(c) = {}
        BY <1>0, <4>1, OnePlace
      <4>3. DataReads(c)' = {}
        BY <2>1, <4>2 DEF DataReads
      <4>4. Callbacks(c)' = {w}
        BY <1>0, <2>3, <3>1, <4>2 DEF Callbacks
      <4>7. Claimers(c)' = {} /\ Loads(c)' = {}
        BY <1>4, <2>1, <4>2
      <4>5. Holders(c)' = 1
        BY <1>17, <4>3, <4>4, <4>7
      <4>6. Holders(c) = 1
        BY <1>0, <1>18, <4>1
      <4> QED BY <1>6, <2>1, <3>0, <4>5, <4>6
    <3>2. CASE ~(r.kind = "data" /\ r.chunk = c)
      <4>1. DataReads(c)' = DataReads(c)
        BY <2>1, <3>2 DEF DataReads
      <4>2. Callbacks(c)' = Callbacks(c)
        BY <1>0, <2>3, <3>0, <3>2 DEF Callbacks
      <4> QED BY <1>3, <1>4, <1>6, <2>1, <3>0, <4>1, <4>2
    <3> QED BY <3>1, <3>2
  <2> QED BY <2>1, <2>2, <2>3
<1> QED BY <1>9, <1>10, <1>11, <1>12, <1>13, <1>14, <1>15, <1>19, <1>20, <1>22, <1>23
        DEF Next, Callback, Payload, Port

-----------------------------------------------------------------------------
LEMMA InitInv == Init => TypeInv /\ LocalInv /\ IndexInv /\ HolderInv
<1> SUFFICES ASSUME Init PROVE TypeInv /\ LocalInv /\ IndexInv /\ HolderInv
  OBVIOUS
<1> USE DEF Init
<1>1. TypeInv
  BY FS_EmptySet DEF TypeInv, Points, Claims
<1>2. LocalInv
  BY DEF LocalInv, Nothing, NoRead
<1>3. IndexInv
  BY ChunkTypes DEF IndexInv, Overrun, Undoing
<1>4. ASSUME NEW c \in DOMAIN DataChunks PROVE Accounted(c)
  <2>1. Claimers(c) = {} /\ DataReads(c) = {} /\ Callbacks(c) = {} /\ Loads(c) = {}
    BY DEF Claimers, DataReads, Callbacks, Loads, Nothing, NoRead
  <2>2. Holders(c) = 0
    <3>1. Holders(c) = Cardinality(Claimers(c)) + Cardinality(DataReads(c))
                       + Cardinality(Callbacks(c)) + Cardinality(Loads(c))
      BY <1>1, HolderParts
    <3>2. Holders(c) = 0 + 0 + 0 + 0
      BY <2>1, <3>1, NoneUndoing, Zenon
    <3> QED BY <3>2
  <2>3. ~(c =< dataNext)
    BY ChunkTypes
  <2> QED BY <2>2, <2>3 DEF Accounted
<1> QED BY <1>1, <1>2, <1>3, <1>4 DEF HolderInv

\* Every data chunk the shared index has passed is in exactly one place until
\* it is loaded, and the shared indices exceed the chunk counts by at most one
\* and one for every worker: for any number of workers, any chunk lists, and a
\* failure or a cancellation at any moment.
THEOREM ChunksAccounted == Spec => []ChunkAccounting
<1> DEFINE Inv == TypeInv /\ LocalInv /\ IndexInv /\ HolderInv
<1>1. Init => Inv
  BY InitInv
<1>2. Inv /\ [Next]_vars => Inv'
  <2> SUFFICES ASSUME Inv, [Next]_vars PROVE Inv'
    OBVIOUS
  <2>1. TypeInv'
    BY NextType
  <2> QED BY <2>1, NextLocal, NextIndex, NextHolder
<1>3. Inv => ChunkAccounting
  <2> SUFFICES ASSUME Inv PROVE ChunkAccounting
    OBVIOUS
  <2>1. ASSUME NEW c \in DOMAIN DataChunks
        PROVE  IF cancelled \/ (\E w \in Workers : pc[w] = "dead") THEN Holders(c) =< 1
               ELSE Holders(c) = IF c =< dataNext THEN 1 ELSE 0
    <3>1. Accounted(c) /\ c \in Nat /\ dataNext \in Nat
      BY ChunkTypes DEF HolderInv, TypeInv
    <3>2. c > dataNext <=> ~(c =< dataNext)
      BY <3>1
    <3> QED BY <3>1, <3>2 DEF Accounted, Dead
  <2> QED BY <2>1, IndexBound DEF ChunkAccounting
<1> QED BY <1>1, <1>2, <1>3, PTL DEF Spec

-----------------------------------------------------------------------------
(***************************************************************************)
(* The records of a chunk, and what may be skipped of it.  A cluster is a  *)
(* whole number of records, so that the records of a chunk are those of    *)
(* its clusters.                                                           *)
(***************************************************************************)
LEMMA ExactQuotient ==
  ASSUME NEW m \in Nat, NEW r \in Nat \ {0}
  PROVE  (m * r) \div r = m
<1> DEFINE q == (m * r) \div r
<1>1. q \in Nat /\ q * r =< m * r /\ m * r < q * r + r
  BY QuotientBelow
<1> HIDE DEF q
<1>2. CASE q < m
  <2>1. q + 1 =< m
    BY <1>1, <1>2
  <2>2. (q + 1) * r =< m * r
    BY <1>1, <2>1
  <2> QED BY <1>1, <2>2
<1>3. CASE q > m
  <2>1. (m + 1) * r =< q * r
    BY <1>1, <1>3
  <2> QED BY <1>1, <2>1
<1> QED BY <1>1, <1>2, <1>3 DEF q

LEMMA WholeMultiple ==
  ASSUME NEW c \in Nat \ {0}, NEW r \in Nat \ {0}, c % r = 0
  PROVE  /\ c \div r \in Nat \ {0}
         /\ c = (c \div r) * r
<1>1. c = r * (c \div r) + (c % r)
  OBVIOUS
<1>2. c \div r \in Nat
  OBVIOUS
<1> QED BY <1>1, <1>2

\* Records per cluster.
PerCluster == ClusterSize \div RecordSize

LEMMA ClusterRecords ==
  /\ ClusterSize \in Nat \ {0} /\ RecordSize \in Nat \ {0} /\ PerCluster \in Nat \ {0}
  /\ ClusterSize = PerCluster * RecordSize
<1>1. ClusterSize \in Nat \ {0} /\ RecordSize \in Nat \ {0}
  BY SizesAssumption
<1> QED BY <1>1, ReaderAssumption, WholeMultiple DEF PerCluster

LEMMA RecordsOfClusters ==
  ASSUME NEW v \in Nat
  PROVE  (v * ClusterSize) \div RecordSize = v * PerCluster
<1>1. v * ClusterSize = (v * PerCluster) * RecordSize /\ v * PerCluster \in Nat
  BY ClusterRecords
<1>2. ((v * PerCluster) * RecordSize) \div RecordSize = v * PerCluster
  <2> DEFINE m == v * PerCluster
  <2>1. m \in Nat
    BY <1>1
  <2> HIDE DEF m
  <2>2. (m * RecordSize) \div RecordSize = m
    BY <2>1, ClusterRecords, ExactQuotient
  <2> QED BY <2>2 DEF m
<1> QED BY <1>1, <1>2

LEMMA ChunkRecords ==
  ASSUME NEW c \in [vcn : Nat, count : Nat \ {0}]
  PROVE  /\ FirstRecord(c) = c.vcn * PerCluster /\ FirstRecord(c) \in Nat
         /\ RecordCount(c) = c.count * PerCluster /\ RecordCount(c) \in Nat \ {0}
<1>1. c.vcn \in Nat /\ c.count \in Nat \ {0}
  OBVIOUS
<1>2. FirstRecord(c) = c.vcn * PerCluster /\ RecordCount(c) = c.count * PerCluster
  BY <1>1, RecordsOfClusters DEF FirstRecord, RecordCount
<1>3. c.vcn * PerCluster \in Nat /\ c.count * PerCluster \in Nat \ {0}
  BY <1>1, ClusterRecords
<1> QED BY <1>2, <1>3

\* What the scans of a bitmap find, from either end of a range.
LEMMA FirstSetFound ==
  ASSUME NEW B, NEW first \in Nat, NEW n \in Nat
  PROVE  /\ FindFirstSet(B, first, n) \in 0 .. n
         /\ \A i \in 0 .. FindFirstSet(B, first, n) - 1 : first + i \notin B
<1> DEFINE T == {i \in 0 .. n - 1 : first + i \in B} \cup {n}
<1>1. T \in SUBSET (0 .. n) /\ T # {}
  OBVIOUS
<1>2. Min(T) \in T /\ \A q \in T : Min(T) =< q
  <2> HIDE DEF T
  <2> QED BY <1>1, SmallestExists
<1>3. FindFirstSet(B, first, n) = Min(T)
  BY DEF FindFirstSet
<1> DEFINE m == Min(T)
<1>4. m \in 0 .. n
  BY <1>1, <1>2
<1>5. ASSUME NEW i \in 0 .. m - 1 PROVE first + i \notin B
  <2>1. i \notin T
    <3> HIDE DEF T
    <3> QED BY <1>2, <1>4
  <2>2. i \in 0 .. n - 1
    <3> HIDE DEF m
    <3> QED BY <1>4
  <2> QED BY <2>1, <2>2
<1> HIDE DEF T
<1> QED BY <1>3, <1>4, <1>5

LEMMA LastSetFound ==
  ASSUME NEW B, NEW first \in Nat, NEW n \in Nat, NEW skipped \in 0 .. n
  PROVE  /\ FindLastSet(B, first, n, skipped) \in 0 .. n - skipped
         /\ \A i \in 0 .. FindLastSet(B, first, n, skipped) - 1 : first + n - 1 - i \notin B
<1> DEFINE T == {i \in 0 .. n - skipped - 1 : first + n - 1 - i \in B} \cup {n - skipped}
           k == n - skipped
<1>0. k \in Nat
  OBVIOUS
<1>1. T \in SUBSET (0 .. k) /\ T # {}
  OBVIOUS
<1>2. Min(T) \in T /\ \A q \in T : Min(T) =< q
  <2> HIDE DEF T, k
  <2> QED BY <1>0, <1>1, SmallestExists
<1>3. FindLastSet(B, first, n, skipped) = Min(T)
  BY DEF FindLastSet
<1> DEFINE m == Min(T)
<1>4. m \in 0 .. k
  <2> HIDE DEF T, k
  <2> QED BY <1>1, <1>2
<1>5. ASSUME NEW i \in 0 .. m - 1 PROVE first + n - 1 - i \notin B
  <2>1. i \notin T
    <3> HIDE DEF T
    <3> QED BY <1>0, <1>2, <1>4
  <2>2. i \in 0 .. n - skipped - 1
    <3> HIDE DEF m
    <3> QED BY <1>4
  <2> QED BY <2>1, <2>2
<1> HIDE DEF T
<1> QED BY <1>3, <1>4, <1>5

\* What is skipped at either end of a chunk is as many whole clusters as the
\* scans found to have no record in use.
LEMMA SkipBounds ==
  ASSUME NEW c \in [vcn : Nat, count : Nat \ {0}], NEW B
  PROVE  LET first == FindFirstSet(B, FirstRecord(c), RecordCount(c))
             last == FindLastSet(B, FirstRecord(c), RecordCount(c), first)
         IN  SkipBegin(B, c) * PerCluster =< first /\ SkipEnd(B, c) * PerCluster =< last
<1> DEFINE F == FirstRecord(c)
           n == RecordCount(c)
           first == FindFirstSet(B, F, n)
           last == FindLastSet(B, F, n, first)
<1>1. F \in Nat /\ n \in Nat
  BY ChunkRecords
<1>2. first \in 0 .. n /\ last \in 0 .. n - first
  <2> HIDE DEF F, n
  <2> QED BY <1>1, FirstSetFound, LastSetFound
<1>3. ASSUME NEW x \in Nat
      PROVE  ((x * RecordSize) \div ClusterSize) * PerCluster =< x
  <2> DEFINE a == x * RecordSize
             q == a \div ClusterSize
  <2>1. a \in Nat
    BY ClusterRecords
  <2>2. q \in Nat /\ q * ClusterSize =< a
    <3> HIDE DEF a
    <3> QED BY <2>1, ClusterRecords, QuotientBelow
  <2> HIDE DEF q
  <2>3. (q * PerCluster) * RecordSize =< x * RecordSize
    BY <2>2, ClusterRecords
  <2>4. ASSUME NEW y \in Nat, y * RecordSize =< x * RecordSize PROVE y =< x
    <3>1. SUFFICES ASSUME x + 1 =< y PROVE FALSE
      OBVIOUS
    <3>2. (x + 1) * RecordSize =< y * RecordSize
      BY <3>1, ClusterRecords
    <3> QED BY <2>4, <3>2, ClusterRecords
  <2>5. q * PerCluster \in Nat
    BY <2>2, ClusterRecords
  <2>6. q * PerCluster =< x
    BY <2>3, <2>4, <2>5
  <2> QED BY <2>6 DEF q
<1>4. first \in Nat /\ last \in Nat
  BY <1>1, <1>2
<1>5. SkipBegin(B, c) = (first * RecordSize) \div ClusterSize
  BY DEF SkipBegin
<1>6. SkipEnd(B, c) = (last * RecordSize) \div ClusterSize
  BY DEF SkipEnd
<1> HIDE DEF first, last
<1>7. SkipBegin(B, c) * PerCluster =< first /\ SkipEnd(B, c) * PerCluster =< last
  BY <1>3, <1>4, <1>5, <1>6
<1> QED BY <1>7 DEF first, last, F, n

\* A read has the records of the clusters that it does not skip.
LEMMA RecordsReadAre ==
  ASSUME NEW c \in [vcn : Nat, count : Nat \ {0}], NEW b \in Nat, NEW e \in Nat,
         b + e =< c.count
  PROVE  RecordsRead(c, b, e) = (c.vcn + b) * PerCluster .. (c.vcn + c.count - e) * PerCluster - 1
<1> DEFINE v == c.vcn
           k == c.count
<1>1. v \in Nat /\ k \in Nat \ {0} /\ v + b \in Nat /\ v + k - e \in Nat
      /\ FirstRecord(c) = v * PerCluster /\ RecordCount(c) = k * PerCluster
  BY ChunkRecords
<1>2. ASSUME NEW x \in Nat, NEW y \in Nat
      PROVE  x * RecordSize >= y * ClusterSize <=> x >= y * PerCluster
  <2> DEFINE z == y * PerCluster
  <2>1. z \in Nat /\ y * ClusterSize = z * RecordSize
    BY ClusterRecords
  <2> HIDE DEF z
  <2>2. x >= z => x * RecordSize >= z * RecordSize
    BY <2>1, ClusterRecords
  <2>3. z >= x + 1 => z * RecordSize >= (x + 1) * RecordSize
    BY <2>1, ClusterRecords
  <2>4. x * RecordSize >= z * RecordSize <=> x >= z
    BY <2>1, <2>2, <2>3, ClusterRecords
  <2> QED BY <2>1, <2>4 DEF z
<1>3. ASSUME NEW x \in Nat, NEW y \in Nat
      PROVE  x * RecordSize =< y * ClusterSize <=> x =< y * PerCluster
  <2> DEFINE z == y * PerCluster
  <2>1. z \in Nat /\ y * ClusterSize = z * RecordSize
    BY ClusterRecords
  <2> HIDE DEF z
  <2>2. x =< z => x * RecordSize =< z * RecordSize
    BY <2>1, ClusterRecords
  <2>3. x >= z + 1 => x * RecordSize >= (z + 1) * RecordSize
    BY <2>1, ClusterRecords
  <2>4. x * RecordSize =< z * RecordSize <=> x =< z
    BY <2>1, <2>2, <2>3, ClusterRecords
  <2> QED BY <2>1, <2>4 DEF z
<1> DEFINE low == (v + b) * PerCluster
           high == (v + k - e) * PerCluster
<1>4. /\ low \in Nat /\ high \in Nat
      /\ v * PerCluster =< low /\ high =< v * PerCluster + k * PerCluster
  BY <1>1, ClusterRecords
<1>5. ASSUME NEW f \in Nat
      PROVE  f \in RecordsRead(c, b, e) <=> f \in low .. high - 1
  <2>1. f * RecordSize >= (v + b) * ClusterSize <=> f >= low
    BY <1>1, <1>2
  <2>2. (f + 1) * RecordSize =< (v + k - e) * ClusterSize <=> f + 1 =< high
    BY <1>1, <1>3
  <2>3. f \in RecordsRead(c, b, e) <=> f \in RecordsOf(c) /\ f >= low /\ f + 1 =< high
    BY <2>1, <2>2 DEF RecordsRead
  <2>4. f \in RecordsOf(c) <=> f >= v * PerCluster /\ f =< v * PerCluster + k * PerCluster - 1
    BY <1>1, ClusterRecords DEF RecordsOf
  <2> DEFINE s == v * PerCluster
             t == k * PerCluster
  <2>5. s \in Nat /\ t \in Nat
    BY <1>1, ClusterRecords
  <2> HIDE DEF low, high, s, t, v, k
  <2> QED BY <1>4, <2>3, <2>4, <2>5 DEF s, t
<1>6. RecordsRead(c, b, e) \subseteq Nat
  <2>1. RecordsRead(c, b, e) \subseteq RecordsOf(c)
    BY DEF RecordsRead
  <2>2. RecordsOf(c) \subseteq Nat
    BY ChunkRecords DEF RecordsOf
  <2> QED BY <2>1, <2>2
<1>7. low .. high - 1 \subseteq Nat
  <2> HIDE DEF low, high
  <2> QED BY <1>4
<1>8. RecordsRead(c, b, e) = low .. high - 1
  <2> HIDE DEF low, high
  <2> QED BY <1>5, <1>6, <1>7
<1> QED BY <1>8

\* No record that a bitmap shows is skipped, whether one, both or none of the
\* two values has been stored, and never more clusters than there are.
LEMMA SkipsNothingUsed ==
  ASSUME NEW c \in [vcn : Nat, count : Nat \ {0}], NEW B, NEW D, D \subseteq B,
         NEW b \in {0, SkipBegin(B, c)}, NEW e \in {0, SkipEnd(B, c)}
  PROVE  /\ b + e =< c.count
         /\ D \cap RecordsOf(c) \subseteq RecordsRead(c, b, e)
<1> DEFINE F == FirstRecord(c)
           n == RecordCount(c)
           first == FindFirstSet(B, F, n)
           last == FindLastSet(B, F, n, first)
           v == c.vcn
           k == c.count
<1>1. /\ F \in Nat /\ n \in Nat /\ v \in Nat /\ k \in Nat
      /\ F = v * PerCluster /\ n = k * PerCluster
  BY ChunkRecords
<1>2. /\ first \in 0 .. n /\ \A i \in 0 .. first - 1 : F + i \notin B
      /\ last \in 0 .. n - first /\ \A i \in 0 .. last - 1 : F + n - 1 - i \notin B
  <2> HIDE DEF F, n
  <2> QED BY <1>1, FirstSetFound, LastSetFound
<1>3. b \in Nat /\ e \in Nat /\ b * PerCluster =< first /\ e * PerCluster =< last
  <2>1. SkipBegin(B, c) \in Nat /\ SkipEnd(B, c) \in Nat
    BY SkipTypes
  <2>2. SkipBegin(B, c) * PerCluster =< first /\ SkipEnd(B, c) * PerCluster =< last
    BY SkipBounds
  <2>3. 0 =< first /\ 0 =< last
    <3> HIDE DEF first, last, F, n
    <3> QED BY <1>1, <1>2
  <2> HIDE DEF first, last, F, n
  <2>4. b \in Nat /\ b * PerCluster =< first
    BY <2>1, <2>2, <2>3, ClusterRecords
  <2>5. e \in Nat /\ e * PerCluster =< last
    BY <2>1, <2>2, <2>3, ClusterRecords
  <2> QED BY <2>4, <2>5
<1> HIDE DEF first, last, F, n
<1>4. b + e =< k
  <2>1. b * PerCluster + e * PerCluster =< k * PerCluster
    BY <1>1, <1>2, <1>3, ClusterRecords
  <2>2. SUFFICES ASSUME k + 1 =< b + e PROVE FALSE
    BY <1>1, <1>3 DEF k
  <2>3. (k + 1) * PerCluster =< (b + e) * PerCluster
    BY <1>1, <1>3, <2>2, ClusterRecords
  <2> QED BY <1>1, <1>3, <2>1, <2>3, ClusterRecords
<1>5. RecordsRead(c, b, e) = (v + b) * PerCluster .. (v + k - e) * PerCluster - 1
  BY <1>3, <1>4, RecordsReadAre
<1>6. /\ (v + b) * PerCluster = F + b * PerCluster
      /\ (v + k - e) * PerCluster = F + n - e * PerCluster
      /\ b * PerCluster \in Nat /\ e * PerCluster \in Nat
  BY <1>1, <1>3, <1>4, ClusterRecords
<1>7. ASSUME NEW f \in D, f \in RecordsOf(c)
      PROVE  f \in F + b * PerCluster .. (F + n - e * PerCluster) - 1
  <2>1. f \in F .. F + n - 1 /\ f \in B
    BY <1>7 DEF RecordsOf, F, n
  <2>2. f - F >= first
    <3>1. SUFFICES ASSUME f - F \in 0 .. first - 1 PROVE FALSE
      BY <1>1, <1>2, <2>1
    <3>2. F + (f - F) = f
      BY <1>1, <2>1
    <3>3. F + (f - F) \notin B
      BY <1>2, <3>1
    <3> QED BY <2>1, <3>2, <3>3
  <2>3. F + n - 1 - f >= last
    <3>1. SUFFICES ASSUME F + n - 1 - f \in 0 .. last - 1 PROVE FALSE
      BY <1>1, <1>2, <2>1
    <3>2. F + n - 1 - (F + n - 1 - f) = f
      BY <1>1, <2>1
    <3>3. F + n - 1 - (F + n - 1 - f) \notin B
      BY <1>2, <3>1
    <3> QED BY <2>1, <3>2, <3>3
  <2> DEFINE x == b * PerCluster
             y == e * PerCluster
  <2>4. x \in Nat /\ y \in Nat /\ x =< first /\ y =< last
    BY <1>3, <1>6
  <2> HIDE DEF x, y
  <2>5. f \in F + x .. (F + n - y) - 1
    BY <1>1, <1>2, <2>1, <2>2, <2>3, <2>4
  <2> QED BY <2>5 DEF x, y
<1>8. RecordsRead(c, b, e) = F + b * PerCluster .. (F + n - e * PerCluster) - 1
  <2> DEFINE low == (v + b) * PerCluster
             high == (v + k - e) * PerCluster
             low2 == F + b * PerCluster
             high2 == F + n - e * PerCluster
  <2>1. low = low2 /\ high = high2 /\ RecordsRead(c, b, e) = low .. high - 1
    BY <1>5, <1>6
  <2> HIDE DEF low, high, low2, high2
  <2>2. RecordsRead(c, b, e) = low2 .. high2 - 1
    BY <2>1
  <2> QED BY <2>2 DEF low2, high2
<1> QED BY <1>4, <1>7, <1>8 DEF k

-----------------------------------------------------------------------------
(***************************************************************************)
(* What is skipped is skipped for good reason.  Until the payload has      *)
(* started the reads nothing happens; afterwards the bitmap in memory      *)
(* shows every record in use, a chunk of the bitmap on its way (Outstanding*)
(* counts them) means that bitmap_chunks_remaining_ is not 0 and nothing   *)
(* is skipped yet, and whoever computes skip ranges does so with the       *)
(* bitmap that will not change any more.                                   *)
(***************************************************************************)
Unstarted ==
  /\ reads = {} /\ bitmapNext = 0 /\ bitmapLeft = 0 /\ ~volume
  /\ soFar = 0 /\ loaded = {} /\ preprocessed = 0 /\ order = <<>>
  /\ skip = [c \in DOMAIN DataChunks |-> [begin |-> 0, end |-> 0]]
  /\ \A w \in Workers : pc[w] \in {"idle", "setevent", "setcode"}
                        /\ op[w] = NoRead /\ claim[w] = Nothing
  /\ (event \/ \E w \in Workers : pc[w] # "idle") => payload = "taken"

Unclaimed ==
  IF bitmapNext < Len(BitmapChunks) THEN Len(BitmapChunks) - bitmapNext ELSE 0
BitmapClaims == {w \in Workers : claim[w].kind = "bitmap"}
BitmapReads  == {r \in reads : r.kind = "bitmap"}
BitmapCallbacks ==
  {w \in Workers : op[w].kind = "bitmap" /\ pc[w] \notin {"skipbegin", "skipend"}}

Outstanding ==
  Unclaimed + Cardinality(BitmapClaims) + Cardinality(BitmapReads)
  + Cardinality(BitmapCallbacks)

Chosen(c, b, e) ==
  /\ c \in DOMAIN DataChunks
  /\ b \in {0, SkipBegin(bits, DataChunks[c])}
  /\ e \in {0, SkipEnd(bits, DataChunks[c])}
  /\ bitmapLeft > 0 => b = 0 /\ e = 0

SkipInv ==
  /\ \A c \in DOMAIN DataChunks : Chosen(c, skip[c].begin, skip[c].end)
  /\ \A w \in Workers :
       /\ claim[w].kind = "data" => Chosen(claim[w].chunk, claim[w].begin, 0)
       /\ op[w].kind = "data" => Chosen(op[w].chunk, op[w].begin, op[w].end)
       /\ pc[w] \in {"skipbegin", "skipend"} => bitmapLeft = 0
  /\ \A r \in reads : r.kind = "data" => Chosen(r.chunk, r.begin, r.end)

CountInv == bitmapLeft \in Nat /\ Outstanding =< bitmapLeft

ShownInv ==
  /\ payload = "taken" /\ disk \subseteq bits
  /\ \A w \in Workers : pc[w] \notin {"setevent", "setcode"}

Running == CountInv /\ SkipInv /\ ShownInv

StartInv == disk \in Disks /\ (Unstarted \/ Running)

-----------------------------------------------------------------------------
\* Sizes of the places of bitmap chunks.
LEMMA OutstandingParts ==
  ASSUME TypeInv
  PROVE  /\ Unclaimed \in Nat
         /\ IsFiniteSet(BitmapClaims) /\ Cardinality(BitmapClaims) \in Nat
         /\ IsFiniteSet(BitmapReads) /\ Cardinality(BitmapReads) \in Nat
         /\ IsFiniteSet(BitmapCallbacks) /\ Cardinality(BitmapCallbacks) \in Nat
<1>1. BitmapClaims \subseteq Workers /\ BitmapCallbacks \subseteq Workers
      /\ BitmapReads \subseteq reads /\ IsFiniteSet(reads) /\ IsFiniteSet(Workers)
  BY ReaderAssumption DEF BitmapClaims, BitmapCallbacks, BitmapReads, TypeInv
<1>2. IsFiniteSet(BitmapClaims) /\ IsFiniteSet(BitmapCallbacks) /\ IsFiniteSet(BitmapReads)
  BY <1>1, FS_Subset
<1>3. Unclaimed \in Nat
  BY ChunkTypes DEF Unclaimed, TypeInv
<1> QED BY <1>2, <1>3, FS_CardinalityType

LEMMA OutstandingPartsNext ==
  ASSUME TypeInv'
  PROVE  /\ Unclaimed' \in Nat
         /\ Cardinality(BitmapClaims') \in Nat
         /\ Cardinality(BitmapReads') \in Nat
         /\ Cardinality(BitmapCallbacks') \in Nat
<1>1. BitmapClaims' \subseteq Workers /\ BitmapCallbacks' \subseteq Workers
      /\ BitmapReads' \subseteq reads' /\ IsFiniteSet(reads') /\ IsFiniteSet(Workers)
  BY ReaderAssumption DEF BitmapClaims, BitmapCallbacks, BitmapReads, TypeInv
<1>2. IsFiniteSet(BitmapClaims') /\ IsFiniteSet(BitmapCallbacks') /\ IsFiniteSet(BitmapReads')
  BY <1>1, FS_Subset
<1>3. Unclaimed' \in Nat
  BY ChunkTypes DEF Unclaimed, TypeInv
<1> QED BY <1>2, <1>3, FS_CardinalityType

\* One more or one fewer element.
LEMMA SizeMoves ==
  ASSUME NEW S, NEW T, IsFiniteSet(S)
  PROVE  /\ T \subseteq S => Cardinality(T) =< Cardinality(S)
         /\ \A x : T \subseteq S \cup {x} => Cardinality(T) =< Cardinality(S) + 1
         /\ \A x \in S : T \subseteq S \ {x} => Cardinality(T) =< Cardinality(S) - 1
<1>1. ASSUME T \subseteq S PROVE Cardinality(T) =< Cardinality(S)
  BY <1>1, FS_Subset
<1>2. ASSUME NEW x, T \subseteq S \cup {x} PROVE Cardinality(T) =< Cardinality(S) + 1
  <2>1. IsFiniteSet(S \cup {x}) /\ Cardinality(S \cup {x}) =< Cardinality(S) + 1
    <3>1. /\ IsFiniteSet(S \cup {x}) /\ Cardinality(S) \in Nat
          /\ Cardinality(S \cup {x}) = IF x \in S THEN Cardinality(S) ELSE Cardinality(S) + 1
      BY FS_AddElement, FS_CardinalityType
    <3> QED BY <3>1
  <2>2. Cardinality(T) =< Cardinality(S \cup {x}) /\ Cardinality(T) \in Nat
        /\ Cardinality(S \cup {x}) \in Nat
    BY <1>2, <2>1, FS_Subset, FS_CardinalityType
  <2> QED BY <2>1, <2>2, FS_CardinalityType
<1>3. ASSUME NEW x \in S, T \subseteq S \ {x} PROVE Cardinality(T) =< Cardinality(S) - 1
  <2>1. IsFiniteSet(S \ {x}) /\ Cardinality(S \ {x}) = Cardinality(S) - 1
    BY FS_RemoveElement
  <2> QED BY <1>3, <2>1, FS_Subset
<1> QED BY <1>1, <1>2, <1>3

\* Nothing new on its way.
LEMMA NoneAdded ==
  ASSUME TypeInv, TypeInv', CountInv, bitmapLeft' = bitmapLeft,
         Unclaimed' =< Unclaimed, BitmapClaims' \subseteq BitmapClaims,
         Cardinality(BitmapReads') =< Cardinality(BitmapReads),
         BitmapCallbacks' \subseteq BitmapCallbacks
  PROVE  CountInv'
<1>1. /\ Unclaimed \in Nat /\ Cardinality(BitmapClaims) \in Nat
      /\ Cardinality(BitmapReads) \in Nat /\ Cardinality(BitmapCallbacks) \in Nat
      /\ IsFiniteSet(BitmapClaims) /\ IsFiniteSet(BitmapCallbacks)
  BY OutstandingParts
<1>2. /\ Unclaimed' \in Nat /\ Cardinality(BitmapClaims') \in Nat
      /\ Cardinality(BitmapReads') \in Nat /\ Cardinality(BitmapCallbacks') \in Nat
  BY OutstandingPartsNext
<1>3. Cardinality(BitmapClaims') =< Cardinality(BitmapClaims)
      /\ Cardinality(BitmapCallbacks') =< Cardinality(BitmapCallbacks)
  BY <1>1, SizeMoves
<1> QED BY <1>1, <1>2, <1>3 DEF CountInv, Outstanding

\* Values that were chosen stay so while the bitmap does, and as long as there
\* is anything to come for it they are 0.
LEMMA ChosenStays ==
  ASSUME bitmapLeft \in Nat, bitmapLeft' \in Nat,
         \/ bits' = bits /\ bitmapLeft' =< bitmapLeft
         \/ bitmapLeft > 0,
         NEW c, NEW b, NEW e, Chosen(c, b, e)
  PROVE  Chosen(c, b, e)'
<1>1. CASE bits' = bits /\ bitmapLeft' =< bitmapLeft
  BY <1>1 DEF Chosen
<1>2. CASE bitmapLeft > 0
  <2>1. b = 0 /\ e = 0 /\ c \in DOMAIN DataChunks
    BY <1>2 DEF Chosen
  <2> QED BY <2>1 DEF Chosen
<1> QED BY <1>1, <1>2

LEMMA OwnerLeaves ==
  ASSUME Owner
  PROVE  /\ disk' = disk /\ bits' = bits /\ bitmapLeft' = bitmapLeft
         /\ payload' = payload \/ payload = "new"
<1> USE DEF readerVars
<1>1. CASE PostPayload
  BY <1>1 DEF PostPayload
<1>2. CASE Cancel
  BY <1>2 DEF Cancel
<1>3. CASE Wake
  BY <1>3 DEF Wake
<1>4. CASE CheckCode
  BY <1>4 DEF CheckCode
<1>5. CASE Search
  BY <1>5 DEF Search
<1> QED BY <1>1, <1>2, <1>3, <1>4, <1>5 DEF Owner

\* bitmap_chunks_remaining_ covers the chunks of the bitmap on their way.
LEMMA NextCount ==
  ASSUME TypeInv, TypeInv', LocalInv, IndexInv, Running, [Next]_vars
  PROVE  CountInv'
<1>0. /\ CountInv /\ payload = "taken" /\ bitmapLeft \in Nat
      /\ \A v \in Workers : pc[v] \notin {"setevent", "setcode"}
      /\ pc \in [Workers -> Points] /\ op \in [Workers -> ReadOps \cup {NoRead}]
      /\ claim \in [Workers -> Claims] /\ bitmapNext \in Nat
  BY DEF Running, ShownInv, CountInv, TypeInv
<1>1. ASSUME bitmapLeft' = bitmapLeft, bitmapNext' = bitmapNext, claim' = claim,
             reads' = reads, op' = op, pc' = pc
      PROVE  CountInv'
  BY <1>0, <1>1 DEF CountInv, Outstanding, Unclaimed, BitmapClaims, BitmapReads, BitmapCallbacks
<1>2. ASSUME NEW w \in Workers, bitmapLeft' = bitmapLeft,
             \/ bitmapNext' = bitmapNext
             \/ bitmapNext >= Len(BitmapChunks) /\ bitmapNext' >= Len(BitmapChunks),
             reads' = reads,
             \A v \in Workers : v # w => claim'[v] = claim[v] /\ op'[v] = op[v] /\ pc'[v] = pc[v],
             claim'[w].kind = "bitmap" => claim[w].kind = "bitmap",
             op'[w].kind = "bitmap" /\ pc'[w] \notin {"skipbegin", "skipend"}
               => op[w].kind = "bitmap" /\ pc[w] \notin {"skipbegin", "skipend"}
      PROVE  CountInv'
  <2>1. BitmapClaims' \subseteq BitmapClaims
    BY <1>2 DEF BitmapClaims
  <2>2. BitmapCallbacks' \subseteq BitmapCallbacks
    BY <1>2 DEF BitmapCallbacks
  <2>3. BitmapReads' = BitmapReads
    BY <1>2 DEF BitmapReads
  <2>4. Unclaimed' = Unclaimed /\ Unclaimed \in Nat
    BY <1>0, <1>2, ChunkTypes DEF Unclaimed, TypeInv
  <2>5. Cardinality(BitmapReads) \in Nat
    BY OutstandingParts
  <2> QED BY <1>0, <1>2, <2>1, <2>2, <2>3, <2>4, <2>5, NoneAdded
<1> USE DEF At, Goto, readerVars, workerVars, indexVars
<1>3. CASE Owner \/ UNCHANGED vars
  <2>1. pc' = pc /\ op' = op /\ claim' = claim /\ reads' = reads
        /\ bitmapNext' = bitmapNext /\ bitmapLeft' = bitmapLeft
    BY <1>3, OwnerEffect, OwnerLeaves DEF chunkVars, vars
  <2> QED BY <1>1, <2>1
<1>4. ASSUME NEW w \in Workers, SetEvent(w) \/ SetCode(w) \/ PayloadFails(w) \/ PayloadStarts(w)
      PROVE  CountInv'
  BY <1>0, <1>4 DEF SetEvent, SetCode, PayloadFails, PayloadStarts
<1>5. ASSUME NEW w \in Workers, ClaimBitmap(w) PROVE CountInv'
  <2>1. /\ reads' = reads /\ op' = op /\ bitmapLeft' = bitmapLeft /\ pc[w] = "claimbitmap"
        /\ bitmapNext' = bitmapNext + 1
    BY <1>5 DEF ClaimBitmap
  <2>2. CASE bitmapNext < Len(BitmapChunks)
    <3>1. claim' = [claim EXCEPT ![w] = [kind |-> "bitmap", chunk |-> bitmapNext + 1, begin |-> 0]]
          /\ pc' = [pc EXCEPT ![w] = "loadskip"]
      BY <1>5, <2>2 DEF ClaimBitmap
    <3>2. BitmapClaims' \subseteq BitmapClaims \cup {w}
      BY <1>0, <3>1 DEF BitmapClaims
    <3>3. BitmapReads' = BitmapReads /\ BitmapCallbacks' = BitmapCallbacks
      BY <1>0, <2>1, <3>1 DEF BitmapReads, BitmapCallbacks
    <3>4. Unclaimed' = Unclaimed - 1
      <4>1. ASSUME NEW x \in Nat, NEW y \in Nat, x < y
            PROVE  (IF x + 1 < y THEN y - (x + 1) ELSE 0) = (IF x < y THEN y - x ELSE 0) - 1
        BY <4>1
      <4> QED BY <1>0, <2>1, <2>2, <4>1, ChunkTypes DEF Unclaimed
    <3>5. Cardinality(BitmapClaims') =< Cardinality(BitmapClaims) + 1
      BY <3>2, OutstandingParts, SizeMoves
    <3>6. Cardinality(BitmapClaims') \in Nat
      BY OutstandingPartsNext
    <3> QED BY <1>0, <2>1, <3>3, <3>4, <3>5, <3>6, OutstandingParts DEF CountInv, Outstanding
  <2>3. CASE ~(bitmapNext < Len(BitmapChunks))
    <3>1. claim' = claim /\ \E q \in {"undobitmap", "claimdata"} : pc' = [pc EXCEPT ![w] = q]
      BY <1>5, <2>3 DEF ClaimBitmap
    <3>2. bitmapNext >= Len(BitmapChunks) /\ bitmapNext' >= Len(BitmapChunks)
      BY <1>0, <2>1, <2>3, ChunkTypes
    <3> QED BY <1>0, <1>2, <2>1, <3>1, <3>2
  <2> QED BY <2>2, <2>3
<1>6. ASSUME NEW w \in Workers, UndoBitmap(w) PROVE CountInv'
  <2>1. /\ reads' = reads /\ op' = op /\ bitmapLeft' = bitmapLeft /\ pc[w] = "undobitmap"
        /\ bitmapNext' = bitmapNext - 1 /\ claim' = claim
        /\ pc' = [pc EXCEPT ![w] = "claimdata"]
    BY <1>6 DEF UndoBitmap
  <2>2. bitmapNext >= Len(BitmapChunks) /\ bitmapNext' >= Len(BitmapChunks)
    <3>1. w \in Undoing("undobitmap")
      BY <2>1 DEF Undoing
    <3>2. ~(bitmapNext =< Len(BitmapChunks))
      BY <3>1 DEF IndexInv, Overrun
    <3> QED BY <1>0, <2>1, <3>2, ChunkTypes
  <2> QED BY <1>0, <1>2, <2>1, <2>2
<1>7. ASSUME NEW w \in Workers, ClaimData(w) \/ UndoData(w) PROVE CountInv'
  <2>1. /\ reads' = reads /\ op' = op /\ bitmapLeft' = bitmapLeft
        /\ bitmapNext' = bitmapNext /\ pc[w] \in {"claimdata", "undodata"}
    BY <1>7 DEF ClaimData, UndoData
  <2>2. /\ \E q \in Points : pc' = [pc EXCEPT ![w] = q]
        /\ \/ claim' = claim
           \/ claim' = [claim EXCEPT ![w] = Nothing]
           \/ claim' = [claim EXCEPT ![w] = [kind |-> "data", chunk |-> dataNext + 1, begin |-> 0]]
    BY <1>7, QueuedGoes DEF ClaimData, UndoData, Points
  <2>3. claim'[w].kind = "bitmap" => claim[w].kind = "bitmap"
    BY <1>0, <2>2 DEF Nothing
  <2> QED BY <1>0, <1>2, <2>1, <2>2, <2>3
<1>8. ASSUME NEW w \in Workers, LoadSkipBegin(w) \/ CopyBitmap(w) PROVE CountInv'
  <2>1. /\ reads' = reads /\ op' = op /\ bitmapLeft' = bitmapLeft /\ bitmapNext' = bitmapNext
        /\ pc[w] \notin {"skipbegin", "skipend"}
        /\ \E q \in Points : pc' = [pc EXCEPT ![w] = q]
        /\ \/ claim' = claim
           \/ claim' = [claim EXCEPT ![w].begin = SkipOf(claim[w]).begin]
    BY <1>8 DEF LoadSkipBegin, CopyBitmap, Points
  <2>2. claim'[w].kind = "bitmap" => claim[w].kind = "bitmap"
    BY <1>0, <2>1 DEF Claims, Nothing
  <2> QED BY <1>0, <1>2, <2>1, <2>2
<1>9. ASSUME NEW w \in Workers, IssueRead(w) PROVE CountInv'
  <2> DEFINE new == [kind |-> claim[w].kind, chunk |-> claim[w].chunk, begin |-> claim[w].begin,
                     end |-> SkipOf(claim[w]).end, issued |-> FALSE]
  <2>1. /\ reads' = reads \cup {new} /\ op' = op /\ bitmapLeft' = bitmapLeft
        /\ bitmapNext' = bitmapNext /\ pc[w] = "issue" /\ new.kind = claim[w].kind
        /\ claim' = [claim EXCEPT ![w] = Nothing]
        /\ \E q \in {"claimbitmap", "idle", "process"} : pc' = [pc EXCEPT ![w] = q]
    BY <1>9, QueuedGoes DEF IssueRead
  <2> HIDE DEF new
  <2>2. BitmapCallbacks' = BitmapCallbacks /\ Unclaimed' = Unclaimed
    BY <1>0, <2>1 DEF BitmapCallbacks, Unclaimed
  <2>3. CASE claim[w].kind = "bitmap"
    <3>1. w \in BitmapClaims /\ BitmapClaims' \subseteq BitmapClaims \ {w}
      BY <1>0, <2>1, <2>3 DEF BitmapClaims, Nothing
    <3>2. BitmapReads' \subseteq BitmapReads \cup {new}
      BY <2>1 DEF BitmapReads
    <3>3. Cardinality(BitmapClaims') =< Cardinality(BitmapClaims) - 1
          /\ Cardinality(BitmapReads') =< Cardinality(BitmapReads) + 1
      BY <3>1, <3>2, OutstandingParts, SizeMoves
    <3>4. Cardinality(BitmapClaims') \in Nat /\ Cardinality(BitmapReads') \in Nat
      BY OutstandingPartsNext
    <3> QED BY <1>0, <2>1, <2>2, <3>3, <3>4, OutstandingParts DEF CountInv, Outstanding
  <2>4. CASE claim[w].kind # "bitmap"
    <3>1. BitmapClaims' \subseteq BitmapClaims
      BY <1>0, <2>1, <2>4 DEF BitmapClaims, Nothing
    <3>2. BitmapReads' = BitmapReads
      BY <2>1, <2>4 DEF BitmapReads
    <3> QED BY <1>0, <2>1, <2>2, <3>1, <3>2, OutstandingParts, NoneAdded
  <2> QED BY <2>3, <2>4
<1>10. ASSUME NEW w \in Workers, CountDown(w) PROVE CountInv'
  <2>1. /\ reads' = reads /\ claim' = claim /\ bitmapNext' = bitmapNext
        /\ bitmapLeft' = bitmapLeft - 1 /\ pc[w] = "countdown"
        /\ \/ op' = op /\ pc' = [pc EXCEPT ![w] = "skipbegin"]
           \/ op' = [op EXCEPT ![w] = NoRead] /\ pc' = [pc EXCEPT ![w] = "idle"]
    BY <1>10 DEF CountDown
  <2>2. w \in BitmapCallbacks
    BY <2>1 DEF BitmapCallbacks, LocalInv
  <2>3. BitmapCallbacks' \subseteq BitmapCallbacks \ {w}
    BY <1>0, <2>1 DEF BitmapCallbacks, NoRead
  <2>4. Cardinality(BitmapCallbacks') =< Cardinality(BitmapCallbacks) - 1
    BY <2>2, <2>3, OutstandingParts, SizeMoves
  <2>5. Cardinality(BitmapCallbacks') \in Nat
    BY OutstandingPartsNext
  <2>6. Unclaimed' = Unclaimed /\ BitmapClaims' = BitmapClaims /\ BitmapReads' = BitmapReads
    BY <2>1 DEF Unclaimed, BitmapClaims, BitmapReads
  <2> QED BY <1>0, <2>1, <2>4, <2>5, <2>6, OutstandingParts DEF CountInv, Outstanding
<1>11. ASSUME NEW w \in Workers, StoreSkipBegin(w) \/ StoreSkipEnd(w) PROVE CountInv'
  <2>1. /\ reads' = reads /\ claim' = claim /\ bitmapNext' = bitmapNext
        /\ bitmapLeft' = bitmapLeft
        /\ \/ op' = op /\ \E q \in {"skipbegin", "skipend"} : pc' = [pc EXCEPT ![w] = q]
           \/ op' = [op EXCEPT ![w] = NoRead] /\ pc' = [pc EXCEPT ![w] = "idle"]
    BY <1>11 DEF StoreSkipBegin, StoreSkipEnd
  <2>2. op'[w].kind = "bitmap" /\ pc'[w] \notin {"skipbegin", "skipend"}
          => op[w].kind = "bitmap" /\ pc[w] \notin {"skipbegin", "skipend"}
    BY <1>0, <2>1 DEF NoRead
  <2> QED BY <1>0, <1>2, <2>1, <2>2
<1>12. ASSUME NEW w \in Workers, Load(w) PROVE CountInv'
  <2>1. /\ reads' = reads /\ claim' = claim /\ bitmapNext' = bitmapNext
        /\ bitmapLeft' = bitmapLeft
        /\ op' = [op EXCEPT ![w] = NoRead] /\ pc' = [pc EXCEPT ![w] = "idle"]
    BY <1>12 DEF Load
  <2>2. op'[w].kind # "bitmap"
    BY <1>0, <2>1 DEF NoRead
  <2> QED BY <1>0, <1>2, <2>1, <2>2
<1>13. ASSUME NEW w \in Workers, NEW r \in reads, PortIssues(w, r) PROVE CountInv'
  <2> DEFINE new == [r EXCEPT !.issued = TRUE]
  <2>1. /\ claim' = claim /\ op' = op /\ bitmapNext' = bitmapNext
        /\ bitmapLeft' = bitmapLeft /\ pc[w] = "idle"
        /\ reads' \subseteq (reads \ {r}) \cup {new}
        /\ (pc' = pc \/ pc' = [pc EXCEPT ![w] = "dead"])
    BY <1>13 DEF PortIssues
  <2>2. new.kind = r.kind
    BY DEF TypeInv, ReadOps
  <2> HIDE DEF new
  <2>3. op[w].kind = "none"
    BY <2>1 DEF LocalInv
  <2>4. BitmapCallbacks' \subseteq BitmapCallbacks
    BY <1>0, <2>1, <2>3 DEF BitmapCallbacks
  <2>5. BitmapClaims' = BitmapClaims /\ Unclaimed' = Unclaimed
    BY <2>1 DEF BitmapClaims, Unclaimed
  <2>6. Cardinality(BitmapReads') =< Cardinality(BitmapReads)
    <3>1. CASE r.kind = "bitmap"
      <4>1. r \in BitmapReads /\ BitmapReads' \subseteq (BitmapReads \ {r}) \cup {new}
        BY <2>1, <3>1 DEF BitmapReads
      <4>2. /\ IsFiniteSet(BitmapReads \ {r})
            /\ Cardinality(BitmapReads \ {r}) = Cardinality(BitmapReads) - 1
        BY <4>1, OutstandingParts, FS_RemoveElement
      <4>3. Cardinality(BitmapReads') =< Cardinality(BitmapReads \ {r}) + 1
        BY <4>1, <4>2, SizeMoves
      <4> QED BY <4>2, <4>3, OutstandingParts
    <3>2. CASE r.kind # "bitmap"
      <4>1. BitmapReads' \subseteq BitmapReads
        BY <2>1, <2>2, <3>2 DEF BitmapReads
      <4> QED BY <4>1, OutstandingParts, SizeMoves
    <3> QED BY <3>1, <3>2
  <2> QED BY <1>0, <2>1, <2>4, <2>5, <2>6, OutstandingParts, NoneAdded
<1>14. ASSUME NEW w \in Workers, NEW r \in reads, Complete(w, r) PROVE CountInv'
  <2>1. /\ claim' = claim /\ reads' = reads \ {r} /\ bitmapNext' = bitmapNext
        /\ bitmapLeft' = bitmapLeft
        /\ \/ pc' = pc /\ op' = op
           \/ pc' = [pc EXCEPT ![w] = "claimbitmap"] /\ op' = [op EXCEPT ![w] = r]
    BY <1>14 DEF Complete
  <2>2. BitmapClaims' = BitmapClaims /\ Unclaimed' = Unclaimed
    BY <2>1 DEF BitmapClaims, Unclaimed
  <2>3. BitmapReads' \subseteq BitmapReads
    BY <2>1 DEF BitmapReads
  <2>4. CASE (pc' = pc /\ op' = op) \/ r.kind # "bitmap"
    <3>1. BitmapCallbacks' \subseteq BitmapCallbacks
      BY <1>0, <2>1, <2>4 DEF BitmapCallbacks
    <3> QED BY <1>0, <2>1, <2>2, <2>3, <3>1, OutstandingParts, SizeMoves, NoneAdded
  <2>5. CASE op' = [op EXCEPT ![w] = r] /\ pc' = [pc EXCEPT ![w] = "claimbitmap"]
             /\ r.kind = "bitmap"
    <3>1. BitmapCallbacks' \subseteq BitmapCallbacks \cup {w}
      BY <1>0, <2>5 DEF BitmapCallbacks
    <3>2. r \in BitmapReads /\ BitmapReads' \subseteq BitmapReads \ {r}
      BY <2>1, <2>5 DEF BitmapReads
    <3>3. /\ Cardinality(BitmapReads') =< Cardinality(BitmapReads) - 1
          /\ Cardinality(BitmapCallbacks') =< Cardinality(BitmapCallbacks) + 1
      BY <3>1, <3>2, OutstandingParts, SizeMoves
    <3>4. Cardinality(BitmapReads') \in Nat /\ Cardinality(BitmapCallbacks') \in Nat
      BY OutstandingPartsNext
    <3> QED BY <1>0, <2>1, <2>2, <3>3, <3>4, OutstandingParts DEF CountInv, Outstanding
  <2> QED BY <2>1, <2>4, <2>5
<1> QED BY <1>3, <1>4, <1>5, <1>6, <1>7, <1>8, <1>9, <1>10, <1>11, <1>12, <1>13, <1>14
        DEF Next, Callback, Payload, Port

\* Only the last callback of the bitmap has anything to skip, and what it
\* stores in two steps, others load in two.
LEMMA NextSkip ==
  ASSUME TypeInv, TypeInv', LocalInv, Running, CountInv', [Next]_vars
  PROVE  SkipInv'
<1>0. /\ SkipInv /\ payload = "taken" /\ bitmapLeft \in Nat /\ bitmapLeft' \in Nat
      /\ \A v \in Workers : pc[v] \notin {"setevent", "setcode"}
      /\ pc \in [Workers -> Points] /\ op \in [Workers -> ReadOps \cup {NoRead}]
      /\ claim \in [Workers -> Claims] /\ reads \subseteq ReadOps /\ dataNext \in Nat
      /\ skip \in [DOMAIN DataChunks -> [begin : Nat, end : Nat]]
  BY DEF Running, ShownInv, CountInv, TypeInv
<1> DEFINE Skips == \A c \in DOMAIN DataChunks : Chosen(c, skip[c].begin, skip[c].end)
           Claimed(v) == claim[v].kind = "data" => Chosen(claim[v].chunk, claim[v].begin, 0)
           Called(v) == op[v].kind = "data" => Chosen(op[v].chunk, op[v].begin, op[v].end)
           Storing(v) == pc[v] \in {"skipbegin", "skipend"} => bitmapLeft = 0
           Held == \A r \in reads : r.kind = "data" => Chosen(r.chunk, r.begin, r.end)
           Keeps == /\ bits' = bits \/ bitmapLeft > 0
                    /\ bitmapLeft' =< bitmapLeft
           Same(v) == claim'[v] = claim[v] /\ op'[v] = op[v] /\ pc'[v] = pc[v]
<1>1. /\ Skips /\ Held
      /\ \A v \in Workers : Claimed(v) /\ Called(v) /\ Storing(v)
  BY <1>0 DEF SkipInv
<1>2. ASSUME Keeps
      PROVE  \A c, b, e : Chosen(c, b, e) => Chosen(c, b, e)'
  BY <1>0, <1>2, ChosenStays
<1>3. Keeps /\ skip' = skip => Skips'
  BY <1>1, <1>2
<1>4. Keeps /\ reads' \subseteq reads => Held'
  BY <1>1, <1>2
<1>5. ASSUME Keeps, NEW v \in Workers PROVE /\ claim'[v] = claim[v] => Claimed(v)'
                                            /\ op'[v] = op[v] => Called(v)'
                                            /\ pc'[v] = pc[v] => Storing(v)'
  <2>1. claim'[v] = claim[v] => Claimed(v)'
    BY <1>1, <1>2, <1>5
  <2>2. op'[v] = op[v] => Called(v)'
    BY <1>1, <1>2, <1>5
  <2>3. pc'[v] = pc[v] => Storing(v)'
    BY <1>0, <1>1, <1>5
  <2> QED BY <2>1, <2>2, <2>3
<1>6. ASSUME NEW w \in Workers, Keeps, Skips', Held',
             \A v \in Workers : v # w => Same(v),
             Claimed(w)', Called(w)', Storing(w)'
      PROVE  SkipInv'
  <2>1. \A v \in Workers : Claimed(v)' /\ Called(v)' /\ Storing(v)'
    <3> HIDE DEF Claimed, Called, Storing, Keeps
    <3> QED BY <1>5, <1>6
  <2> QED BY <1>6, <2>1 DEF SkipInv
<1> USE DEF At, Goto, readerVars, workerVars, indexVars
<1>7. CASE Owner \/ UNCHANGED vars
  <2>1. /\ pc' = pc /\ op' = op /\ claim' = claim /\ reads' = reads /\ skip' = skip
        /\ bits' = bits /\ bitmapLeft' = bitmapLeft
    BY <1>7, OwnerEffect, OwnerLeaves DEF chunkVars, vars
  <2> QED BY <1>0, <2>1 DEF SkipInv, Chosen
<1>8. ASSUME NEW w \in Workers, SetEvent(w) \/ SetCode(w) \/ PayloadFails(w) \/ PayloadStarts(w)
      PROVE  SkipInv'
  BY <1>0, <1>8 DEF SetEvent, SetCode, PayloadFails, PayloadStarts
<1>9. ASSUME NEW w \in Workers, bits' = bits, bitmapLeft' = bitmapLeft, skip' = skip,
             reads' = reads, op' = op, \A v \in Workers : v # w => Same(v),
             pc'[w] \notin {"skipbegin", "skipend"},
             Claimed(w)'
      PROVE  SkipInv'
  <2>1. Keeps /\ Skips' /\ Held' /\ Called(w)'
    BY <1>0, <1>3, <1>4, <1>5, <1>9
  <2>2. Storing(w)'
    BY <1>9
  <2> HIDE DEF Keeps, Skips, Held, Called, Storing, Claimed
  <2> QED BY <1>6, <1>9, <2>1, <2>2
<1>10. ASSUME NEW w \in Workers, ClaimBitmap(w) \/ UndoBitmap(w) PROVE SkipInv'
  <2>1. /\ bits' = bits /\ bitmapLeft' = bitmapLeft /\ skip' = skip /\ reads' = reads
        /\ op' = op
        /\ \E q \in {"loadskip", "undobitmap", "claimdata"} : pc' = [pc EXCEPT ![w] = q]
        /\ \/ claim' = claim
           \/ claim' = [claim EXCEPT ![w] = [kind |-> "bitmap", chunk |-> bitmapNext + 1,
                                             begin |-> 0]]
    BY <1>10 DEF ClaimBitmap, UndoBitmap
  <2>2. Claimed(w)'
    <3>1. claim' = claim => Claimed(w)'
      BY <1>0, <1>5, <2>1
    <3> QED BY <1>0, <2>1, <3>1
  <2> HIDE DEF Claimed
  <2> QED BY <1>0, <1>9, <2>1, <2>2
<1>11. ASSUME NEW w \in Workers, ClaimData(w) \/ UndoData(w) PROVE SkipInv'
  <2>1. /\ bits' = bits /\ bitmapLeft' = bitmapLeft /\ skip' = skip /\ reads' = reads
        /\ op' = op
        /\ \E q \in {"loadskip", "undodata", "claimbitmap", "idle", "process"} :
             pc' = [pc EXCEPT ![w] = q]
        /\ \/ claim' = claim
           \/ claim' = [claim EXCEPT ![w] = Nothing]
           \/ /\ dataNext < Len(DataChunks)
              /\ claim' = [claim EXCEPT ![w] = [kind |-> "data", chunk |-> dataNext + 1,
                                                begin |-> 0]]
    BY <1>11, QueuedGoes DEF ClaimData, UndoData
  <2>2. Claimed(w)'
    <3>1. CASE claim' = claim
      BY <1>0, <1>5, <2>1, <3>1
    <3>2. CASE claim' = [claim EXCEPT ![w] = Nothing]
      BY <1>0, <3>2 DEF Nothing
    <3>3. CASE /\ dataNext < Len(DataChunks)
               /\ claim' = [claim EXCEPT ![w] = [kind |-> "data", chunk |-> dataNext + 1,
                                                 begin |-> 0]]
      <4>1. PICK c \in DOMAIN DataChunks : c = dataNext + 1
        BY <1>0, <3>3, ChunkTypes
      <4>2. Chosen(c, 0, 0)'
        BY <4>1 DEF Chosen
      <4>3. claim'[w].chunk = c /\ claim'[w].begin = 0
        BY <1>0, <3>3, <4>1
      <4> QED BY <4>2, <4>3 DEF Chosen
    <3> QED BY <2>1, <3>1, <3>2, <3>3
  <2> HIDE DEF Claimed
  <2> QED BY <1>0, <1>9, <2>1, <2>2
<1>12. ASSUME NEW w \in Workers, LoadSkipBegin(w) PROVE SkipInv'
  <2>1. /\ bits' = bits /\ bitmapLeft' = bitmapLeft /\ skip' = skip /\ reads' = reads
        /\ op' = op /\ pc' = [pc EXCEPT ![w] = "issue"]
        /\ claim' = [claim EXCEPT ![w].begin = SkipOf(claim[w]).begin]
    BY <1>12 DEF LoadSkipBegin
  <2>2. claim[w] \in [kind : {"bitmap", "data"}, chunk : Nat, begin : Nat]
    BY <1>12 DEF LoadSkipBegin, LocalInv, Claims, Nothing, TypeInv
  <2>3. /\ claim'[w].kind = claim[w].kind /\ claim'[w].chunk = claim[w].chunk
        /\ claim'[w].begin = SkipOf(claim[w]).begin
    BY <1>0, <2>1, <2>2
  <2>4. Claimed(w)'
    <3>1. SUFFICES ASSUME claim[w].kind = "data"
                   PROVE  Chosen(claim[w].chunk, claim[w].begin, 0)'
      BY <2>3
    <3>2. claim[w].chunk \in DOMAIN DataChunks /\ SkipOf(claim[w]) = skip[claim[w].chunk]
      BY <3>1 DEF LocalInv, SkipOf
    <3>3. Chosen(claim[w].chunk, skip[claim[w].chunk].begin, skip[claim[w].chunk].end)
      BY <1>1, <3>2
    <3> QED BY <2>1, <2>3, <3>2, <3>3 DEF Chosen
  <2> HIDE DEF Claimed
  <2> QED BY <1>0, <1>9, <2>1, <2>4
<1>13. ASSUME NEW w \in Workers, IssueRead(w) PROVE SkipInv'
  <2> DEFINE new == [kind |-> claim[w].kind, chunk |-> claim[w].chunk, begin |-> claim[w].begin,
                     end |-> SkipOf(claim[w]).end, issued |-> FALSE]
  <2>1. /\ bits' = bits /\ bitmapLeft' = bitmapLeft /\ skip' = skip
        /\ reads' = reads \cup {new} /\ op' = op
        /\ claim' = [claim EXCEPT ![w] = Nothing]
        /\ \E q \in {"claimbitmap", "idle", "process"} : pc' = [pc EXCEPT ![w] = q]
    BY <1>13, QueuedGoes DEF IssueRead
  <2>2. new.kind = "data" => Chosen(new.chunk, new.begin, new.end)
    <3>1. SUFFICES ASSUME claim[w].kind = "data"
                   PROVE  Chosen(claim[w].chunk, claim[w].begin, SkipOf(claim[w]).end)
      OBVIOUS
    <3>2. claim[w].chunk \in DOMAIN DataChunks /\ SkipOf(claim[w]) = skip[claim[w].chunk]
      BY <3>1 DEF LocalInv, SkipOf
    <3>3. /\ Chosen(claim[w].chunk, skip[claim[w].chunk].begin, skip[claim[w].chunk].end)
          /\ Chosen(claim[w].chunk, claim[w].begin, 0)
      BY <1>1, <3>1, <3>2
    <3> QED BY <3>2, <3>3 DEF Chosen
  <2> HIDE DEF new
  <2>3. Keeps
    BY <1>0, <2>1
  <2>4. Held'
    BY <1>1, <1>2, <2>1, <2>2, <2>3
  <2>5. Skips' /\ Called(w)'
    BY <1>3, <1>5, <2>1, <2>3
  <2>6. Claimed(w)' /\ Storing(w)'
    BY <1>0, <2>1 DEF Nothing
  <2>7. \A v \in Workers : v # w => Same(v)
    BY <1>0, <2>1
  <2> HIDE DEF Keeps, Skips, Held, Called, Storing, Claimed, Same
  <2> QED BY <1>6, <2>3, <2>4, <2>5, <2>6, <2>7
<1>14. ASSUME NEW w \in Workers, CopyBitmap(w) PROVE SkipInv'
  <2>1. /\ bitmapLeft' = bitmapLeft /\ skip' = skip /\ reads' = reads /\ op' = op
        /\ claim' = claim /\ pc' = [pc EXCEPT ![w] = "countdown"]
        /\ pc[w] = "process" /\ op[w].kind = "bitmap"
    BY <1>14 DEF CopyBitmap
  <2>2. bitmapLeft > 0
    <3>1. w \in BitmapCallbacks
      BY <2>1 DEF BitmapCallbacks
    <3>2. Cardinality(BitmapCallbacks) > 0
      BY <3>1, OutstandingParts, FS_EmptySet
    <3> QED BY <3>2, OutstandingParts DEF Running, CountInv, Outstanding
  <2>3. Keeps
    BY <1>0, <2>1, <2>2
  <2>4. Skips' /\ Held' /\ Claimed(w)' /\ Called(w)'
    BY <1>3, <1>4, <1>5, <2>1, <2>3
  <2>5. Storing(w)' /\ \A v \in Workers : v # w => Same(v)
    BY <1>0, <2>1
  <2> HIDE DEF Keeps, Skips, Held, Called, Storing, Claimed, Same
  <2> QED BY <1>6, <2>3, <2>4, <2>5
<1>15. ASSUME NEW w \in Workers, CountDown(w) PROVE SkipInv'
  <2>1. /\ bits' = bits /\ skip' = skip /\ reads' = reads /\ claim' = claim
        /\ bitmapLeft' = bitmapLeft - 1
        /\ \/ op' = op /\ pc' = [pc EXCEPT ![w] = "skipbegin"] /\ bitmapLeft = 1
           \/ op' = [op EXCEPT ![w] = NoRead] /\ pc' = [pc EXCEPT ![w] = "idle"]
    BY <1>15 DEF CountDown
  <2>2. Keeps
    BY <1>0, <2>1
  <2>3. Skips' /\ Held' /\ Claimed(w)'
    BY <1>3, <1>4, <1>5, <2>1, <2>2
  <2>4. Called(w)'
    BY <1>0, <1>5, <2>1, <2>2 DEF NoRead
  <2>5. Storing(w)' /\ \A v \in Workers : v # w => Same(v)
    BY <1>0, <2>1
  <2> HIDE DEF Keeps, Skips, Held, Called, Storing, Claimed, Same
  <2> QED BY <1>6, <2>2, <2>3, <2>4, <2>5
<1>16. ASSUME NEW w \in Workers, StoreSkipBegin(w) \/ StoreSkipEnd(w) PROVE SkipInv'
  <2> DEFINE l == loop[w]
  <2>1. /\ bits' = bits /\ reads' = reads /\ claim' = claim /\ bitmapLeft' = bitmapLeft
        /\ pc[w] \in {"skipbegin", "skipend"}
        /\ \/ op' = op /\ \E q \in {"skipbegin", "skipend"} : pc' = [pc EXCEPT ![w] = q]
           \/ op' = [op EXCEPT ![w] = NoRead] /\ pc' = [pc EXCEPT ![w] = "idle"]
        /\ \/ skip' = [skip EXCEPT ![l].begin = SkipBegin(bits, DataChunks[l])]
           \/ skip' = [skip EXCEPT ![l].end = SkipEnd(bits, DataChunks[l])]
    BY <1>16 DEF StoreSkipBegin, StoreSkipEnd
  <2>2. bitmapLeft = 0 /\ Keeps
    BY <1>0, <1>1, <2>1
  <2> HIDE DEF l
  <2>3. ASSUME NEW c \in DOMAIN DataChunks PROVE Chosen(c, skip[c].begin, skip[c].end)'
    <3>1. Chosen(c, skip[c].begin, skip[c].end) /\ skip[c] \in [begin : Nat, end : Nat]
      BY <1>0, <1>1
    <3>2. /\ skip'[c].begin \in {skip[c].begin, SkipBegin(bits, DataChunks[c])}
          /\ skip'[c].end \in {skip[c].end, SkipEnd(bits, DataChunks[c])}
      BY <1>0, <2>1, <3>1
    <3> QED BY <2>1, <2>2, <3>1, <3>2 DEF Chosen
  <2>4. Held' /\ Claimed(w)'
    BY <1>4, <1>5, <2>1, <2>2
  <2>5. Called(w)'
    BY <1>0, <1>5, <2>1, <2>2 DEF NoRead
  <2>6. Storing(w)' /\ \A v \in Workers : v # w => Same(v)
    BY <1>0, <2>1, <2>2
  <2>7. Skips'
    BY <2>3
  <2> HIDE DEF Keeps, Skips, Held, Called, Storing, Claimed, Same
  <2> QED BY <1>6, <2>2, <2>4, <2>5, <2>6, <2>7
<1>17. ASSUME NEW w \in Workers, Load(w) PROVE SkipInv'
  <2>1. /\ bits' = bits /\ skip' = skip /\ reads' = reads /\ claim' = claim
        /\ bitmapLeft' = bitmapLeft
        /\ op' = [op EXCEPT ![w] = NoRead] /\ pc' = [pc EXCEPT ![w] = "idle"]
    BY <1>17 DEF Load
  <2>2. Keeps
    BY <1>0, <2>1
  <2>3. Skips' /\ Held' /\ Claimed(w)'
    BY <1>3, <1>4, <1>5, <2>1, <2>2
  <2>4. Called(w)' /\ Storing(w)' /\ \A v \in Workers : v # w => Same(v)
    BY <1>0, <2>1 DEF NoRead
  <2> HIDE DEF Keeps, Skips, Held, Called, Storing, Claimed, Same
  <2> QED BY <1>6, <2>2, <2>3, <2>4
<1>18. ASSUME NEW w \in Workers, NEW r \in reads, PortIssues(w, r) PROVE SkipInv'
  <2> DEFINE new == [r EXCEPT !.issued = TRUE]
  <2>1. /\ bits' = bits /\ skip' = skip /\ claim' = claim /\ op' = op
        /\ bitmapLeft' = bitmapLeft
        /\ reads' \subseteq (reads \ {r}) \cup {new}
        /\ (pc' = pc \/ pc' = [pc EXCEPT ![w] = "dead"])
    BY <1>18 DEF PortIssues
  <2>2. /\ new.kind = r.kind /\ new.chunk = r.chunk
        /\ new.begin = r.begin /\ new.end = r.end
    BY <1>0 DEF ReadOps
  <2> HIDE DEF new
  <2>3. Keeps
    BY <1>0, <2>1
  <2>4. Held'
    BY <1>1, <1>2, <2>1, <2>2, <2>3
  <2>5. Skips' /\ Claimed(w)' /\ Called(w)'
    BY <1>3, <1>5, <2>1, <2>3
  <2>6. Storing(w)' /\ \A v \in Workers : v # w => Same(v)
    BY <1>0, <1>5, <2>1, <2>3
  <2> HIDE DEF Keeps, Skips, Held, Called, Storing, Claimed, Same
  <2> QED BY <1>6, <2>3, <2>4, <2>5, <2>6
<1>19. ASSUME NEW w \in Workers, NEW r \in reads, Complete(w, r) PROVE SkipInv'
  <2>1. /\ bits' = bits /\ skip' = skip /\ claim' = claim /\ reads' = reads \ {r}
        /\ bitmapLeft' = bitmapLeft
        /\ \/ pc' = pc /\ op' = op
           \/ pc' = [pc EXCEPT ![w] = "claimbitmap"] /\ op' = [op EXCEPT ![w] = r]
    BY <1>19 DEF Complete
  <2>2. Keeps
    BY <1>0, <2>1
  <2>3. Skips' /\ Held' /\ Claimed(w)'
    BY <1>3, <1>4, <1>5, <2>1, <2>2
  <2>4. Called(w)'
    <3>1. CASE op' = op
      BY <1>5, <2>2, <3>1
    <3>2. CASE op' = [op EXCEPT ![w] = r]
      <4>1. op'[w] = r
        BY <1>0, <3>2
      <4>2. r.kind = "data" => Chosen(r.chunk, r.begin, r.end)
        BY <1>1
      <4> QED BY <1>2, <2>2, <4>1, <4>2
    <3> QED BY <2>1, <3>1, <3>2
  <2>5. Storing(w)' /\ \A v \in Workers : v # w => Same(v)
    BY <1>0, <1>5, <2>1, <2>2
  <2> HIDE DEF Keeps, Skips, Held, Called, Storing, Claimed, Same
  <2> QED BY <1>6, <2>2, <2>3, <2>4, <2>5
<1> QED BY <1>7, <1>8, <1>10, <1>11, <1>12, <1>13, <1>14, <1>15, <1>16, <1>17, <1>18, <1>19
        DEF Next, Callback, Payload, Port

\* The bitmap in memory never hides a record in use: a chunk that is copied
\* brings the true bits, and where none has come yet every bit is set.
LEMMA NextShown ==
  ASSUME TypeInv, Running, [Next]_vars
  PROVE  ShownInv' /\ disk' = disk
<1>0. /\ payload = "taken" /\ disk \subseteq bits
      /\ \A v \in Workers : pc[v] \notin {"setevent", "setcode"}
      /\ pc \in [Workers -> Points]
  BY DEF Running, ShownInv, TypeInv
<1>1. ASSUME NEW w \in Workers, payload' = payload, disk' = disk, disk \subseteq bits',
             \E q \in Points \ {"setevent", "setcode"} :
               pc' = [pc EXCEPT ![w] = q] \/ pc' = pc
      PROVE  ShownInv' /\ disk' = disk
  BY <1>0, <1>1 DEF ShownInv
<1> USE DEF At, Goto, readerVars, workerVars, indexVars
<1>2. CASE Owner \/ UNCHANGED vars
  <2>1. pc' = pc /\ bits' = bits /\ disk' = disk /\ payload' = payload
    BY <1>0, <1>2, OwnerEffect, OwnerLeaves DEF chunkVars, vars
  <2> QED BY <1>0, <2>1 DEF ShownInv
<1>3. ASSUME NEW w \in Workers, SetEvent(w) \/ SetCode(w) \/ PayloadFails(w) \/ PayloadStarts(w)
      PROVE  FALSE
  BY <1>0, <1>3 DEF SetEvent, SetCode, PayloadFails, PayloadStarts
<1>4. ASSUME NEW w \in Workers, CopyBitmap(w) PROVE ShownInv' /\ disk' = disk
  <2>1. /\ disk' = disk /\ payload' = payload /\ pc' = [pc EXCEPT ![w] = "countdown"]
        /\ bits' = (bits \ BitsCopied(op[w])) \cup (disk \cap BitsCopied(op[w]))
    BY <1>4 DEF CopyBitmap
  <2> QED BY <1>0, <2>1 DEF ShownInv
<1>5. ASSUME NEW w \in Workers,
             ClaimBitmap(w) \/ UndoBitmap(w) \/ ClaimData(w) \/ UndoData(w) \/ LoadSkipBegin(w)
               \/ IssueRead(w)
      PROVE  ShownInv' /\ disk' = disk
  <2>1. /\ disk' = disk /\ payload' = payload /\ bits' = bits
        /\ \E q \in Points \ {"setevent", "setcode"} : pc' = [pc EXCEPT ![w] = q]
    BY <1>5, QueuedGoes DEF ClaimBitmap, UndoBitmap, ClaimData, UndoData, LoadSkipBegin,
                            IssueRead, Points
  <2> QED BY <1>0, <1>1, <2>1
<1>6. ASSUME NEW w \in Workers,
             CountDown(w) \/ StoreSkipBegin(w) \/ StoreSkipEnd(w) \/ Load(w)
      PROVE  ShownInv' /\ disk' = disk
  <2>1. /\ disk' = disk /\ payload' = payload /\ bits' = bits
        /\ \E q \in Points \ {"setevent", "setcode"} : pc' = [pc EXCEPT ![w] = q]
    BY <1>6 DEF CountDown, StoreSkipBegin, StoreSkipEnd, Load, Points
  <2> QED BY <1>0, <1>1, <2>1
<1>7. ASSUME NEW w \in Workers, NEW r \in reads, PortIssues(w, r) \/ Complete(w, r)
      PROVE  ShownInv' /\ disk' = disk
  <2>1. /\ disk' = disk /\ payload' = payload /\ bits' = bits
        /\ \E q \in Points \ {"setevent", "setcode"} : pc' = [pc EXCEPT ![w] = q] \/ pc' = pc
    BY <1>7 DEF PortIssues, Complete, Points
  <2> QED BY <1>0, <1>1, <2>1
<1> QED BY <1>2, <1>3, <1>4, <1>5, <1>6, <1>7 DEF Next, Callback, Payload, Port

\* The steps before the payload has started the reads.
LEMMA UnstartedNext ==
  ASSUME TypeInv, Unstarted, disk \in Disks, [Next]_vars
  PROVE  disk' = disk /\ (Unstarted' \/ (payload = "posted" /\ Running'))
<1>0. /\ reads = {} /\ bitmapNext = 0 /\ bitmapLeft = 0
      /\ skip = [c \in DOMAIN DataChunks |-> [begin |-> 0, end |-> 0]]
      /\ \A v \in Workers : pc[v] \in {"idle", "setevent", "setcode"}
                            /\ op[v] = NoRead /\ claim[v] = Nothing
      /\ pc \in [Workers -> Points]
  BY DEF Unstarted, TypeInv
<1> USE DEF At, Goto, readerVars, workerVars, indexVars
<1>1. ASSUME Owner PROVE disk' = disk /\ Unstarted'
  <2> USE DEF Unstarted
  <2>1. CASE PostPayload
    BY <2>1 DEF PostPayload
  <2>2. CASE Cancel
    BY <2>2 DEF Cancel
  <2>3. CASE Wake
    BY <2>3 DEF Wake
  <2>4. CASE CheckCode
    BY <2>4 DEF CheckCode
  <2>5. CASE Search
    BY <2>5 DEF Search
  <2> QED BY <1>1, <2>1, <2>2, <2>3, <2>4, <2>5 DEF Owner
<1>2. CASE UNCHANGED vars
  BY <1>2 DEF vars, Unstarted
<1>3. ASSUME NEW w \in Workers, PayloadFails(w) PROVE disk' = disk /\ Unstarted'
  BY <1>0, <1>3 DEF PayloadFails, Unstarted
<1>4. ASSUME NEW w \in Workers, SetEvent(w) \/ SetCode(w) PROVE disk' = disk /\ Unstarted'
  <2>1. payload = "taken"
    BY <1>4 DEF SetEvent, SetCode, Unstarted
  <2>2. /\ disk' = disk /\ payload' = payload
        /\ \E q \in {"idle", "setcode"} : pc' = [pc EXCEPT ![w] = q]
        /\ UNCHANGED <<reads, bitmapNext, bitmapLeft, volume, soFar, loaded, preprocessed, order,
                       skip, op, claim>>
    BY <1>4 DEF SetEvent, SetCode
  <2> QED BY <1>0, <2>1, <2>2 DEF Unstarted
<1>5. ASSUME NEW w \in Workers, PayloadStarts(w)
      PROVE  disk' = disk /\ payload = "posted" /\ Running'
  <2>1. /\ disk' = disk /\ payload' = "taken" /\ payload = "posted" /\ bits' = AllBits
        /\ bitmapLeft' = Len(BitmapChunks) /\ pc' = [pc EXCEPT ![w] = "claimbitmap"]
        /\ UNCHANGED <<bitmapNext, skip, reads, op, claim>>
    BY <1>5 DEF PayloadStarts
  <2>2. \A v \in Workers : pc[v] = "idle"
    BY <2>1 DEF Unstarted
  <2>3. CountInv'
    <3>1. BitmapClaims' = {} /\ BitmapReads' = {} /\ BitmapCallbacks' = {}
      BY <1>0, <2>1 DEF BitmapClaims, BitmapReads, BitmapCallbacks, Nothing, NoRead
    <3>2. Unclaimed' = Len(BitmapChunks)
      BY <1>0, <2>1, ChunkTypes DEF Unclaimed
    <3>3. Cardinality(BitmapClaims') = 0 /\ Cardinality(BitmapReads') = 0
          /\ Cardinality(BitmapCallbacks') = 0
      BY <3>1, FS_EmptySet, Zenon
    <3> QED BY <2>1, <3>2, <3>3, ChunkTypes DEF CountInv, Outstanding
  <2>4. SkipInv'
    <3>1. \A c \in DOMAIN DataChunks : Chosen(c, 0, 0)'
      BY DEF Chosen
    <3>2. \A c \in DOMAIN DataChunks : skip'[c].begin = 0 /\ skip'[c].end = 0
      BY <1>0, <2>1
    <3>3. \A v \in Workers : /\ claim'[v].kind # "data" /\ op'[v].kind # "data"
                             /\ pc'[v] \notin {"skipbegin", "skipend"}
      BY <1>0, <2>1 DEF Nothing, NoRead
    <3>4. \A c \in DOMAIN DataChunks : Chosen(c, skip[c].begin, skip[c].end)'
      BY <3>1, <3>2 DEF Chosen
    <3> QED BY <1>0, <2>1, <3>3, <3>4 DEF SkipInv
  <2>5. ShownInv'
    <3>1. disk \subseteq AllBits
      <4> DEFINE size == BitmapSize * BitsPerByte
      <4>1. disk \subseteq 0 .. Capacity[disk] - 1 /\ size >= Capacity[disk]
            /\ Capacity[disk] \in Nat
        BY ReaderAssumption
      <4>2. size \in Nat
        BY ReaderAssumption, SizesAssumption
      <4> HIDE DEF size
      <4>3. disk \subseteq 0 .. size - 1
        BY <4>1, <4>2
      <4> QED BY <4>3 DEF AllBits, size
    <3>2. \A v \in Workers : pc'[v] \notin {"setevent", "setcode"}
      BY <1>0, <2>1, <2>2
    <3> QED BY <2>1, <3>1, <3>2 DEF ShownInv
  <2> QED BY <2>1, <2>3, <2>4, <2>5 DEF Running
<1>6. ASSUME NEW w \in Workers, Callback(w), ~SetEvent(w), ~SetCode(w) PROVE FALSE
  <2>1. /\ pc[w] \notin {"claimbitmap", "undobitmap", "claimdata", "undodata", "loadskip", "issue"}
        /\ pc[w] \notin {"process", "countdown", "skipbegin", "skipend"}
    BY <1>0
  <2> QED BY <1>6, <2>1 DEF Callback, ClaimBitmap, UndoBitmap, ClaimData, UndoData, LoadSkipBegin,
       IssueRead, CopyBitmap, CountDown, StoreSkipBegin, StoreSkipEnd, Load
<1> QED BY <1>0, <1>1, <1>2, <1>3, <1>4, <1>5, <1>6 DEF Next, Payload, Port

CoreInv == TypeInv /\ LocalInv /\ IndexInv /\ HolderInv /\ StartInv

LEMMA InitCore == Init => CoreInv
<1> SUFFICES ASSUME Init PROVE CoreInv
  OBVIOUS
<1>1. Unstarted /\ disk \in Disks
  BY DEF Init, Unstarted
<1> QED BY <1>1, InitInv DEF CoreInv, StartInv

LEMMA NextCore ==
  ASSUME CoreInv, [Next]_vars
  PROVE  CoreInv' /\ disk' = disk
<1>0. TypeInv /\ LocalInv /\ IndexInv /\ HolderInv /\ StartInv
  BY DEF CoreInv
<1>1. TypeInv'
  BY <1>0, NextType
<1>2. LocalInv' /\ IndexInv' /\ HolderInv'
  BY <1>0, NextLocal, NextIndex, NextHolder, <1>1
<1>3. CASE Running
  <2>1. CountInv'
    BY <1>0, <1>1, <1>3, NextCount
  <2>2. SkipInv'
    BY <1>0, <1>1, <1>3, <2>1, NextSkip
  <2>3. ShownInv' /\ disk' = disk
    BY <1>0, <1>3, NextShown
  <2> QED BY <1>0, <1>1, <1>2, <2>1, <2>2, <2>3 DEF CoreInv, StartInv, Running
<1>4. CASE Unstarted
  <2>1. disk' = disk /\ (Unstarted' \/ Running')
    BY <1>0, <1>4, UnstartedNext DEF StartInv
  <2> QED BY <1>0, <1>1, <1>2, <2>1 DEF CoreInv, StartInv
<1> QED BY <1>0, <1>3, <1>4 DEF StartInv

THEOREM CoreInvariant == Spec => []CoreInv
<1>1. CoreInv /\ UNCHANGED vars => CoreInv'
  BY NextCore
<1> QED BY InitCore, NextCore, <1>1, PTL DEF Spec

\* What a data read covers, wherever it is.
LEMMA ReadsCover ==
  ASSUME Running, NEW r, r.kind = "data",
         r \in reads \/ \E w \in Workers : r = op[w]
  PROVE  /\ r.chunk \in DOMAIN DataChunks
         /\ disk \cap RecordsOf(DataChunks[r.chunk])
              \subseteq RecordsRead(DataChunks[r.chunk], r.begin, r.end)
         /\ r.begin + r.end =< DataChunks[r.chunk].count
<1>1. Chosen(r.chunk, r.begin, r.end)
  BY DEF Running, SkipInv
<1> DEFINE c == DataChunks[r.chunk]
<1>2. r.chunk \in DOMAIN DataChunks /\ r.begin \in {0, SkipBegin(bits, c)}
      /\ r.end \in {0, SkipEnd(bits, c)}
  BY <1>1 DEF Chosen
<1>3. c \in [vcn : Nat, count : Nat \ {0}]
  BY <1>2, ChunkTypes
<1>4. disk \subseteq bits
  BY DEF Running, ShownInv
<1> HIDE DEF c
<1>5. r.begin + r.end =< c.count
      /\ disk \cap RecordsOf(c) \subseteq RecordsRead(c, r.begin, r.end)
  BY <1>2, <1>3, <1>4, SkipsNothingUsed
<1> QED BY <1>2, <1>5 DEF c

\* Skipping loses nothing: for any extents, any number of workers and of reads,
\* and any order in which the chunks of the bitmap and of the data complete, a
\* data read covers every record in use of its chunk and skips no more clusters
\* than the chunk has, half stored pairs of skip values included.
THEOREM SkippingLosesNothing == Spec => []NoUsedRecordSkipped
<1>1. CoreInv => NoUsedRecordSkipped
  <2> SUFFICES ASSUME CoreInv PROVE NoUsedRecordSkipped
    OBVIOUS
  <2>1. SUFFICES ASSUME NEW r \in reads \cup {op[w] : w \in Workers}, r.kind = "data"
                 PROVE  /\ disk \cap RecordsOf(DataChunks[r.chunk])
                             \subseteq RecordsRead(DataChunks[r.chunk], r.begin, r.end)
                        /\ r.begin + r.end =< DataChunks[r.chunk].count
    BY DEF NoUsedRecordSkipped
  <2>2. r \in reads \/ \E w \in Workers : r = op[w]
    OBVIOUS
  <2>3. ~Unstarted
    BY <2>1, <2>2 DEF Unstarted, NoRead
  <2> QED BY <2>1, <2>2, <2>3, ReadsCover DEF CoreInv, StartInv
<1> QED BY <1>1, CoreInvariant, PTL

-----------------------------------------------------------------------------
(***************************************************************************)
(* The count of the records and the end of the index.  The chunks loaded   *)
(* so far cover Covered; _records_so_far is its size, what they skip       *)
(* included, and the index holds what is in use of it.  The event is only  *)
(* set when the count has reached the capacity, or before anything is read *)
(* when initialization fails.                                              *)
(***************************************************************************)
Covered    == UNION {RecordsOf(DataChunks[c]) : c \in Range(order)}
AllRecords == UNION {RecordsOf(DataChunks[c]) : c \in DOMAIN DataChunks}

RecordInv ==
  /\ Range(order) \subseteq DOMAIN DataChunks
  /\ soFar = Cardinality(Covered)
  /\ loaded = disk \cap Covered
  /\ NoSlack => preprocessed = IF Covered = AllRecords THEN 1 ELSE 0

EventInv == event => soFar >= Capacity[disk] \/ Unstarted

WaitInv ==
  /\ seen = [code |-> seen.code, records |-> seen.records]
  /\ waiter # "waiting" => event
  /\ waiter = "searched" /\ NoSlack =>
       seen.records = disk \/ (seen.records = {} /\ Unstarted)

\* Two chunks have no record in common, and no record is left out between them.
LEMMA ChunksApart ==
  ASSUME NEW c \in DOMAIN DataChunks, NEW d \in DOMAIN DataChunks, c # d
  PROVE  RecordsOf(DataChunks[c]) \cap RecordsOf(DataChunks[d]) = {}
<1>1. ASSUME NEW i \in DOMAIN DataChunks, NEW j \in DOMAIN DataChunks, i < j,
             NEW f \in RecordsOf(DataChunks[i]), f \in RecordsOf(DataChunks[j])
      PROVE  FALSE
  <2> DEFINE x == DataChunks[i]
             y == DataChunks[j]
  <2>1. x \in [vcn : Nat, count : Nat \ {0}] /\ y \in [vcn : Nat, count : Nat \ {0}]
    BY ChunkTypes
  <2>2. x.vcn + x.count =< y.vcn
    BY <1>1, ChunkOrderAssumption
  <2> HIDE DEF x, y
  <2>3. (x.vcn + x.count) * PerCluster =< y.vcn * PerCluster
    BY <2>1, <2>2, ClusterRecords
  <2>4. x.vcn * PerCluster + x.count * PerCluster =< y.vcn * PerCluster
    BY <2>1, <2>3, ClusterRecords
  <2>5. f \in FirstRecord(x) .. FirstRecord(x) + RecordCount(x) - 1
        /\ f \in FirstRecord(y) .. FirstRecord(y) + RecordCount(y) - 1
    BY <1>1 DEF RecordsOf, x, y
  <2>6. /\ FirstRecord(x) \in Nat /\ RecordCount(x) \in Nat /\ FirstRecord(y) \in Nat
        /\ FirstRecord(x) + RecordCount(x) =< FirstRecord(y) /\ RecordCount(y) \in Nat
    BY <2>1, <2>4, ChunkRecords
  <2> QED BY <2>5, <2>6
<1>2. c \in Nat /\ d \in Nat
  BY ChunkTypes
<1>3. c < d \/ d < c
  BY <1>2
<1> QED BY <1>1, <1>3

LEMMA NoneLeftOut ==
  ASSUME NEW g \in AllRecords, NEW f \in Nat, f < g
  PROVE  f \in AllRecords
<1>1. PICK c \in DOMAIN DataChunks : g \in RecordsOf(DataChunks[c])
  BY DEF AllRecords
<1> DEFINE x == DataChunks[c]
           P == PerCluster
<1>2. x \in [vcn : Nat, count : Nat \ {0}] /\ P \in Nat \ {0}
  BY ChunkTypes, ClusterRecords
<1> HIDE DEF x
<1>3. /\ FirstRecord(x) = x.vcn * P /\ FirstRecord(x) \in Nat
      /\ RecordCount(x) \in Nat \ {0} /\ g \in FirstRecord(x) .. FirstRecord(x) + RecordCount(x) - 1
  BY <1>1, <1>2, ChunkRecords DEF RecordsOf, x
<1>4. CASE f >= FirstRecord(x)
  <2>1. f \in RecordsOf(x)
    BY <1>3, <1>4 DEF RecordsOf
  <2> QED BY <2>1 DEF AllRecords, x
<1>5. CASE f < FirstRecord(x)
  <2> DEFINE v == f \div P
  <2>1. v \in Nat /\ v * P =< f /\ f < v * P + P
    BY <1>2, QuotientBelow
  <2> HIDE DEF v
  <2>2. v < x.vcn
    <3>1. SUFFICES ASSUME x.vcn =< v PROVE FALSE
      BY <1>2, <2>1
    <3>2. x.vcn * P =< v * P
      BY <1>2, <2>1, <3>1
    <3>3. x.vcn * P \in Nat /\ v * P \in Nat
      BY <1>2, <2>1
    <3> QED BY <1>3, <1>5, <2>1, <3>2, <3>3
  <2>3. v \in 0 .. DataChunks[c].vcn - 1
    BY <1>2, <2>1, <2>2 DEF x
  <2>4. PICK d \in DOMAIN DataChunks :
          v \in DataChunks[d].vcn .. DataChunks[d].vcn + DataChunks[d].count - 1
    BY <2>3, ChunkOrderAssumption
  <2> DEFINE y == DataChunks[d]
  <2>5. y \in [vcn : Nat, count : Nat \ {0}] /\ y.vcn =< v /\ v + 1 =< y.vcn + y.count
    <3>1. y \in [vcn : Nat, count : Nat \ {0}]
      BY ChunkTypes
    <3> QED BY <2>1, <2>4, <3>1
  <2> HIDE DEF y
  <2>6. y.vcn * P =< v * P /\ (v + 1) * P =< (y.vcn + y.count) * P
    BY <1>2, <2>1, <2>5
  <2>7. FirstRecord(y) = y.vcn * P /\ RecordCount(y) = y.count * P
        /\ FirstRecord(y) \in Nat /\ RecordCount(y) \in Nat
    BY <2>5, ChunkRecords
  <2>8. (v + 1) * P = v * P + P /\ (y.vcn + y.count) * P = y.vcn * P + y.count * P
        /\ v * P \in Nat
    BY <1>2, <2>1, <2>5
  <2>9. f >= FirstRecord(y) /\ f < FirstRecord(y) + RecordCount(y)
    BY <1>2, <2>1, <2>6, <2>7, <2>8
  <2>10. f \in RecordsOf(y)
    BY <2>7, <2>9 DEF RecordsOf
  <2> QED BY <2>10 DEF AllRecords, y
<1> QED BY <1>3, <1>4, <1>5

LEMMA AllRecordsFinite == IsFiniteSet(AllRecords) /\ AllRecords \subseteq Nat
<1> DEFINE S == {RecordsOf(DataChunks[c]) : c \in DOMAIN DataChunks}
<1>1. IsFiniteSet(DOMAIN DataChunks)
  BY ChunkTypes, FS_Interval
<1>2. IsFiniteSet(S)
  <2> DEFINE f == [c \in DOMAIN DataChunks |-> RecordsOf(DataChunks[c])]
  <2>1. f \in Surjection(DOMAIN DataChunks, S)
    BY DEF Surjection
  <2> QED BY <1>1, <2>1, FS_Surjection
<1>3. \A c \in DOMAIN DataChunks :
        IsFiniteSet(RecordsOf(DataChunks[c])) /\ RecordsOf(DataChunks[c]) \subseteq Nat
  <2> SUFFICES ASSUME NEW c \in DOMAIN DataChunks
               PROVE  IsFiniteSet(RecordsOf(DataChunks[c])) /\ RecordsOf(DataChunks[c]) \subseteq Nat
    OBVIOUS
  <2> DEFINE a == FirstRecord(DataChunks[c])
             n == RecordCount(DataChunks[c])
  <2>1. a \in Nat /\ n \in Nat
    BY ChunkTypes, ChunkRecords
  <2> HIDE DEF a, n
  <2>2. IsFiniteSet(a .. a + n - 1) /\ a .. a + n - 1 \subseteq Nat
    BY <2>1, FS_Interval
  <2> QED BY <2>2 DEF RecordsOf, a, n
<1>4. IsFiniteSet(UNION S)
  <2>1. \A T \in S : IsFiniteSet(T)
    BY <1>3
  <2> HIDE DEF S
  <2> QED BY <1>2, <2>1, FS_UNION
<1> QED BY <1>3, <1>4 DEF AllRecords

\* Without slack every record in use is in a chunk.
LEMMA DiskCovered ==
  ASSUME disk \in Disks, NoSlack
  PROVE  disk \subseteq AllRecords /\ AllRecords # {}
<1>1. /\ Capacity[disk] = Cardinality(AllRecords) /\ Capacity[disk] \in Nat \ {0}
      /\ disk \subseteq 0 .. Capacity[disk] - 1
  BY ReaderAssumption DEF NoSlack, AllRecords
<1>2. ASSUME NEW x \in disk, x \notin AllRecords PROVE FALSE
  <2>1. x \in Nat /\ x < Cardinality(AllRecords)
    BY <1>1
  <2>2. AllRecords \subseteq 0 .. x - 1
    <3> SUFFICES ASSUME NEW g \in AllRecords PROVE g \in 0 .. x - 1
      OBVIOUS
    <3>1. g \in Nat
      BY AllRecordsFinite
    <3>2. g # x /\ ~(x < g)
      BY <1>2, <2>1, NoneLeftOut
    <3> QED BY <2>1, <3>1, <3>2
  <2>3. IsFiniteSet(0 .. x - 1) /\ Cardinality(0 .. x - 1) = x
    <3>1. IsFiniteSet(0 .. x - 1)
          /\ Cardinality(0 .. x - 1) = IF 0 > x - 1 THEN 0 ELSE (x - 1) - 0 + 1
      BY <2>1, FS_Interval
    <3> QED BY <2>1, <3>1
  <2>4. Cardinality(AllRecords) =< x
    BY <2>2, <2>3, FS_Subset
  <2>5. Cardinality(AllRecords) \in Nat
    BY AllRecordsFinite, FS_CardinalityType
  <2> QED BY <2>1, <2>4, <2>5
<1>3. AllRecords # {}
  BY <1>1, FS_EmptySet
<1> QED BY <1>2, <1>3

\* Whatever is skipped of it, a chunk counts for all its records.
LEMMA ChunkCounts ==
  ASSUME NEW c \in [vcn : Nat, count : Nat \ {0}], NEW b \in Nat, NEW e \in Nat,
         b + e =< c.count
  PROVE  RecordsSkipped(b, e) + Cardinality(RecordsRead(c, b, e)) = RecordCount(c)
<1> DEFINE v == c.vcn
           k == c.count
           P == PerCluster
           low == (v + b) * P
           high == (v + k - e) * P
<1>1. v \in Nat /\ k \in Nat /\ P \in Nat \ {0} /\ RecordCount(c) = k * P
  BY ChunkRecords, ClusterRecords
<1>2. RecordsRead(c, b, e) = low .. high - 1
  BY RecordsReadAre
<1>3. RecordsSkipped(b, e) = (b + e) * P
  BY RecordsOfClusters DEF RecordsSkipped
<1>4. /\ low = v * P + b * P /\ (b + e) * P = b * P + e * P
      /\ v * P \in Nat /\ b * P \in Nat /\ e * P \in Nat /\ k * P \in Nat
  <2> HIDE DEF v, k, P
  <2> QED BY <1>1
<1>5. high = (v * P + k * P) - e * P
  <2> HIDE DEF v, k, P
  <2> QED BY <1>1
<1>6. b * P + e * P =< k * P
  <2> HIDE DEF P
  <2>1. (b + e) * P =< k * P
    BY <1>1
  <2> QED BY <1>4, <2>1
<1> DEFINE A == v * P
           B == b * P
           E == e * P
           K == k * P
<1>7. /\ A \in Nat /\ B \in Nat /\ E \in Nat /\ K \in Nat
      /\ low = A + B /\ high = (A + K) - E /\ B + E =< K
      /\ RecordsSkipped(b, e) = B + E /\ RecordCount(c) = K
  BY <1>1, <1>3, <1>4, <1>5, <1>6
<1> HIDE DEF low, high, A, B, E, K
<1>8. Cardinality(low .. high - 1) = IF low > high - 1 THEN 0 ELSE (high - 1) - low + 1
  BY <1>7, FS_Interval
<1>9. Cardinality(low .. high - 1) = high - low
  BY <1>7, <1>8
<1>10. Cardinality(RecordsRead(c, b, e)) = high - low
  BY <1>2, <1>9
<1> QED BY <1>7, <1>10

\* What load() does with a chunk: it is a new one, and counts for all its
\* records, of which the index gets all that are in use.
LEMMA LoadEffect ==
  ASSUME CoreInv, RecordInv, NEW w \in Workers, Load(w)
  PROVE  /\ ~Unstarted
         /\ \E c \in DOMAIN DataChunks \ Range(order) :
              /\ Range(order') = Range(order) \cup {c}
              /\ soFar' = soFar + RecordCount(DataChunks[c])
              /\ loaded' = loaded \cup (disk \cap RecordsOf(DataChunks[c]))
         /\ preprocessed' = IF soFar' >= Capacity[disk] THEN preprocessed + 1 ELSE preprocessed
         /\ event' = (soFar' >= Capacity[disk])
<1> DEFINE r == op[w]
           c == DataChunks[r.chunk]
<1>0. TypeInv /\ HolderInv /\ StartInv /\ r.kind = "data"
  BY DEF CoreInv, Load
<1>1. ~Unstarted
  BY <1>0 DEF Unstarted, NoRead
<1>2. Running
  BY <1>0, <1>1 DEF StartInv
<1>3. /\ r.chunk \in DOMAIN DataChunks
      /\ disk \cap RecordsOf(c) \subseteq RecordsRead(c, r.begin, r.end)
      /\ r.begin + r.end =< c.count
  <2> HIDE DEF r
  <2>1. r \in reads \/ \E v \in Workers : r = op[v]
    BY DEF r
  <2> QED BY <1>0, <1>2, <2>1, ReadsCover DEF c
<1>4. r.chunk \notin Range(order)
  <2>1. w \in Callbacks(r.chunk)
    BY <1>0 DEF Callbacks
  <2>2. Holders(r.chunk) =< 1
    BY <1>0, <1>3 DEF HolderInv, Accounted
  <2>3. Loads(r.chunk) = {}
    BY <1>0, <2>1, <2>2, OnePlace
  <2> QED BY <2>3 DEF Loads, Range
<1>5. Range(order') = Range(order) \cup {r.chunk}
  <2>1. order' = Append(order, r.chunk) /\ order \in Seq(Nat) /\ r.chunk \in Nat
    BY <1>0, <1>3, ChunkTypes DEF Load, TypeInv
  <2> HIDE DEF r
  <2>2. ASSUME NEW x \in Nat, order' = Append(order, x) PROVE Range(order') = Range(order) \cup {x}
    BY <2>1, <2>2, RangeAppend
  <2> QED BY <2>1, <2>2
<1>6. c \in [vcn : Nat, count : Nat \ {0}] /\ r.begin \in Nat /\ r.end \in Nat
  <2>1. r \in ReadOps
    BY <1>0 DEF TypeInv, NoRead
  <2> QED BY <1>3, <2>1, ChunkTypes DEF ReadOps
<1>7. RecordsSkipped(r.begin, r.end) + Cardinality(RecordsRead(c, r.begin, r.end))
        = RecordCount(c)
  <2> HIDE DEF r, c
  <2> QED BY <1>3, <1>6, ChunkCounts
<1>8. RecordsRead(c, r.begin, r.end) \subseteq RecordsOf(c)
  BY DEF RecordsRead
<1> DEFINE buffer == RecordsRead(c, r.begin, r.end)
           skipped == RecordsSkipped(r.begin, r.end)
           count == soFar + skipped + Cardinality(buffer)
<1>9. /\ loaded' = loaded \cup (disk \cap buffer)
      /\ soFar' = count
      /\ preprocessed' = IF count >= Capacity[disk] THEN preprocessed + 1 ELSE preprocessed
      /\ event' = (count >= Capacity[disk])
  BY DEF Load, Finish
<1>10. loaded' = loaded \cup (disk \cap RecordsOf(c))
  <2> HIDE DEF c, r
  <2> QED BY <1>3, <1>8, <1>9
<1>11. soFar' = soFar + RecordCount(c)
  <2>1. soFar \in Nat
    <3>1. Covered \subseteq AllRecords
      BY DEF RecordInv, Covered, AllRecords
    <3> QED BY <3>1, AllRecordsFinite, FS_Subset, FS_CardinalityType DEF RecordInv
  <2>2. Cardinality(buffer) \in Nat /\ skipped \in Nat
    <3>1. buffer \subseteq AllRecords
      BY <1>3, <1>8 DEF AllRecords
    <3>2. Cardinality(buffer) \in Nat
      <4> HIDE DEF buffer
      <4> QED BY <3>1, AllRecordsFinite, FS_Subset, FS_CardinalityType
    <3>3. skipped \in Nat
      <4> HIDE DEF r
      <4>1. r.begin + r.end \in Nat
        BY <1>6
      <4>2. (r.begin + r.end) * PerCluster \in Nat
        BY <4>1, ClusterRecords
      <4> QED BY <4>1, <4>2, RecordsOfClusters DEF RecordsSkipped
    <3> QED BY <3>2, <3>3
  <2> HIDE DEF buffer, skipped
  <2>3. skipped + Cardinality(buffer) = RecordCount(c)
    BY <1>7 DEF buffer, skipped
  <2>4. RecordCount(c) \in Nat
    <3> HIDE DEF c
    <3> QED BY <1>6, ChunkRecords
  <2> HIDE DEF c
  <2> QED BY <1>9, <2>1, <2>2, <2>3, <2>4
<1>12. /\ preprocessed' = IF soFar' >= Capacity[disk] THEN preprocessed + 1 ELSE preprocessed
       /\ event' = (soFar' >= Capacity[disk])
  <2> HIDE DEF count
  <2> QED BY <1>9
<1> HIDE DEF r
<1> QED BY <1>1, <1>3, <1>4, <1>5, <1>10, <1>11, <1>12 DEF c

\* Only load() counts, and the event is set by load() or by the guard.
LEMMA IndexSteps ==
  ASSUME [Next]_vars, ~\E w \in Workers : Load(w)
  PROVE  /\ UNCHANGED <<soFar, loaded, preprocessed, order>>
         /\ event' = event \/ (event' = TRUE /\ \E w \in Workers : pc[w] = "setevent")
<1> USE DEF At, readerVars, workerVars, indexVars, waiterVars
<1> DEFINE Goal == /\ UNCHANGED <<soFar, loaded, preprocessed, order>>
                   /\ event' = event \/ (event' = TRUE /\ \E w \in Workers : pc[w] = "setevent")
<1>1. CASE Owner
  BY <1>1 DEF Owner, PostPayload, Cancel, Wake, CheckCode, Search
<1>2. CASE UNCHANGED vars
  BY <1>2 DEF vars
<1>3. ASSUME NEW w \in Workers, SetEvent(w) PROVE Goal
  BY <1>3 DEF SetEvent
<1>4. ASSUME NEW w \in Workers,
             SetCode(w) \/ ClaimBitmap(w) \/ UndoBitmap(w) \/ ClaimData(w) \/ UndoData(w)
               \/ LoadSkipBegin(w) \/ IssueRead(w)
      PROVE  Goal
  BY <1>4 DEF SetCode, ClaimBitmap, UndoBitmap, ClaimData, UndoData, LoadSkipBegin, IssueRead
<1>5. ASSUME NEW w \in Workers,
             CopyBitmap(w) \/ CountDown(w) \/ StoreSkipBegin(w) \/ StoreSkipEnd(w)
               \/ PayloadFails(w) \/ PayloadStarts(w)
      PROVE  Goal
  BY <1>5 DEF CopyBitmap, CountDown, StoreSkipBegin, StoreSkipEnd, PayloadFails, PayloadStarts
<1>6. ASSUME NEW w \in Workers, NEW r \in reads, PortIssues(w, r) \/ Complete(w, r) PROVE Goal
  BY <1>6 DEF PortIssues, Complete
<1> HIDE DEF Goal
<1>7. Goal
  BY <1>1, <1>2, <1>3, <1>4, <1>5, <1>6 DEF Next, Callback, Payload, Port, Goal
<1> QED BY <1>7 DEF Goal

LEMMA WaiterSteps ==
  ASSUME [Next]_vars
  PROVE  \/ UNCHANGED waiterVars
         \/ /\ event' = event
            /\ \/ Wake
               \/ CheckCode
               \/ Search
<1> USE DEF readerVars, workerVars, indexVars, waiterVars
<1>1. CASE Owner
  BY <1>1 DEF Owner, PostPayload, Cancel, Wake, CheckCode, Search
<1>2. CASE UNCHANGED vars
  BY <1>2 DEF vars
<1>3. ASSUME NEW w \in Workers,
             SetEvent(w) \/ SetCode(w) \/ ClaimBitmap(w) \/ UndoBitmap(w) \/ ClaimData(w)
               \/ UndoData(w) \/ LoadSkipBegin(w) \/ IssueRead(w)
      PROVE  UNCHANGED waiterVars
  BY <1>3 DEF SetEvent, SetCode, ClaimBitmap, UndoBitmap, ClaimData, UndoData, LoadSkipBegin,
              IssueRead
<1>4. ASSUME NEW w \in Workers,
             CopyBitmap(w) \/ CountDown(w) \/ StoreSkipBegin(w) \/ StoreSkipEnd(w)
               \/ PayloadFails(w) \/ PayloadStarts(w) \/ Load(w)
      PROVE  UNCHANGED waiterVars
  BY <1>4 DEF CopyBitmap, CountDown, StoreSkipBegin, StoreSkipEnd, PayloadFails, PayloadStarts,
              Load
<1>5. ASSUME NEW w \in Workers, NEW r \in reads, PortIssues(w, r) \/ Complete(w, r)
      PROVE  UNCHANGED waiterVars
  BY <1>5 DEF PortIssues, Complete
<1> HIDE DEF waiterVars
<1> QED BY <1>1, <1>2, <1>3, <1>4, <1>5 DEF Next, Callback, Payload, Port

\* The sizes that the count is compared with.
LEMMA CoverSizes ==
  ASSUME RecordInv
  PROVE  /\ Covered \subseteq AllRecords /\ IsFiniteSet(Covered)
         /\ soFar \in Nat /\ Cardinality(AllRecords) \in Nat
         /\ soFar =< Cardinality(AllRecords)
         /\ soFar = Cardinality(AllRecords) <=> Covered = AllRecords
<1>1. Covered \subseteq AllRecords
  BY DEF RecordInv, Covered, AllRecords
<1>2. soFar = Cardinality(Covered)
  BY DEF RecordInv
<1> QED BY <1>1, <1>2, AllRecordsFinite, FS_Subset, FS_CardinalityType

LEMMA NextRecords ==
  ASSUME CoreInv, RecordInv, [Next]_vars
  PROVE  RecordInv' /\ soFar' >= soFar /\ soFar' \in Nat
<1>0. disk' = disk /\ disk \in Disks
  BY NextCore DEF CoreInv, StartInv
<1>1. CASE ~\E w \in Workers : Load(w)
  <2>1. UNCHANGED <<soFar, loaded, preprocessed, order>>
    BY <1>1, IndexSteps
  <2>2. RecordInv'
    BY <1>0, <2>1 DEF RecordInv, Covered, NoSlack
  <2> QED BY <2>1, <2>2, CoverSizes
<1>2. ASSUME NEW w \in Workers, Load(w) PROVE RecordInv' /\ soFar' >= soFar /\ soFar' \in Nat
  <2>1. PICK c \in DOMAIN DataChunks \ Range(order) :
              /\ Range(order') = Range(order) \cup {c}
              /\ soFar' = soFar + RecordCount(DataChunks[c])
              /\ loaded' = loaded \cup (disk \cap RecordsOf(DataChunks[c]))
    BY <1>2, LoadEffect
  <2>2. preprocessed' = IF soFar' >= Capacity[disk] THEN preprocessed + 1 ELSE preprocessed
    BY <1>2, LoadEffect
  <2> DEFINE R == RecordsOf(DataChunks[c])
             n == RecordCount(DataChunks[c])
             a == FirstRecord(DataChunks[c])
  <2>3. n \in Nat \ {0} /\ a \in Nat /\ R = a .. a + n - 1
    BY ChunkTypes, ChunkRecords DEF RecordsOf
  <2>4. Covered' = Covered \cup R
    BY <2>1 DEF Covered
  <2>5. Covered \cap R = {}
    <3> SUFFICES ASSUME NEW d \in Range(order) PROVE RecordsOf(DataChunks[d]) \cap R = {}
      BY DEF Covered
    <3>1. d \in DOMAIN DataChunks /\ d # c
      BY <2>1 DEF RecordInv
    <3> QED BY <3>1, ChunksApart
  <2>6. R \subseteq AllRecords
    BY DEF AllRecords
  <2> HIDE DEF R, n, a
  <2>7. IsFiniteSet(R) /\ Cardinality(R) = n /\ a \in R
    <3>1. IsFiniteSet(a .. a + n - 1)
          /\ Cardinality(a .. a + n - 1) = IF a > a + n - 1 THEN 0 ELSE (a + n - 1) - a + 1
      BY <2>3, FS_Interval
    <3>2. Cardinality(a .. a + n - 1) = n /\ a \in a .. a + n - 1
      BY <2>3, <3>1
    <3> QED BY <2>3, <3>1, <3>2
  <2>8. Cardinality(Covered') = soFar + n
    <3>1. Cardinality(Covered \cup R)
            = Cardinality(Covered) + Cardinality(R) - Cardinality(Covered \cap R)
      BY <2>7, CoverSizes, FS_Union
    <3>2. Cardinality(Covered \cap R) = 0
      BY <2>5, FS_EmptySet, Zenon
    <3>3. Cardinality(Covered) = soFar
      BY DEF RecordInv
    <3> QED BY <2>3, <2>4, <2>7, <3>1, <3>2, <3>3, CoverSizes
  <2>9. soFar' = Cardinality(Covered') /\ soFar' >= soFar /\ soFar' \in Nat
    BY <2>1, <2>3, <2>8, CoverSizes DEF n
  <2>10. loaded' = disk \cap (Covered \cup R)
    BY <2>1 DEF RecordInv, R
  <2>11. Range(order') \subseteq DOMAIN DataChunks
    BY <2>1 DEF RecordInv
  <2>12. ASSUME NoSlack PROVE preprocessed' = IF Covered' = AllRecords THEN 1 ELSE 0
    <3>1. Capacity[disk] = Cardinality(AllRecords)
      BY <2>12 DEF NoSlack, AllRecords
    <3>2. Covered # AllRecords
      BY <2>5, <2>6, <2>7
    <3>3. preprocessed = 0
      BY <2>12, <3>2 DEF RecordInv
    <3>4. Covered' \subseteq AllRecords
      BY <2>4, <2>6, CoverSizes
    <3>5. /\ Cardinality(Covered') =< Cardinality(AllRecords)
          /\ Cardinality(Covered') = Cardinality(AllRecords) => Covered' = AllRecords
      BY <3>4, AllRecordsFinite, FS_Subset
    <3>6. soFar' >= Capacity[disk] <=> Covered' = AllRecords
      BY <2>1, <2>3, <2>9, <3>1, <3>5, CoverSizes DEF n
    <3> QED BY <2>2, <3>3, <3>6
  <2>13. NoSlack' => NoSlack
    BY <1>0 DEF NoSlack
  <2>14. loaded' = disk' \cap Covered'
    BY <1>0, <2>4, <2>10
  <2>15. NoSlack' => preprocessed' = IF Covered' = AllRecords THEN 1 ELSE 0
    BY <2>12, <2>13
  <2>16. RecordInv'
    BY <2>9, <2>11, <2>14, <2>15 DEF RecordInv, AllRecords
  <2> QED BY <2>9, <2>16
<1> QED BY <1>1, <1>2

\* An index that is finished, or has failed, stays so.
LEMMA NextEvent ==
  ASSUME CoreInv, RecordInv, EventInv, [Next]_vars
  PROVE  EventInv' /\ (event => event')
<1>0. disk' = disk /\ soFar' >= soFar /\ soFar \in Nat /\ soFar' \in Nat /\ StartInv /\ TypeInv
      /\ disk \in Disks /\ Capacity[disk] \in Nat
  <2>1. disk' = disk /\ StartInv /\ TypeInv /\ disk \in Disks
    BY NextCore DEF CoreInv, StartInv
  <2>2. soFar' >= soFar /\ soFar' \in Nat /\ soFar \in Nat
    BY NextRecords, CoverSizes
  <2> QED BY <2>1, <2>2, ReaderAssumption
<1>1. CASE ~\E w \in Workers : Load(w)
  <2>1. event' = event \/ (event' = TRUE /\ \E w \in Workers : pc[w] = "setevent")
    BY <1>1, IndexSteps
  <2>2. ASSUME Unstarted, payload = "taken" PROVE Unstarted'
    <3>1. Unstarted' \/ (payload = "posted" /\ Running')
      BY <1>0, <2>2, UnstartedNext
    <3> QED BY <2>2, <3>1
  <2>3. CASE event' = event
    <3>1. SUFFICES ASSUME event PROVE soFar' >= Capacity[disk] \/ Unstarted'
      BY <1>0, <2>3 DEF EventInv
    <3>2. CASE soFar >= Capacity[disk]
      BY <1>0, <3>2
    <3>3. CASE Unstarted
      <4>1. payload = "taken"
        BY <3>1, <3>3 DEF Unstarted
      <4> QED BY <2>2, <3>3, <4>1
    <3> QED BY <3>1, <3>2, <3>3 DEF EventInv
  <2>4. CASE event' = TRUE /\ \E w \in Workers : pc[w] = "setevent"
    <3>1. Unstarted
      BY <1>0, <2>4 DEF StartInv, Running, ShownInv
    <3>2. payload = "taken"
      BY <2>4, <3>1 DEF Unstarted
    <3> QED BY <2>2, <2>4, <3>1, <3>2 DEF EventInv
  <2> QED BY <2>1, <2>3, <2>4
<1>2. ASSUME NEW w \in Workers, Load(w) PROVE EventInv' /\ (event => event')
  <2>1. ~Unstarted /\ event' = (soFar' >= Capacity[disk])
    BY <1>2, LoadEffect
  <2>2. event => soFar >= Capacity[disk]
    BY <2>1 DEF EventInv
  <2>3. ASSUME event PROVE event'
    <3>1. soFar' >= Capacity[disk]
      BY <1>0, <2>2, <2>3
    <3> QED BY <2>1, <3>1, Zenon
  <2>4. event' => soFar' >= Capacity[disk']
    BY <1>0, <2>1, Zenon
  <2> QED BY <2>3, <2>4 DEF EventInv
<1> QED BY <1>1, <1>2

\* Who has been woken finds what the event stands for.
LEMMA NextWait ==
  ASSUME CoreInv, RecordInv, EventInv, WaitInv, [Next]_vars
  PROVE  WaitInv'
<1>0. /\ disk' = disk /\ disk \in Disks /\ (event => event') /\ StartInv /\ TypeInv
      /\ NoSlack' <=> NoSlack
  BY NextCore, NextEvent DEF CoreInv, StartInv, NoSlack
<1>1. ASSUME event, NoSlack, ~Unstarted PROVE loaded = disk
  <2>1. soFar >= Capacity[disk] /\ Capacity[disk] = Cardinality(AllRecords)
    BY <1>1 DEF EventInv, NoSlack, AllRecords
  <2>2. Covered = AllRecords
    BY <2>1, CoverSizes
  <2> QED BY <1>0, <1>1, <2>2, DiskCovered DEF RecordInv
<1>2. ASSUME event, Unstarted PROVE Unstarted'
  <2>1. payload = "taken"
    BY <1>2 DEF Unstarted
  <2>2. Unstarted' \/ (payload = "posted" /\ Running')
    BY <1>0, <1>2, UnstartedNext
  <2> QED BY <2>1, <2>2
<1>3. CASE UNCHANGED waiterVars
  <2>1. waiter' = waiter /\ seen' = seen
    BY <1>3 DEF waiterVars
  <2>2. waiter' # "waiting" => event'
    BY <1>0, <2>1 DEF WaitInv
  <2>3. ASSUME waiter' = "searched", NoSlack'
        PROVE  seen'.records = disk' \/ (seen'.records = {} /\ Unstarted')
    BY <1>0, <1>2, <2>1, <2>3 DEF WaitInv
  <2>4. seen' = [code |-> seen'.code, records |-> seen'.records]
    BY <2>1 DEF WaitInv
  <2> QED BY <2>2, <2>3, <2>4 DEF WaitInv
<1>4. CASE Wake
  <2>1. waiter' = "woken" /\ event /\ seen' = seen
    BY <1>4 DEF Wake
  <2> QED BY <1>0, <2>1 DEF WaitInv
<1>5. CASE CheckCode
  <2>1. /\ waiter' \in {"checked", "refused"} /\ waiter = "woken"
        /\ seen' = [seen EXCEPT !.code = code]
    BY <1>5 DEF CheckCode
  <2>2. seen' = [code |-> seen'.code, records |-> seen'.records]
    <3>1. seen = [code |-> seen.code, records |-> seen.records]
      BY DEF WaitInv
    <3>2. seen' = [code |-> code, records |-> seen.records]
      BY <2>1, <3>1
    <3> QED BY <3>2
  <2> QED BY <1>0, <2>1, <2>2 DEF WaitInv
<1>6. CASE Search
  <2>1. waiter' = "searched" /\ event /\ seen' = [seen EXCEPT !.records = loaded]
    BY <1>6 DEF Search, WaitInv
  <2>2. seen' = [code |-> seen.code, records |-> loaded]
    <3>1. seen = [code |-> seen.code, records |-> seen.records]
      BY DEF WaitInv
    <3> QED BY <2>1, <3>1
  <2>3. seen' = [code |-> seen'.code, records |-> seen'.records]
    BY <2>2
  <2>4. ASSUME NoSlack' PROVE seen'.records = disk' \/ (seen'.records = {} /\ Unstarted')
    <3>1. seen'.records = loaded
      BY <2>2
    <3>2. loaded = disk \/ (loaded = {} /\ Unstarted)
      BY <1>0, <1>1, <2>1, <2>4 DEF Unstarted
    <3> QED BY <1>0, <1>2, <2>1, <2>4, <3>1, <3>2
  <2> QED BY <1>0, <2>1, <2>4, <2>3 DEF WaitInv
<1> QED BY <1>3, <1>4, <1>5, <1>6, WaiterSteps

ReaderInv == CoreInv /\ RecordInv /\ EventInv /\ WaitInv

LEMMA InitReader == Init => ReaderInv
<1> SUFFICES ASSUME Init PROVE ReaderInv
  OBVIOUS
<1>1. /\ soFar = 0 /\ loaded = {} /\ preprocessed = 0 /\ order = <<>> /\ ~event
      /\ waiter = "waiting" /\ seen = [code |-> 0, records |-> {}] /\ disk \in Disks
  BY DEF Init
<1>2. Range(order) = {} /\ Covered = {}
  BY <1>1 DEF Range, Covered
<1>3. Cardinality(Covered) = 0
  BY <1>2, FS_EmptySet, Zenon
<1>4. NoSlack => Covered # AllRecords
  BY <1>1, <1>2, DiskCovered
<1>5. RecordInv
  BY <1>1, <1>2, <1>3, <1>4 DEF RecordInv
<1>6. EventInv /\ WaitInv
  BY <1>1 DEF EventInv, WaitInv
<1> QED BY <1>5, <1>6, InitCore DEF ReaderInv

LEMMA NextReader ==
  ASSUME ReaderInv, [Next]_vars
  PROVE  ReaderInv' /\ (event => event')
<1>1. CoreInv /\ RecordInv /\ EventInv /\ WaitInv
  BY DEF ReaderInv
<1>2. CoreInv' /\ RecordInv'
  BY <1>1, NextCore, NextRecords
<1>3. EventInv' /\ WaitInv' /\ (event => event')
  BY <1>1, NextEvent, NextWait
<1> QED BY <1>2, <1>3 DEF ReaderInv

\* The inductive invariant of the reader.
THEOREM ReaderInvariant == Spec => []ReaderInv
<1>1. ReaderInv /\ [Next]_vars => ReaderInv'
  BY NextReader
<1> QED BY InitReader, <1>1, PTL DEF Spec

\* In whatever order the chunks complete and whatever is skipped of them, the
\* preprocessor runs once at most, and when it does the index has every record
\* in use; for any MFT without slack, any number of workers and reads.
THEOREM PreprocessedWhenComplete == Spec => []PreprocessedAtTheEnd
<1>1. ReaderInv => PreprocessedAtTheEnd
  <2> SUFFICES ASSUME ReaderInv, NoSlack
               PROVE  preprocessed =< 1 /\ (preprocessed > 0 => loaded = disk)
    BY DEF PreprocessedAtTheEnd, PreprocessedAfterAll
  <2>1. RecordInv /\ disk \in Disks
    BY DEF ReaderInv, CoreInv, StartInv
  <2>2. preprocessed = IF Covered = AllRecords THEN 1 ELSE 0
    BY <2>1 DEF RecordInv
  <2>3. Covered = AllRecords => loaded = disk
    BY <2>1, DiskCovered DEF RecordInv
  <2> QED BY <2>2, <2>3
<1> QED BY <1>1, ReaderInvariant, PTL

\* A search that follows the event finds every record in use, or none after a
\* failure before the first read: never an index that is half read.
THEOREM SearchFindsAll == Spec => []SearchSeesAll
<1>1. ReaderInv => SearchSeesAll
  BY DEF ReaderInv, WaitInv, SearchSeesAll, Unstarted
<1> QED BY <1>1, ReaderInvariant, PTL

\* A finished index stays finished, with slack or without: the ResetEvent of a
\* later load() never undoes the SetEvent of an earlier one, or of the guard.
THEOREM FinishedForGood == Spec => EventStays
<1>1. ReaderInv /\ [Next]_vars => [event => event']_vars
  BY NextReader
<1>2. Spec => [][event => event']_vars
  BY <1>1, ReaderInvariant, PTL DEF Spec
<1> QED BY <1>2 DEF EventStays
=============================================================================
