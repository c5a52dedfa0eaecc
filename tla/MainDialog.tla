----------------------------- MODULE MainDialog -----------------------------
(***************************************************************************)
(* The main window: searches, clicks on the columns of the list of results,*)
(* exports and refreshes follow each other (the window is disabled while   *)
(* one is under way) while the drives are read.                            *)
(***************************************************************************)
EXTENDS DriveSearch, ResultSort, Export

CONSTANTS
    ClickPhases,    \* bound: columns are clicked and rows exported in these phases of all drives
    ExportColumns   \* bound: rows are exported while the arrow is in these columns

VARIABLES
    lastSort,   \* the column, the variation and whether the counter is odd
    arrow,      \* in the header: its column, and 1 for up, -1 for down, 0 for none
    sorting     \* the sort under way

sortVars == <<lastSort, arrow, sorting>>
listVars == <<sortVars, export>>
vars == <<indexVars, searchVars, results, listVars>>

\* What an index knows of the records that a search visits; its sizes have 48 bits
\* (core/packed_file_size.hpp), those that are compared 64.
ASSUME FilesAssumption ==
    \A d \in Drives : \A v \in 1 .. Len(Tree[d]) :
        LET file == File([drive |-> d, visit |-> v, depth |-> Tree[d][v].depth])
        IN /\ Tree[d][v].depth \in Nat
           /\ file.name \in Nat /\ file.bulkiness \in Nat
           /\ file.length \in Nat /\ file.length < 2 ^ SizeBits \div 2
           /\ file.allocated \in Nat /\ file.allocated < 2 ^ SizeBits \div 2

-----------------------------------------------------------------------------
NotSorted == [column |-> "none", variation |-> [alt |-> FALSE, shift |-> FALSE], odd |-> FALSE]
NoArrow == [column |-> "none", up |-> 0]
NoSort == [column |-> "none", variation |-> [alt |-> FALSE, shift |-> FALSE], upwards |-> FALSE,
           from |-> <<>>, placing |-> PlacingBegun(<<>>, <<>>)]

Init ==
    /\ SearchInit
    /\ lastSort = NotSorted
    /\ arrow = NoArrow
    /\ sorting = NoSort
    /\ export = NoExport

\* Results are pushed at the end and shown from there.
List == Reverse(results)

\* clear().
Cleared ==
    /\ lastSort' = NotSorted
    /\ arrow' = NoArrow
    /\ UNCHANGED <<sorting, export>>

Search(selected, byLevel) == Begin(selected, byLevel) /\ Cleared

\* Refresh(): indices are created anew, of one drive or of all.
Refresh(selected) ==
    /\ pc = "idle"
    /\ index' = [d \in Drives |-> IF d \in selected THEN NewIndex ELSE index[d]]
    /\ results' = <<>>
    /\ Cleared
    /\ UNCHANGED <<priority, searchVars>>

-----------------------------------------------------------------------------
SameKey(column, variation) == lastSort.column = column /\ lastSort.variation = variation

\* pretend_reversed: names are first sorted upwards, everything else downwards, ...
Upwards(column, variation) ==
    (column \in ByName) # (SameKey(column, variation) /\ lastSort.odd)

\* ... and by turns when the same column is clicked again.
Completed(column, variation, up) ==
    /\ lastSort' = [column |-> column, variation |-> variation,
                    odd |-> ~(SameKey(column, variation) /\ lastSort.odd)]
    /\ arrow' = [column |-> column, up |-> up]

Direction(upwards) == IF upwards THEN 1 ELSE -1

\* A list sorted upwards, turned round if need be.
Turned(list, upwards) == IF upwards THEN list ELSE Reverse(list)

\* OnFilesListColumnClick(), the list is sorted already and just turned round.
ClickTurns(column, variation) ==
    /\ pc = "idle"
    /\ column \in ByName \union ByKey
    /\ IsSortedEx(List, column, variation, Upwards(column, variation))
    /\ results' = Reverse(results)
    /\ Completed(column, variation, Direction(Upwards(column, variation)))
    /\ UNCHANGED <<indexVars, searchVars, sorting, export>>

\* A column of names is sorted by std::stable_sort(); with Shift the comparison is no
\* ordering, and any arrangement may come out.
ClickSorts(column, variation) ==
    /\ pc = "idle"
    /\ column \in ByName
    /\ ~IsSortedEx(List, column, variation, Upwards(column, variation))
    /\ \E order \in IF variation.shift THEN Bijection(DOMAIN results, DOMAIN results)
                    ELSE {Order(List, column, variation)} :
          results' = Reverse(Turned(Arranged(List, order), Upwards(column, variation)))
    /\ Completed(column, variation, Direction(Upwards(column, variation)))
    /\ UNCHANGED <<indexVars, searchVars, sorting, export>>

\* Any other is sorted by keys.
ClickPlaces(column, variation) ==
    /\ pc = "idle"
    /\ column \in ByKey
    /\ ~IsSortedEx(List, column, variation, Upwards(column, variation))
    /\ sorting' = [column |-> column, variation |-> variation, from |-> List,
                   upwards |-> Upwards(column, variation),
                   placing |-> PlacingBegun(List, Order(List, column, variation))]
    /\ pc' = "sorting"
    /\ UNCHANGED <<indexVars, search, progress, canceled, results, lastSort, arrow, export>>

\* The switch has no case for this column; the click counts all the same.
ClickNothing(column, variation) ==
    /\ pc = "idle"
    /\ column \notin ByName \union ByKey
    /\ Completed(column, variation, 0)
    /\ UNCHANGED <<indexVars, searchVars, results, sorting, export>>

\* The user stops a sort that has not moved a result; out of the middle of
\* std::stable_sort() any list of the same results may come.
ClickStopped(column, variation) ==
    /\ pc = "idle"
    /\ column \in ByName \union ByKey
    /\ \/ UNCHANGED results
       \/ /\ column \in ByName
          /\ ~IsSortedEx(List, column, variation, Upwards(column, variation))
          /\ results' \in [DOMAIN results -> Range(results)]
    /\ arrow' = [column |-> column, up |-> 0]
    /\ UNCHANGED <<indexVars, searchVars, lastSort, sorting, export>>

Click(column, variation) ==
    /\ \A d \in Drives : index[d].phase \in ClickPhases
    /\ \/ ClickTurns(column, variation)
       \/ ClickSorts(column, variation)
       \/ ClickPlaces(column, variation)
       \/ ClickNothing(column, variation)
       \/ ClickStopped(column, variation)

Place ==
    /\ pc = "sorting"
    /\ ~Placed(sorting.placing)
    /\ sorting' = [sorting EXCEPT !.placing = PlaceNext(@)]
    /\ results' = Reverse(sorting'.placing.list)
    /\ UNCHANGED <<indexVars, searchVars, lastSort, arrow, export>>

PlaceStopped ==
    /\ pc = "sorting"
    /\ ~Placed(sorting.placing)
    /\ pc' = "idle"
    /\ arrow' = [column |-> sorting.column, up |-> 0]
    /\ sorting' = NoSort
    /\ UNCHANGED <<indexVars, search, progress, canceled, results, lastSort, export>>

PlaceEnds ==
    /\ pc = "sorting"
    /\ Placed(sorting.placing)
    /\ pc' = "idle"
    /\ results' = Reverse(Turned(List, sorting.upwards))
    /\ Completed(sorting.column, sorting.variation, Direction(sorting.upwards))
    /\ sorting' = NoSort
    /\ UNCHANGED <<indexVars, search, progress, canceled, export>>

-----------------------------------------------------------------------------
\* append_selected_indices(): the selected rows from the first to the last.
Chosen(selection) == Arranged(List, Ascending(selection))

\* Some rows are selected and exported; a file that cannot be opened ends it at once.
BeginExport(mode, selection) ==
    /\ pc = "idle"
    /\ arrow.column \in ExportColumns
    /\ \A d \in Drives : index[d].phase \in ClickPhases
    /\ export' = ExportBegun(mode, Chosen(selection))
    /\ pc' = "exporting"
    /\ UNCHANGED <<indexVars, search, progress, canceled, results, sortVars>>

\* The progress dialog is looked at now and then, and before the last row.
ExportRow(looks, large, stored) ==
    /\ pc = "exporting"
    /\ MoreRows(export)
    /\ ~((looks \/ IsLast(export)) /\ canceled)
    /\ export' = RowExported(export, looks \/ IsLast(export) \/ large, stored)
    /\ UNCHANGED <<indexVars, searchVars, results, sortVars>>

ExportStops(looks) ==
    /\ pc = "exporting"
    /\ MoreRows(export)
    /\ (looks \/ IsLast(export)) /\ canceled
    /\ export' = ExportCancelled(export)
    /\ pc' = "exported"
    /\ UNCHANGED <<indexVars, search, progress, canceled, results, sortVars>>

ExportEnds ==
    /\ pc = "exporting"
    /\ ~MoreRows(export)
    /\ export' = ExportDone(export)
    /\ pc' = "exported"
    /\ UNCHANGED <<indexVars, search, progress, canceled, results, sortVars>>

\* dump_or_save() returns; what becomes of its file is not followed any further.
ExportClosed ==
    /\ pc = "exported"
    /\ export' = NoExport
    /\ canceled' = FALSE
    /\ pc' = "idle"
    /\ UNCHANGED <<indexVars, search, progress, results, sortVars>>

-----------------------------------------------------------------------------
\* What the user may do, and what follows without him.
User ==
    \/ \E selected \in SUBSET Drives, byLevel \in BOOLEAN : Search(selected, byLevel)
    \/ \E selected \in {Drives} \union {{d} : d \in Drives} : Refresh(selected)
    \/ \E column \in Columns, variation \in Variations : Click(column, variation)
    \/ \E mode \in Modes, selection \in SUBSET DOMAIN List : BeginExport(mode, selection)
    \/ PlaceStopped
    \/ Stop /\ UNCHANGED listVars

Thread ==
    \/ Place \/ PlaceEnds
    \/ SearchStep /\ UNCHANGED listVars
    \/ \E looks, large, stored \in BOOLEAN : ExportRow(looks, large, stored)
    \/ \E looks \in BOOLEAN : ExportStops(looks)
    \/ ExportEnds \/ ExportClosed

Next ==
    \/ User
    \/ Thread
    \/ \E d \in Drives : Drive(d) /\ UNCHANGED listVars

\* The thread of the user interface goes on with what it has begun.
Spec == Init /\ [][Next]_vars /\ WF_vars(Thread)

-----------------------------------------------------------------------------
Selected == search.selected

(***************************************************************************)
(* A search that was not stopped has every match of every selected drive   *)
(* once, whatever the order the drives finished in.                        *)
(***************************************************************************)
FoundOnce ==
    pc = "end" /\ ~canceled =>
        /\ IsInjective(results)
        /\ {<<r.drive, r.visit>> : r \in Range(results)}
             = UNION {{<<d, v>> : v \in {w \in 1 .. index[d].names : Tree[d][w].match}} :
                         d \in Selected}

(***************************************************************************)
(* After a search every open volume has the priority it had before, even   *)
(* if volumes have been closed and their handles given to others.          *)
(***************************************************************************)
PrioritiesRestored ==
    pc = "idle" => \A d \in Drives : index[d].handle # 0 => priority[index[d].handle] = "normal"

(***************************************************************************)
(* If all drives had been measured when the search began and some were     *)
(* still being read, the progress never goes back or beyond its end.       *)
(***************************************************************************)
ProgressForward ==
    [][ (/\ pc \in {"loop", "wait", "search"}
         /\ search.pending
         /\ search.denominator = 2 * SumFunctionOnSet(Capacity, Selected))
        => progress \in 0 .. progress' /\ progress' \in 0 .. search.denominator ]_vars

(***************************************************************************)
(* A search ends when the user has stopped it or all its drives have       *)
(* finished, a sort and an export always do.                               *)
(***************************************************************************)
SearchEnds ==
    (pc # "idle" /\ (canceled \/ pc \in {"sorting", "exporting"} \/ \A d \in Selected : Finished(d)))
         ~> pc = "idle"

\* The space a file saves may be negative.
Saved(r) == File(r).length - File(r).allocated

\* What a column shows, by which its reader expects it to be sorted.
Value(column, variation, r) ==
    CASE column = "name" -> File(r).name
      [] column = "size" -> IF variation.alt THEN Saved(r) ELSE File(r).length
      [] OTHER -> IF variation.alt THEN File(r).bulkiness ELSE File(r).allocated

(***************************************************************************)
(* The list is in the order its arrow tells; with Shift upwards means the  *)
(* deepest level first, for the columns that are sorted by keys.           *)
(***************************************************************************)
ArrowTells ==
    arrow.up # 0 /\ pc = "idle" /\ (arrow.column \in ByKey \/ ~lastSort.variation.shift) =>
        LET list == Turned(List, arrow.up = 1)
            deeper(a, b) == lastSort.variation.shift /\ a.depth > b.depth
            value(r) == Value(arrow.column, lastSort.variation, r)
        IN \A i \in 1 .. Len(list) - 1 :
              \/ deeper(list[i], list[i + 1])
              \/ ~deeper(list[i + 1], list[i]) /\ value(list[i]) <= value(list[i + 1])

(***************************************************************************)
(* The sort in place is stable, and stopped at any point it has lost no    *)
(* result: the positions before the current cycle are as they shall be.    *)
(***************************************************************************)
PlacedStably ==
    pc = "sorting" =>
        LET order == Order(sorting.from, sorting.column, sorting.variation)
        IN /\ \A k \in 1 .. sorting.placing.i - 1 : List[k] = sorting.from[order[k]]
           /\ IsInjective(sorting.from) => IsInjective(List) /\ Range(List) = Range(sorting.from)

(***************************************************************************)
(* A file that the disk takes holds a beginning of the selected rows, in   *)
(* the order of the list and none twice, at any moment and wherever the    *)
(* user stops, and all of them when dump_or_save() ends by itself.         *)
(***************************************************************************)
ExportFaithful ==
    export.mode = "save" /\ ~export.lost =>
        /\ IsPrefix(export.file \o export.buffer, export.rows)
        /\ export.end = "whole" => export.file = export.rows

(***************************************************************************)
(* "Export results to file or clipboard": rows that are copied reach the   *)
(* clipboard, but for streams that the shell could not copy.               *)
(***************************************************************************)
CopyReachesClipboard ==
    export.mode \in {"copy text", "copy files"} /\ export.end = "whole" =>
        export.clipboard = SelectSeq(export.rows,
                               LAMBDA r : ~(export.mode = "copy files" /\ IsStream(r)))
=============================================================================
