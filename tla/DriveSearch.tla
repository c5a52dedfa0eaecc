---------------------------- MODULE DriveSearch ----------------------------
(***************************************************************************)
(* CMainDlg::Search() (gui/main_dialog.cpp): the user interface thread     *)
(* waits for the indices of the drives it shall search, searches each when *)
(* it is finished, and meanwhile raises and lowers the priorities of the   *)
(* volumes and shows progress.  The drives are read by other threads; how, *)
(* is in MftReader.  MainDialog composes this with sorting and refreshing. *)
(***************************************************************************)
EXTENDS Volumes, Ranking

VARIABLES
    pc,         \* where Search() is
    search,     \* its local variables
    progress,   \* what the progress dialog shows
    canceled,   \* the user has pressed Stop
    results     \* the list of results, in the order they were pushed

searchVars == <<pc, search, progress, canceled>>

-----------------------------------------------------------------------------
\* No search has been made.
NoSearch ==
    [selected |-> {}, left |-> {}, indices |-> <<>>, handles |-> <<>>,
     pending |-> FALSE, denominator |-> 0, numerator |-> 0, current |-> 0, signaled |-> 0,
     old |-> [d \in Drives |-> [volume |-> 0, hint |-> "none"]],
     raised |-> [volume |-> 0, hint |-> "none"], byLevel |-> FALSE]

SearchInit ==
    /\ DrivesInit
    /\ pc = "idle"
    /\ search = NoSearch
    /\ progress = 0
    /\ canceled = FALSE
    /\ results = <<>>

-----------------------------------------------------------------------------
Drive(d) == DriveStep(d) /\ UNCHANGED <<searchVars, results>>

-----------------------------------------------------------------------------
(***************************************************************************)
(* The search, up to the loop.                                             *)
(***************************************************************************)
\* Some drives are selected in the combo box and have a root path the pattern allows.
Begin(selected, byLevel) ==
    /\ pc = "idle"
    /\ search' = [NoSearch EXCEPT !.selected = selected, !.left = Drives, !.byLevel = byLevel]
    /\ pc' = "collect"
    /\ results' = <<>>
    /\ UNCHANGED <<indexVars, progress, canceled>>

\* One round of the loop over the combo box, from the last drive to the first.
Collect ==
    /\ pc = "collect"
    /\ search.left # {}
    /\ LET d == Max(search.left)
           left == search.left \ {d}
       IN search' =
            IF d \in search.selected
            THEN [search EXCEPT !.left = left,
                    !.indices = Append(@, d), !.handles = Append(@, d),
                    !.pending = @ \/ index[d].records < index[d].capacity,
                    !.denominator = @ + 2 * index[d].capacity]
            ELSE [search EXCEPT !.left = left]
    /\ UNCHANGED <<indexVars, pc, progress, canceled, results>>

\* All volumes that are open are lowered.
Lower ==
    /\ pc = "collect"
    /\ search.left = {}
    /\ search' = [search EXCEPT
          !.old = [d \in Drives |-> Remembered(priority, index[d].handle)],
          !.denominator = IF search.pending THEN @ ELSE @ \div 2]
    /\ priority' = [h \in Handles |-> IF IsOpen(h) THEN "low" ELSE priority[h]]
    /\ pc' = "loop"
    /\ UNCHANGED <<index, progress, canceled, results>>

-----------------------------------------------------------------------------
(***************************************************************************)
(* The loop, while there is a drive to wait for.                           *)
(***************************************************************************)
\* The priorities when a volume is raised and the one before gets its own back.
Raised(volume) ==
    GivenBack(SetPriority(priority, volume, "normal"), search.raised)

\* The top of the loop: the drive that is first in the list is raised.
Raise ==
    /\ pc = "loop"
    /\ search.indices # <<>>
    /\ LET volume == index[Head(search.indices)].handle
       IN IF volume \in {0, search.raised.volume}
          THEN UNCHANGED <<priority, search>>
          ELSE /\ priority' = Raised(volume)
               /\ search' = [search EXCEPT !.raised = Remembered(priority, volume)]
    /\ pc' = "wait"
    /\ UNCHANGED <<index, progress, canceled, results>>

RecordsWaiting == SumFunctionOnSet([d \in Drives |-> index[d].records], Range(search.indices))

\* Mutant: whether the user has cancelled is only asked while an index is searched.
TimeOutGoesOn ==
    /\ pc = "wait"
    /\ \A d \in Range(search.handles) : ~Finished(d)
    /\ pc' = "loop"
    /\ progress' \in {progress, search.numerator + RecordsWaiting}
    /\ UNCHANGED <<indexVars, search, canceled, results>>

\* No event is set for a while: the search is given up or shows how far the drives are.
TimeOut ==
    /\ pc = "wait"
    /\ \A d \in Range(search.handles) : ~Finished(d)
    /\ IF canceled
       THEN pc' = "end" /\ UNCHANGED progress
       ELSE /\ pc' = "loop"
            /\ progress' \in {progress, search.numerator + RecordsWaiting}
    /\ UNCHANGED <<indexVars, search, canceled, results>>

\* Mutant: drives are taken to finish in the order of the list.
WakeInOrder ==
    /\ pc = "wait"
    /\ \E k \in DOMAIN search.handles :
          /\ Finished(search.handles[k])
          /\ search' = [search EXCEPT !.signaled = 1, !.current = 0]
    /\ pc' = "search"
    /\ UNCHANGED <<indexVars, progress, canceled, results>>

\* WaitMessageLoop() returns the position of the first event that is set.
Wake ==
    /\ pc = "wait"
    /\ \E k \in DOMAIN search.handles :
          /\ Finished(search.handles[k])
          /\ \A j \in 1 .. k - 1 : ~Finished(search.handles[j])
          /\ search' = [search EXCEPT !.signaled = k, !.current = 0]
    /\ pc' = "search"
    /\ UNCHANGED <<indexVars, progress, canceled, results>>

-----------------------------------------------------------------------------
(***************************************************************************)
(* The search of one index: visits, each of which may be the last.         *)
(***************************************************************************)
Current == search.indices[search.signaled]

\* The share of the capacity that corresponds to the visits made.
Share == (Capacity[Current] * search.current) \div index[Current].names

\* Mutant: the records read are shown without the drives searched before.
ShownOfThisDrive == (IF search.pending THEN RecordsWaiting ELSE 0) + Share

\* What a visit shows.
Shown == search.numerator + (IF search.pending THEN RecordsWaiting ELSE 0) + Share

\* The callback looks at the clock now and then, and before the last visit.
Looks(looks) == looks \/ index[Current].names - search.current <= 1

Visit(looks) ==
    /\ pc = "search"
    /\ search.current < index[Current].names
    /\ ~(Looks(looks) /\ canceled)
    /\ progress' = IF Looks(looks) THEN Shown ELSE progress
    /\ search' = [search EXCEPT !.current = @ + 1]
    /\ LET visit == Tree[Current][search.current + 1]
       IN results' = IF visit.match
                     THEN Append(results, [drive |-> Current, visit |-> search.current + 1,
                                           depth |-> visit.depth])
                     ELSE results
    /\ UNCHANGED <<indexVars, pc, canceled>>

\* The index has been searched, or the callback has found that it shall stop; then the
\* loop goes on with the next index all the same.
Searched(looks) ==
    /\ pc = "search"
    /\ search.current = index[Current].names \/ (Looks(looks) /\ canceled)
    /\ search' = [search EXCEPT
          !.numerator = @ + (IF search.pending THEN index[Current].capacity ELSE 0)
                          + (IF index[Current].names = 0 THEN 0 ELSE Share),
          !.indices = RemoveAt(@, search.signaled),
          !.handles = RemoveAt(@, search.signaled),
          !.signaled = 0, !.current = 0]
    /\ pc' = "loop"
    /\ UNCHANGED <<indexVars, progress, canceled, results>>

NoneLeft ==
    /\ pc = "loop"
    /\ search.indices = <<>>
    /\ pc' = "end"
    /\ UNCHANGED <<indexVars, search, progress, canceled, results>>

-----------------------------------------------------------------------------
\* results_at_depths, appended from the deepest level to the root's and each backwards.
ByLevel(found) ==
    LET before == {p \in (DOMAIN found) \X (DOMAIN found) :
            \/ found[p[1]].depth > found[p[2]].depth
            \/ found[p[1]].depth = found[p[2]].depth /\ p[1] > p[2]}
    IN Arranged(found, Ranked(DOMAIN found, before))

\* Mutant: the raised volume gets its priority back after all others have theirs.
RestoredLate ==
    LET restored == [h \in Handles |->
            IF IsOpen(h) /\ \E d \in Drives : search.old[d].volume = h
            THEN search.old[CHOOSE d \in Drives : search.old[d].volume = h].hint
            ELSE priority[h]]
    IN GivenBack(restored, search.raised)

\* The destructors, of set_priority first and of set_priorities then.
Restored ==
    LET lowered == GivenBack(priority, search.raised)
    IN [h \in Handles |->
            IF IsOpen(h) /\ \E d \in Drives : search.old[d].volume = h
            THEN search.old[CHOOSE d \in Drives : search.old[d].volume = h].hint
            ELSE lowered[h]]

End ==
    /\ pc = "end"
    /\ results' = IF search.byLevel THEN ByLevel(results) ELSE results
    /\ priority' = Restored
    /\ search' = NoSearch
    /\ progress' = 0
    /\ canceled' = FALSE
    /\ pc' = "idle"
    /\ UNCHANGED index

\* The Stop button of the progress dialog.
Stop ==
    /\ pc \notin {"idle", "sorting", "exported", "end"}
    /\ ~canceled
    /\ canceled' = TRUE
    /\ UNCHANGED <<indexVars, pc, search, progress, results>>

\* A step of the thread of the user interface.
SearchStep ==
    \/ Collect \/ Lower \/ Raise \/ TimeOut \/ Wake \/ NoneLeft \/ End
    \/ \E looks \in BOOLEAN : Visit(looks) \/ Searched(looks)
=============================================================================
