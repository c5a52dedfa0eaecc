----------------------------- MODULE IconCache -----------------------------
(***************************************************************************)
(* The icons of the list of results (gui/main_dialog.hpp): the window asks *)
(* for the image of a row while it draws it, and CacheIcon() answers from  *)
(* a cache by path; for a new path it puts an empty entry there and hands  *)
(* a callback to the background worker.  The worker loads the icon if the  *)
(* row is still in view and posts the result to the window, which finds    *)
(* the entry again by its path, fills or erases it, and posts itself a     *)
(* message to redraw rows.  Between the request and the answer the list    *)
(* may be scrolled, sorted, searched anew or refreshed, and the entry may  *)
(* be evicted and asked for again.                                         *)
(*                                                                         *)
(* A thunk of the worker is one request.  Large and small icons share      *)
(* their fate and are one image here.                                      *)
(***************************************************************************)
EXTENDS BackgroundWorker

CONSTANTS
  Paths,      \* the paths of the results
  Lists,      \* what the list may show, a path for every row
  MaxCache    \* max_cache_size: 1 << 10, or the icons that fit into the window
ASSUME IconAssumption ==
  /\ Thunks \subseteq Nat /\ MaxCache \in Nat \ {0}
  /\ IsFiniteSet(Paths) /\ Paths # {}
  /\ \A l \in Lists : l \in Seq(Paths)

VARIABLES
  list,         \* the rows of the list
  cache,        \* cache, by path
  images,       \* the image lists: the path each icon was loaded for
  asked,        \* path and row of the requests that have not been answered
  messages,     \* the messages posted to the window
  invalidated,  \* invalidated_rows is not empty
  window        \* "open" or "gone"

cacheVars == <<cache, images>>
iconVars  == <<vars, list, cacheVars, asked, messages, invalidated, window>>

-----------------------------------------------------------------------------
Absent == [counter |-> 0, valid |-> FALSE, image |-> -2]

\* IconEntry(size) of icon_cache_types.hpp: no image yet.
NewEntry(size) == [counter |-> size, valid |-> FALSE, image |-> -1]

Cached(c) == {p \in Paths : c[p] # Absent}

NoRequest == [path |-> CHOOSE p \in Paths : TRUE, row |-> 0]

Answer(t, success) == [kind |-> "icon", request |-> t, success |-> success]
RefreshItems       == [kind |-> "refresh", request |-> 0, success |-> TRUE]

IconInit ==
  /\ Init
  /\ list \in Lists
  /\ cache = [p \in Paths |-> Absent] /\ images = <<>>
  /\ asked = [t \in Thunks |-> NoRequest]
  /\ messages = <<>> /\ invalidated = FALSE /\ window = "open"

\* The main thread takes the next message or user's action.
MainThread == window = "open" /\ client = "idle"

-----------------------------------------------------------------------------
(***************************************************************************)
(* CacheIcon().                                                            *)
(***************************************************************************)
\* Of a cache that has reached twice its size the entries stay that were put
\* in when it held the larger numbers, ...
Evicted(c) ==
  LET size == Cardinality(Cached(c))
      surplus == size - MaxCache
  IN  IF size < 2 * MaxCache
      THEN c
      ELSE [p \in Paths |->
              IF c[p] = Absent \/ c[p].counter + MaxCache < size
              THEN Absent
              ELSE [c[p] EXCEPT !.counter = @ - surplus]]

\* ... and the new entry counts those it finds.
Entered(c, p) == [c EXCEPT ![p] = NewEntry(Cardinality(Cached(c)))]

\* A row in view is drawn whose path has no entry; the worker takes the request
\* with the time of the message, which never goes back.  Thunks are used in turn.
Display(t, row, stamp) ==
  /\ MainThread
  /\ \A u \in Thunks : u < t => fate[u] # "new"
  /\ row \in DOMAIN list /\ cache[list[row]] = Absent
  /\ \A i \in DOMAIN added : added[i].stamp =< stamp
  /\ BeginAdd(t, stamp)
  /\ cache' = Entered(Evicted(cache), list[row])
  /\ asked' = [asked EXCEPT ![t] = [path |-> list[row], row |-> row]]
  /\ UNCHANGED <<list, images, messages, invalidated, window>>

EndAdd ==
  /\ FinishAdd
  /\ UNCHANGED <<list, cacheVars, asked, messages, invalidated, window>>

(***************************************************************************)
(* The callback of the worker: it loads the icon if the row, whatever it   *)
(* shows by now, is still in view, and posts success or failure.  A row    *)
(* may be scrolled out of view at any moment, so either can come.  There   *)
(* is no window to post to once it is destroyed.                           *)
(***************************************************************************)
Load(success) ==
  /\ Run(TRUE)
  /\ \E t \in running :
       /\ success => window = "open"
       /\ messages' = IF window = "open" THEN Append(messages, Answer(t, success)) ELSE <<>>
  /\ UNCHANGED <<list, cacheVars, asked, invalidated, window>>

Wakes ==
  /\ Wait \/ CheckStop \/ Pop
  /\ UNCHANGED <<list, cacheVars, asked, messages, invalidated, window>>

(***************************************************************************)
(* The messages of the window, in the order they were posted.              *)
(***************************************************************************)
\* MainThreadCallback: the entry that the answer to request t is for.
\* Mutant: the entry of the path that the row shows now.
EntryByRow(t) == list[asked[t].row]
EntryOf(t)    == asked[t].path

\* Mutant: a failure is left alone.
ErasedNot(c, p) == c
Erased(c, p)    == [c EXCEPT ![p] = Absent]

\* The entry has been evicted or cleared meanwhile, or the icon was not loaded.
AnswerUnused ==
  /\ MainThread /\ messages # <<>> /\ Head(messages).kind = "icon"
  /\ LET p == EntryOf(Head(messages).request)
     IN  /\ cache[p] = Absent \/ ~Head(messages).success
         /\ cache' = Erased(cache, p)
  /\ messages' = Tail(messages)
  /\ asked' = [asked EXCEPT ![Head(messages).request] = NoRequest]
  /\ UNCHANGED <<vars, list, images, invalidated, window>>

\* The icon is added to the image list, or replaces the one an earlier request
\* for the path has put there.  A row is to be redrawn, but its number was copied
\* from itself (`int const iItem(iItem)'), so it may be any and is left out here.
AnswerUsed ==
  /\ MainThread /\ messages # <<>> /\ Head(messages).kind = "icon"
  /\ LET t == Head(messages).request
         p == EntryOf(t)
         image == IF cache[p].image < 0 THEN Len(images) ELSE cache[p].image
     IN  /\ cache[p] # Absent /\ Head(messages).success
         /\ cache' = [cache EXCEPT ![p].image = image, ![p].valid = TRUE]
         /\ images' = IF image = Len(images) THEN Append(images, asked[t].path)
                      ELSE [images EXCEPT ![image + 1] = asked[t].path]
         /\ asked' = [asked EXCEPT ![t] = NoRequest]
  /\ invalidated' = TRUE
  /\ messages' = Tail(messages) \o (IF invalidated THEN <<>> ELSE <<RefreshItems>>)
  /\ UNCHANGED <<vars, list, window>>

\* update_and_flush_invalidated_rows().  Mutant: redrawn rows stay in the list.
FlushedNot == UNCHANGED invalidated
Flushed    == invalidated' = FALSE

\* OnRefreshItems().
Redraw ==
  /\ MainThread /\ messages # <<>> /\ Head(messages).kind = "refresh"
  /\ Flushed
  /\ messages' = Tail(messages)
  /\ UNCHANGED <<vars, list, cacheVars, asked, window>>

(***************************************************************************)
(* The user.                                                               *)
(***************************************************************************)
\* A search or a sort: SetItemCount() flushes the rows, the cache stays.
Relist(rows) ==
  /\ MainThread /\ rows # list
  /\ list' = rows
  /\ Flushed
  /\ UNCHANGED <<vars, cacheVars, asked, messages, window>>

\* clear(true, ...) of Refresh(): requests and image lists stay.
Refresh ==
  /\ MainThread /\ Cached(cache) # {}
  /\ cache' = [p \in Paths |-> Absent]
  /\ Flushed
  /\ UNCHANGED <<vars, list, images, asked, messages, window>>

\* OnDestroy(); the messages go with the window, and nothing looks at the cache
\* any more, which is forgotten here.  The destructor of the dialog destroys the
\* worker.
OnDestroy ==
  /\ MainThread /\ Clear
  /\ window' = "gone" /\ messages' = <<>>
  /\ cache' = [p \in Paths |-> Absent] /\ images' = <<>>
  /\ asked' = [t \in Thunks |-> NoRequest] /\ invalidated' = FALSE
  /\ UNCHANGED list

DestroyWorker ==
  /\ window = "gone" /\ (SetStop \/ Destroy)
  /\ UNCHANGED <<list, cacheVars, asked, messages, invalidated, window>>
-----------------------------------------------------------------------------
Loads == Wakes \/ \E success \in BOOLEAN : Load(success)

Dispatch == AnswerUnused \/ AnswerUsed \/ Redraw

User ==
  \/ \E t \in Thunks, row \in DOMAIN list, stamp \in Timestamps : Display(t, row, stamp)
  \/ \E rows \in Lists : Relist(rows)
  \/ Refresh \/ OnDestroy \/ DestroyWorker

IconNext == Loads \/ Dispatch \/ EndAdd \/ User

\* The worker runs, an add() once begun ends, and the window takes its messages.
IconFairness == WF_iconVars(Loads) /\ WF_iconVars(Dispatch \/ EndAdd)

IconSpec == IconInit /\ [][IconNext]_iconVars /\ IconFairness
-----------------------------------------------------------------------------
\* A row is never drawn with another file's icon: the image of an entry was
\* loaded for its path, and no two entries share one, although answers come
\* when the row shows something else, the entry was erased and asked for again,
\* or is filled twice.
IconOfItsPath ==
  /\ \A p \in Cached(cache) : cache[p].valid => images[cache[p].image + 1] = p
  /\ \A p, q \in Cached(cache) : cache[p].valid /\ cache[p].image = cache[q].image => p = q

\* Rows that wait to be redrawn are: a message to do so is on its way, although
\* only the first of them posts one and a new list redraws them without it.
RedrawOnItsWay == window = "open" /\ invalidated => Contains(messages, RefreshItems)

\* Every path that is entered in the cache gets its icon, or loses the entry so
\* that the next drawing asks again: when requests pause, and the bound Thunks
\* makes them pause, a moment comes at which no entry is empty.
EveryIconSettles ==
  []<>(window = "gone" \/ \A p \in Cached(cache) : cache[p].valid)
=============================================================================
