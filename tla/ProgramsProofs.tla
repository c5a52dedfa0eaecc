--------------------------- MODULE ProgramsProofs ---------------------------
(***************************************************************************)
(* The main window and the command line, for any number of drives, any     *)
(* trees and any numbers of handles.                                       *)
(* The window:                                                             *)
(*   - after a search the volumes have the priorities they had;            *)
(*   - a search that was not stopped has found every match once;           *)
(*   - its progress never goes back;                                       *)
(*   - a sort loses no row, wherever it is stopped, keeps equal rows in    *)
(*     their order, and the arrow of the header tells the order there is;  *)
(*   - an export holds exactly the rows that were selected, in order.      *)
(* The command line:                                                       *)
(*   - what it has written when it ends is every match of every drive,     *)
(*     each once and drive by drive.                                       *)
(***************************************************************************)
EXTENDS MainDialog, CommandLine, SequenceLemmas, TLAPS

-----------------------------------------------------------------------------
(***************************************************************************)
(* The drives.                                                             *)
(***************************************************************************)
IndexFields == {"phase", "handle", "capacity", "records", "names"}

DrivesInv ==
    /\ DOMAIN index = Drives /\ DOMAIN priority = Handles
    /\ \A d \in Drives :
          /\ DOMAIN index[d] = IndexFields
          /\ index[d].handle \in Handles \cup {0} /\ index[d].names \in 0 .. Len(Tree[d])
          /\ index[d].phase = "new" => index[d].handle = 0

LEMMA NewIndexIs ==
  /\ DOMAIN NewIndex = IndexFields /\ NewIndex.handle = 0 /\ NewIndex.names = 0
  /\ NewIndex.phase = "new"
BY DEF NewIndex, IndexFields

\* A drive changes its own index, and the priority of its volume when it closes
\* that; a finished index stays as it is.
LEMMA DriveStepEffect ==
  ASSUME DrivesInv, NEW d \in Drives, DriveStep(d)
  PROVE  /\ DrivesInv'
         /\ \A e \in Drives : Finished(e) => Finished(e)' /\ index'[e].names = index[e].names
         /\ \A h \in Handles :
              \/ priority'[h] = "normal"
              \/ /\ priority'[h] = priority[h]
                 /\ \A e \in Drives : index[e].handle = h => index'[e].handle = h
<1>1. /\ DOMAIN index = Drives /\ DOMAIN priority = Handles
      /\ \A e \in Drives :
            /\ DOMAIN index[e] = IndexFields
            /\ index[e].handle \in Handles \cup {0} /\ index[e].names \in Nat
            /\ index[e].phase = "new" => index[e].handle = 0
  BY DEF DrivesInv
<1>2. 0 \notin Handles
  BY HandlesAssumption
\* Steps that leave the priorities and the other drives alone.
<1>3. ASSUME NEW new, index' = [index EXCEPT ![d] = new], priority' = priority,
             DOMAIN new = IndexFields, new.handle \in Handles \cup {0}, new.names = index[d].names,
             new.phase # "new" \/ new.handle = 0,
             index[d].handle # 0 => new.handle = index[d].handle,
             ~Finished(d)
      PROVE  /\ DrivesInv'
             /\ \A e \in Drives : Finished(e) => Finished(e)' /\ index'[e].names = index[e].names
             /\ \A h \in Handles :
                  /\ priority'[h] = priority[h]
                  /\ \A e \in Drives : index[e].handle = h => index'[e].handle = h
  <2>1. index'[d] = new /\ \A e \in Drives : e # d => index'[e] = index[e]
    BY <1>1, <1>3
  <2>2. DOMAIN index' = Drives
    BY <1>1, <1>3
  <2> QED BY <1>1, <1>2, <1>3, <2>1, <2>2 DEF DrivesInv, Finished
<1>4. CASE \E h \in Handles : Open(d, h)
  <2>1. PICK h \in Handles : Open(d, h)
    BY <1>4
  <2> DEFINE new == [[index[d] EXCEPT !.phase = "open"] EXCEPT !.handle = h]
  <2>2. /\ DOMAIN new = IndexFields /\ new.handle = h /\ new.names = index[d].names
        /\ new.phase = "open"
    BY <1>1 DEF IndexFields
  <2>3. index' = [index EXCEPT ![d] = new] /\ priority' = priority /\ index[d].phase = "new"
    BY <1>1, <2>1 DEF Open
  <2> HIDE DEF new
  <2> QED BY <1>1, <1>3, <2>2, <2>3 DEF Finished
<1>5. CASE Measure(d)
  <2> DEFINE new == [[index[d] EXCEPT !.phase = "reading"] EXCEPT !.capacity = Capacity[d]]
  <2>1. /\ DOMAIN new = IndexFields /\ new.handle = index[d].handle /\ new.names = index[d].names
        /\ new.phase = "reading"
    BY <1>1 DEF IndexFields
  <2>2. index' = [index EXCEPT ![d] = new] /\ priority' = priority /\ index[d].phase = "open"
    BY <1>1, <1>5 DEF Measure
  <2> HIDE DEF new
  <2> QED BY <1>1, <1>3, <2>1, <2>2 DEF Finished
<1>6. CASE Read(d)
  <2>1. PICK n : index' = [index EXCEPT ![d].records = n] /\ priority' = priority
    BY <1>6 DEF Read
  <2> DEFINE new == [index[d] EXCEPT !.records = n]
  <2>2. /\ DOMAIN new = IndexFields /\ new.handle = index[d].handle /\ new.names = index[d].names
        /\ new.phase = index[d].phase
    BY <1>1 DEF IndexFields
  <2>3. index' = [index EXCEPT ![d] = new] /\ index[d].phase = "reading"
    BY <1>1, <1>6, <2>1 DEF Read
  <2> HIDE DEF new
  <2> QED BY <1>1, <1>3, <2>1, <2>2, <2>3 DEF Finished
<1>7. CASE Signal(d)
  <2> DEFINE new == [index[d] EXCEPT !.phase = "finished"]
  <2>1. /\ DOMAIN new = IndexFields /\ new.handle = index[d].handle /\ new.names = index[d].names
        /\ new.phase = "finished"
    BY <1>1 DEF IndexFields
  <2>2. index' = [index EXCEPT ![d] = new] /\ priority' = priority /\ index[d].phase = "closed"
    BY <1>1, <1>7 DEF Signal
  <2> HIDE DEF new
  <2> QED BY <1>1, <1>3, <2>1, <2>2 DEF Finished
<1>8. CASE Fail(d)
  <2> DEFINE new == [index[d] EXCEPT !.phase = "failed"]
  <2>1. /\ DOMAIN new = IndexFields /\ new.handle = index[d].handle /\ new.names = index[d].names
        /\ new.phase = "failed"
    BY <1>1 DEF IndexFields
  <2>2. /\ index' = [index EXCEPT ![d] = new] /\ priority' = priority
        /\ index[d].phase \in {"new", "open", "reading"}
    BY <1>1, <1>8 DEF Fail
  <2> HIDE DEF new
  <2> QED BY <1>1, <1>3, <2>1, <2>2 DEF Finished
<1>9. CASE Close(d)
  <2> DEFINE new == [[[index[d] EXCEPT !.phase = "closed"] EXCEPT !.handle = 0]
                        EXCEPT !.names = Len(Tree[d])]
  <2>1. /\ DOMAIN new = IndexFields /\ new.handle = 0 /\ new.names = Len(Tree[d]) /\ new.phase = "closed"
    BY <1>1 DEF IndexFields
  <2>2. /\ index' = [index EXCEPT ![d] = new] /\ index[d].phase = "reading"
        /\ priority' = [priority EXCEPT ![index[d].handle] = "normal"]
    BY <1>1, <1>9 DEF Close
  <2> HIDE DEF new
  <2>3. DOMAIN index' = Drives /\ DOMAIN priority' = Handles
    BY <1>1, <2>2
  <2>4. index'[d] = new /\ \A e \in Drives : e # d => index'[e] = index[e]
    BY <1>1, <2>2
  <2>5. \A h \in Handles : priority'[h] = IF h = index[d].handle THEN "normal" ELSE priority[h]
    BY <1>1, <2>2
  <2>6. DrivesInv'
    <3>1. Len(Tree[d]) \in 0 .. Len(Tree[d])
      BY DrivesAssumption
    <3> QED BY <1>1, <2>1, <2>3, <2>4, <3>1 DEF DrivesInv
  <2>7. \A e \in Drives : Finished(e) => Finished(e)' /\ index'[e].names = index[e].names
    BY <2>2, <2>4 DEF Finished
  <2> QED BY <2>4, <2>5, <2>6, <2>7
<1> QED BY <1>4, <1>5, <1>6, <1>7, <1>8, <1>9 DEF DriveStep

-----------------------------------------------------------------------------
(***************************************************************************)
(* Priorities.  Handles are multiples of four, so that a number stands for *)
(* itself.                                                                 *)
(***************************************************************************)
LEMMA HandlesStandForThemselves ==
  ASSUME NEW h \in Handles \cup {0}
  PROVE  /\ HandleOf(h) = h
         /\ IsOpen(h) <=> h # 0 /\ \E d \in Drives : index[d].handle = h
<1>1. h \in Nat /\ h % 4 = 0
  BY HandlesAssumption
<1>2. 4 * (h \div 4) = h
  <2>1. h = 4 * (h \div 4) + (h % 4)
    BY <1>1
  <2>2. 4 * (h \div 4) \in Int
    BY <1>1
  <2> QED BY <1>1, <2>1, <2>2
<1> QED BY <1>2 DEF HandleOf, IsOpen

LEMMA SetPriorityEffect ==
  ASSUME NEW p, DOMAIN p = Handles, NEW h \in Handles \cup {0}, NEW hint
  PROVE  /\ DOMAIN SetPriority(p, h, hint) = Handles
         /\ \A g \in Handles :
              SetPriority(p, h, hint)[g] = IF g = h /\ IsOpen(h) THEN hint ELSE p[g]
<1>1. HandleOf(h) = h
  BY HandlesStandForThemselves
<1>2. IsOpen(h) => h \in Handles
  BY HandlesStandForThemselves
<1> QED BY <1>1, <1>2 DEF SetPriority

\* A volume that is not at normal priority is open, and the search that lowered
\* it remembers to give its priority back.
Kept(h) == \E d \in Drives : search.old[d].volume = h

SearchFields ==
    {"selected", "left", "indices", "handles", "pending", "denominator", "numerator",
     "current", "signaled", "old", "raised", "byLevel"}

NothingKept ==
    /\ \A d \in Drives : search.old[d].volume = 0
    /\ search.raised.volume = 0

PriorityInv ==
    /\ \A h \in Handles :
          \/ priority[h] = "normal"
          \/ priority[h] = "low" /\ Kept(h) /\ \E d \in Drives : index[d].handle = h
    /\ \A d \in Drives :
          /\ search.old[d].volume \in Handles \cup {0}
          /\ search.old[d].volume # 0 => search.old[d].hint = "normal"
    /\ search.raised.volume \in Handles \cup {0}
    /\ \/ search.raised.volume = 0
       \/ search.raised.hint = "normal"
       \/ search.raised.hint = "low" /\ Kept(search.raised.volume)
    /\ pc \notin {"loop", "wait", "search", "end"} => NothingKept

\* The lists of drives and handles go together; a drive that is in them has not
\* been searched, and the one that is being searched is finished.
ListInv ==
    /\ DOMAIN search = SearchFields
    /\ search.indices \in Seq(Drives) /\ IsInjective(search.indices)
    /\ search.handles = search.indices
    /\ search.left \in SUBSET Drives /\ search.selected \in SUBSET Drives
    /\ pc = "collect" => Range(search.indices) = search.selected \ search.left
    /\ pc \in {"loop", "wait", "search", "end"} => Range(search.indices) \subseteq search.selected
    /\ pc = "search" => /\ search.signaled \in 1 .. Len(search.indices)
                        /\ search.current \in 0 .. index[Current].names
                        /\ Finished(Current)

\* Each part by itself, and a step that leaves the search alone.
LEMMA NoSearchIs ==
  /\ DOMAIN NoSearch = SearchFields
  /\ NoSearch.indices = <<>> /\ NoSearch.handles = <<>>
  /\ NoSearch.selected = {} /\ NoSearch.left = {}
  /\ \A d \in Drives : NoSearch.old[d].volume = 0
  /\ NoSearch.raised.volume = 0
BY DEF NoSearch, SearchFields

DialogInv == DrivesInv /\ PriorityInv /\ ListInv

LEMMA DialogInvInit == Init => DialogInv
<1> SUFFICES ASSUME Init PROVE DialogInv
  OBVIOUS
<1>1. /\ index = [d \in Drives |-> NewIndex] /\ priority = [h \in Handles |-> "normal"]
      /\ pc = "idle" /\ search = NoSearch
  BY DEF Init, SearchInit, DrivesInit
<1>2. DrivesInv
  BY <1>1, NewIndexIs DEF DrivesInv
<1>3. PriorityInv
  BY <1>1, NoSearchIs DEF PriorityInv, NothingKept
<1>4. ListInv
  BY <1>1, NoSearchIs DEF ListInv, IsInjective
<1> QED BY <1>2, <1>3, <1>4 DEF DialogInv

SearchPcs == {"loop", "wait", "search", "end"}

\* Steps that only go on, or have nothing to do with a search.
LEMMA QuietStep ==
  ASSUME DialogInv, index' = index, priority' = priority, search' = search,
         \/ pc' = pc
         \/ pc \in SearchPcs /\ pc' \in {"loop", "wait", "end"}
         \/ pc \notin SearchPcs /\ pc' \notin SearchPcs \cup {"collect"}
  PROVE  DialogInv'
<1>1. DrivesInv'
  BY DEF DialogInv, DrivesInv
<1>2. PriorityInv'
  BY DEF DialogInv, PriorityInv, NothingKept, Kept, SearchPcs
<1>3. ListInv'
  BY DEF DialogInv, ListInv, SearchPcs, Current, Finished
<1> QED BY <1>1, <1>2, <1>3 DEF DialogInv

LEMMA DriveKeepsDialog ==
  ASSUME DialogInv, NEW d \in Drives, DriveStep(d), search' = search, pc' = pc
  PROVE  DialogInv'
<1>1. /\ DrivesInv'
      /\ \A e \in Drives : Finished(e) => Finished(e)' /\ index'[e].names = index[e].names
      /\ \A h \in Handles :
           \/ priority'[h] = "normal"
           \/ /\ priority'[h] = priority[h]
              /\ \A e \in Drives : index[e].handle = h => index'[e].handle = h
  BY DriveStepEffect DEF DialogInv
<1>2. ASSUME NEW h \in Handles
      PROVE  \/ priority'[h] = "normal"
             \/ priority'[h] = "low" /\ Kept(h) /\ \E e \in Drives : index'[e].handle = h
  BY <1>1 DEF DialogInv, PriorityInv
<1>3. PriorityInv'
  BY <1>2 DEF DialogInv, PriorityInv, NothingKept, Kept
<1>4. pc = "search" => Current \in Drives
  BY DEF DialogInv, ListInv, Current
<1>5. ListInv'
  <2>1. pc = "search" => index'[Current].names = index[Current].names /\ Finished(Current)'
    BY <1>1, <1>4 DEF DialogInv, ListInv, Current
  <2> QED BY <2>1 DEF DialogInv, ListInv, Current
<1> QED BY <1>1, <1>3, <1>5 DEF DialogInv

LEMMA BeginKeepsDialog ==
  ASSUME DialogInv, NEW selected \in SUBSET Drives, NEW byLevel, Begin(selected, byLevel)
  PROVE  DialogInv'
<1>1. /\ pc = "idle" /\ pc' = "collect" /\ index' = index /\ priority' = priority
      /\ search' = [NoSearch EXCEPT !.selected = selected, !.left = Drives, !.byLevel = byLevel]
  BY DEF Begin, indexVars
<1>2. /\ DOMAIN search' = SearchFields
      /\ search'.indices = <<>> /\ search'.handles = <<>>
      /\ search'.selected = selected /\ search'.left = Drives
      /\ \A d \in Drives : search'.old[d].volume = 0
      /\ search'.raised.volume = 0
  BY <1>1, NoSearchIs DEF SearchFields
<1>3. DrivesInv'
  BY <1>1 DEF DialogInv, DrivesInv
<1>4. \A h \in Handles : priority[h] = "normal"
  BY <1>1, HandlesAssumption DEF DialogInv, PriorityInv, NothingKept, Kept
<1>5. PriorityInv'
  BY <1>1, <1>2, <1>4 DEF PriorityInv, NothingKept
<1>6. <<>> \in Seq(Drives) /\ IsInjective(<<>>) /\ Range(<<>>) = {}
  BY DEF Range, IsInjective
<1>7. selected \ Drives = {}
  OBVIOUS
<1>8. ListInv'
  BY <1>1, <1>2, <1>6, <1>7 DEF ListInv
<1> QED BY <1>3, <1>5, <1>8 DEF DialogInv

LEMMA GreatestDrive ==
  ASSUME NEW left \in SUBSET Drives, left # {}
  PROVE  Max(left) \in left
<1>1. left \in SUBSET (0 .. DriveCount) /\ DriveCount \in Nat
  BY DrivesAssumption DEF Drives
<1> QED BY <1>1, GreatestExists

LEMMA CollectKeepsDialog == ASSUME DialogInv, Collect PROVE DialogInv'
<1> DEFINE d == Max(search.left)
<1>1. d \in search.left /\ d \in Drives
  BY GreatestDrive DEF DialogInv, ListInv, Collect
<1>2. /\ pc = "collect" /\ pc' = pc /\ index' = index /\ priority' = priority
      /\ search' =
           IF d \in search.selected
           THEN [search EXCEPT !.left = search.left \ {d},
                   !.indices = Append(@, d), !.handles = Append(@, d),
                   !.pending = @ \/ index[d].records < index[d].capacity,
                   !.denominator = @ + 2 * index[d].capacity]
           ELSE [search EXCEPT !.left = search.left \ {d}]
  BY DEF Collect, indexVars
<1> HIDE DEF d
<1>3. /\ search'.old = search.old /\ search'.raised = search.raised
      /\ DOMAIN search' = SearchFields /\ search'.selected = search.selected
      /\ search'.left = search.left \ {d}
      /\ IF d \in search.selected
         THEN search'.indices = Append(search.indices, d) /\ search'.handles = Append(search.handles, d)
         ELSE search'.indices = search.indices /\ search'.handles = search.handles
  BY <1>2 DEF DialogInv, ListInv, SearchFields
<1>4. DrivesInv'
  BY <1>2 DEF DialogInv, DrivesInv
<1>5. PriorityInv'
  BY <1>2, <1>3 DEF DialogInv, PriorityInv, NothingKept, Kept
<1>6. /\ search.indices \in Seq(Drives) /\ IsInjective(search.indices)
      /\ search.handles = search.indices
      /\ search.left \in SUBSET Drives /\ search.selected \in SUBSET Drives
      /\ Range(search.indices) = search.selected \ search.left
  BY <1>2 DEF DialogInv, ListInv
<1>7. CASE d \in search.selected
  <2>1. d \notin Range(search.indices)
    BY <1>1, <1>6
  <2> DEFINE s == search.indices
             u == search'.indices
  <2>2. u \in Seq(Drives) /\ IsInjective(u) /\ Range(u) = Range(s) \cup {d}
    <3>1. u = Append(s, d)
      BY <1>3, <1>7
    <3>2. s \in Seq(Drives) /\ IsInjective(s) /\ d \in Drives /\ d \notin Range(s)
      BY <1>1, <1>6, <2>1
    <3> HIDE DEF s, u
    <3> QED BY <3>1, <3>2, AppendedOnce
  <2>3. Range(search'.indices) = search'.selected \ search'.left
    BY <1>1, <1>3, <1>6, <1>7, <2>2
  <2> QED BY <1>2, <1>3, <1>4, <1>5, <1>6, <1>7, <2>2, <2>3 DEF DialogInv, ListInv
<1>8. CASE d \notin search.selected
  BY <1>2, <1>3, <1>4, <1>5, <1>6, <1>8 DEF DialogInv, ListInv
<1> QED BY <1>7, <1>8

LEMMA LowerKeepsDialog == ASSUME DialogInv, Lower PROVE DialogInv'
<1>1. /\ pc = "collect" /\ search.left = {} /\ pc' = "loop" /\ index' = index
      /\ search' = [search EXCEPT
            !.old = [d \in Drives |-> Remembered(priority, index[d].handle)],
            !.denominator = IF search.pending THEN @ ELSE @ \div 2]
      /\ priority' = [h \in Handles |-> IF IsOpen(h) THEN "low" ELSE priority[h]]
  BY DEF Lower
<1>2. /\ search'.old = [d \in Drives |-> Remembered(priority, index[d].handle)]
      /\ search'.raised = search.raised /\ DOMAIN search' = SearchFields
      /\ search'.indices = search.indices /\ search'.handles = search.handles
      /\ search'.left = search.left /\ search'.selected = search.selected
  BY <1>1 DEF DialogInv, ListInv, SearchFields
<1>3. DrivesInv'
  BY <1>1 DEF DialogInv, DrivesInv
<1>4. \A h \in Handles : priority[h] = "normal"
  BY <1>1, HandlesAssumption DEF DialogInv, PriorityInv, NothingKept, Kept
<1>5. ASSUME NEW d \in Drives
      PROVE  /\ search'.old[d].volume = index[d].handle /\ index[d].handle \in Handles \cup {0}
             /\ index[d].handle # 0 => search'.old[d].hint = "normal"
  <2>1. index[d].handle \in Handles \cup {0}
    BY DEF DialogInv, DrivesInv
  <2>2. HandleOf(index[d].handle) = index[d].handle
    BY <2>1, HandlesStandForThemselves
  <2> QED BY <1>2, <1>4, <2>1, <2>2 DEF Remembered
<1>6. ASSUME NEW h \in Handles
      PROVE  \/ priority'[h] = "normal"
             \/ priority'[h] = "low" /\ Kept(h)' /\ \E d \in Drives : index[d].handle = h
  BY <1>1, <1>4, <1>5, HandlesStandForThemselves DEF Kept
<1>7. PriorityInv'
  <2>1. search.raised.volume = 0
    BY <1>1 DEF DialogInv, PriorityInv, NothingKept
  <2> QED BY <1>1, <1>2, <1>5, <1>6, <2>1 DEF PriorityInv
<1>8. ListInv'
  BY <1>1, <1>2 DEF DialogInv, ListInv
<1> QED BY <1>3, <1>7, <1>8 DEF DialogInv

\* What the destructor of an IoPriority leaves: the volume it names is low only
\* if it was to be.
LEMMA GivenBackEffect ==
  ASSUME NEW p, DOMAIN p = Handles, NEW r, r.volume \in Handles \cup {0}
  PROVE  /\ DOMAIN GivenBack(p, r) = Handles
         /\ \A g \in Handles :
              GivenBack(p, r)[g] = IF g = r.volume /\ IsOpen(g) THEN r.hint ELSE p[g]
BY SetPriorityEffect DEF GivenBack

LEMMA RaiseKeepsDialog == ASSUME DialogInv, Raise PROVE DialogInv'
<1> DEFINE volume == index[Head(search.indices)].handle
<1>1. pc = "loop" /\ pc' = "wait" /\ search.indices # <<>> /\ index' = index
  BY DEF Raise
<1>2. CASE volume \in {0, search.raised.volume}
  <2>1. priority' = priority /\ search' = search
    BY <1>2 DEF Raise
  <2> QED BY <1>1, <2>1, QuietStep DEF SearchPcs
<1>3. CASE volume \notin {0, search.raised.volume}
  <2>1. /\ priority' = GivenBack(SetPriority(priority, volume, "normal"), search.raised)
        /\ search' = [search EXCEPT !.raised = Remembered(priority, volume)]
    BY <1>3 DEF Raise, Raised
  <2>2. Head(search.indices) \in Drives
    BY <1>1 DEF DialogInv, ListInv
  <2>3. volume \in Handles /\ IsOpen(volume) /\ HandleOf(volume) = volume
    <3>1. volume \in Handles \cup {0}
      BY <2>2 DEF DialogInv, DrivesInv
    <3> QED BY <1>3, <2>2, <3>1, HandlesStandForThemselves
  <2> HIDE DEF volume
  <2>4. /\ search'.old = search.old /\ search'.raised = Remembered(priority, volume)
        /\ DOMAIN search' = SearchFields
        /\ search'.indices = search.indices /\ search'.handles = search.handles
        /\ search'.left = search.left /\ search'.selected = search.selected
    BY <2>1 DEF DialogInv, ListInv, SearchFields
  <2> DEFINE p == SetPriority(priority, volume, "normal")
  <2>5. DOMAIN p = Handles /\ \A g \in Handles : p[g] = "normal" \/ p[g] = priority[g]
    BY <2>3, SetPriorityEffect DEF DialogInv, DrivesInv
  <2>6. /\ DOMAIN priority' = Handles
        /\ \A g \in Handles :
             priority'[g] = IF g = search.raised.volume /\ IsOpen(g) THEN search.raised.hint ELSE p[g]
    <3> HIDE DEF p
    <3>1. search.raised.volume \in Handles \cup {0}
      BY DEF DialogInv, PriorityInv
    <3>2. priority' = GivenBack(p, search.raised)
      BY <2>1 DEF p
    <3> QED BY <2>5, <3>1, <3>2, GivenBackEffect
  <2> HIDE DEF p
  <2>7. ASSUME NEW h \in Handles
        PROVE  \/ priority'[h] = "normal"
               \/ priority'[h] = "low" /\ Kept(h) /\ \E d \in Drives : index[d].handle = h
    <3>1. CASE h = search.raised.volume /\ IsOpen(h)
      <4>1. h # 0 /\ \E d \in Drives : index[d].handle = h
        BY <3>1, HandlesStandForThemselves
      <4> QED BY <2>6, <3>1, <4>1 DEF DialogInv, PriorityInv
    <3>2. CASE ~(h = search.raised.volume /\ IsOpen(h))
      BY <2>5, <2>6, <3>2 DEF DialogInv, PriorityInv
    <3> QED BY <3>1, <3>2
  <2>8. /\ search'.raised.volume = volume
        /\ \/ search'.raised.hint = "normal"
           \/ search'.raised.hint = "low" /\ Kept(volume)
    <3>1. search'.raised.volume = volume /\ search'.raised.hint = priority[volume]
      BY <2>3, <2>4, HandlesAssumption DEF Remembered
    <3> QED BY <2>3, <3>1 DEF DialogInv, PriorityInv
  <2>9. \A h : Kept(h)' <=> Kept(h)
    BY <2>4 DEF Kept
  <2>10. PriorityInv'
    BY <1>1, <2>3, <2>4, <2>7, <2>8, <2>9 DEF DialogInv, PriorityInv
  <2>11. ListInv'
    BY <1>1, <2>4 DEF DialogInv, ListInv
  <2>12. DrivesInv'
    BY <1>1, <2>6 DEF DialogInv, DrivesInv
  <2> QED BY <2>10, <2>11, <2>12 DEF DialogInv
<1> QED BY <1>2, <1>3

\* A step of the search of an index changes none of the priorities.
LEMMA PrioritiesAside ==
  ASSUME DialogInv, index' = index, priority' = priority,
         search'.old = search.old, search'.raised = search.raised,
         pc \in SearchPcs, pc' \in SearchPcs
  PROVE  DrivesInv' /\ PriorityInv'
BY DEF DialogInv, DrivesInv, PriorityInv, NothingKept, Kept, SearchPcs

LEMMA WakeKeepsDialog == ASSUME DialogInv, Wake PROVE DialogInv'
<1>1. PICK k \in DOMAIN search.handles :
        Finished(search.handles[k]) /\ search' = [search EXCEPT !.signaled = k, !.current = 0]
  BY DEF Wake
<1>2. pc = "wait" /\ pc' = "search" /\ index' = index /\ priority' = priority
  BY DEF Wake, indexVars
<1>3. /\ search'.old = search.old /\ search'.raised = search.raised
      /\ DOMAIN search' = SearchFields /\ search'.signaled = k /\ search'.current = 0
      /\ search'.indices = search.indices /\ search'.handles = search.handles
      /\ search'.left = search.left /\ search'.selected = search.selected
  BY <1>1 DEF DialogInv, ListInv, SearchFields
<1>4. DrivesInv' /\ PriorityInv'
  BY <1>2, <1>3, PrioritiesAside DEF SearchPcs
<1>5. search.handles = search.indices /\ search.indices \in Seq(Drives)
  BY DEF DialogInv, ListInv
<1>6. /\ k \in 1 .. Len(search'.indices) /\ Current' = search.indices[k]
      /\ search.indices[k] \in Drives
  BY <1>1, <1>3, <1>5 DEF Current
<1>7. Finished(Current)' /\ 0 \in 0 .. index[search.indices[k]].names
  BY <1>1, <1>2, <1>5, <1>6 DEF Finished, DialogInv, DrivesInv
<1>8. ListInv'
  BY <1>2, <1>3, <1>6, <1>7 DEF DialogInv, ListInv
<1> QED BY <1>4, <1>8 DEF DialogInv

LEMMA VisitKeepsDialog ==
  ASSUME DialogInv, NEW looks \in BOOLEAN, Visit(looks)
  PROVE  DialogInv'
<1>1. /\ pc = "search" /\ pc' = pc /\ index' = index /\ priority' = priority
      /\ search.current < index[Current].names
      /\ search' = [search EXCEPT !.current = @ + 1]
  BY DEF Visit, indexVars
<1>2. /\ search'.old = search.old /\ search'.raised = search.raised
      /\ DOMAIN search' = SearchFields /\ search'.signaled = search.signaled
      /\ search'.current = search.current + 1
      /\ search'.indices = search.indices /\ search'.handles = search.handles
      /\ search'.left = search.left /\ search'.selected = search.selected
  BY <1>1 DEF DialogInv, ListInv, SearchFields
<1>3. DrivesInv' /\ PriorityInv'
  BY <1>1, <1>2, PrioritiesAside DEF SearchPcs
<1>4. Current' = Current /\ Current \in Drives
  BY <1>1, <1>2 DEF DialogInv, ListInv, Current
<1>5. search'.current \in 0 .. index[Current].names
  <2>1. search.current \in 0 .. index[Current].names /\ index[Current].names \in Nat
    BY <1>1, <1>4 DEF DialogInv, ListInv, DrivesInv
  <2> QED BY <1>1, <1>2, <2>1
<1>6. ListInv'
  BY <1>1, <1>2, <1>4, <1>5 DEF DialogInv, ListInv, Finished
<1> QED BY <1>3, <1>6 DEF DialogInv

LEMMA SearchedKeepsDialog ==
  ASSUME DialogInv, NEW looks \in BOOLEAN, Searched(looks)
  PROVE  /\ DialogInv'
         /\ search'.indices = RemoveAt(search.indices, search.signaled)
         /\ search'.selected = search.selected
         /\ Range(search'.indices) = Range(search.indices) \ {Current}
<1>1. /\ pc = "search" /\ pc' = "loop" /\ index' = index /\ priority' = priority
  BY DEF Searched, indexVars
<1>2. /\ search'.old = search.old /\ search'.raised = search.raised
      /\ DOMAIN search' = SearchFields
      /\ search'.indices = RemoveAt(search.indices, search.signaled)
      /\ search'.handles = RemoveAt(search.handles, search.signaled)
      /\ search'.left = search.left /\ search'.selected = search.selected
  BY DEF DialogInv, ListInv, SearchFields, Searched
<1>3. DrivesInv' /\ PriorityInv'
  BY <1>1, <1>2, PrioritiesAside DEF SearchPcs
<1>4. /\ search.indices \in Seq(Drives) /\ IsInjective(search.indices)
      /\ search.signaled \in 1 .. Len(search.indices) /\ search.handles = search.indices
  BY <1>1 DEF DialogInv, ListInv
<1>5. /\ search'.indices \in Seq(Drives) /\ IsInjective(search'.indices)
      /\ Range(search'.indices) = Range(search.indices) \ {Current}
  BY <1>2, <1>4, ErasedOnce DEF Current
<1>6. ListInv'
  BY <1>1, <1>2, <1>4, <1>5 DEF DialogInv, ListInv
<1> QED BY <1>2, <1>3, <1>5, <1>6 DEF DialogInv

LEMMA EndKeepsDialog == ASSUME DialogInv, End PROVE DialogInv'
<1>1. /\ pc = "end" /\ pc' = "idle" /\ index' = index /\ priority' = Restored /\ search' = NoSearch
  BY DEF End
<1> DEFINE lowered == GivenBack(priority, search.raised)
<1>2. /\ search.raised.volume \in Handles \cup {0} /\ DOMAIN priority = Handles
      /\ \A d \in Drives : search.old[d].volume # 0 => search.old[d].hint = "normal"
  BY DEF DialogInv, PriorityInv, DrivesInv
<1>3. /\ DOMAIN lowered = Handles
      /\ \A g \in Handles :
           lowered[g] = IF g = search.raised.volume /\ IsOpen(g) THEN search.raised.hint
                        ELSE priority[g]
  BY <1>2, GivenBackEffect
<1> HIDE DEF lowered
<1>4. priority' = [h \in Handles |->
            IF IsOpen(h) /\ \E d \in Drives : search.old[d].volume = h
            THEN search.old[CHOOSE d \in Drives : search.old[d].volume = h].hint
            ELSE lowered[h]]
  BY <1>1 DEF Restored, lowered
<1>5. ASSUME NEW h \in Handles PROVE priority'[h] = "normal"
  <2>1. h # 0
    BY HandlesAssumption
  <2>2. CASE IsOpen(h) /\ Kept(h)
    <3> DEFINE d == CHOOSE e \in Drives : search.old[e].volume = h
    <3>1. d \in Drives /\ search.old[d].volume = h
      BY <2>2 DEF Kept
    <3>2. priority'[h] = search.old[d].hint
      BY <1>4, <2>2 DEF Kept
    <3> HIDE DEF d
    <3> QED BY <1>2, <2>1, <3>1, <3>2
  <2>3. CASE ~(IsOpen(h) /\ Kept(h))
    <3>1. priority'[h] = lowered[h]
      BY <1>4, <2>3 DEF Kept
    <3>2. IsOpen(h) <=> \E d \in Drives : index[d].handle = h
      BY <2>1, HandlesStandForThemselves
    <3>3. priority[h] = "normal"
      BY <2>3, <3>2 DEF DialogInv, PriorityInv
    <3>4. h = search.raised.volume /\ IsOpen(h) => search.raised.hint = "normal"
      BY <2>1, <2>3 DEF DialogInv, PriorityInv
    <3> QED BY <1>3, <3>1, <3>3, <3>4
  <2> QED BY <2>2, <2>3
<1>6. DOMAIN priority' = Handles
  BY <1>4
<1>7. DrivesInv'
  BY <1>1, <1>6 DEF DialogInv, DrivesInv
<1>8. PriorityInv'
  BY <1>1, <1>5, NoSearchIs DEF PriorityInv, NothingKept
<1>9. ListInv'
  BY <1>1, NoSearchIs DEF ListInv, IsInjective
<1> QED BY <1>7, <1>8, <1>9 DEF DialogInv

LEMMA RefreshKeepsDialog ==
  ASSUME DialogInv, NEW selected, Refresh(selected)
  PROVE  DialogInv'
<1>1. /\ pc = "idle" /\ pc' = pc /\ search' = search /\ priority' = priority
      /\ index' = [d \in Drives |-> IF d \in selected THEN NewIndex ELSE index[d]]
  BY DEF Refresh, searchVars
<1>2. DrivesInv'
  BY <1>1, NewIndexIs DEF DialogInv, DrivesInv
<1>3. \A h \in Handles : priority[h] = "normal"
  BY <1>1, HandlesAssumption DEF DialogInv, PriorityInv, NothingKept, Kept
<1>4. PriorityInv'
  BY <1>1, <1>3 DEF DialogInv, PriorityInv, NothingKept
<1>5. ListInv'
  BY <1>1 DEF DialogInv, ListInv
<1> QED BY <1>2, <1>4, <1>5 DEF DialogInv

LEMMA DialogInvNext == DialogInv /\ [Next]_vars => DialogInv'
<1> SUFFICES ASSUME DialogInv, [Next]_vars PROVE DialogInv'
  OBVIOUS
<1>1. ASSUME NEW selected \in SUBSET Drives, NEW byLevel \in BOOLEAN, Search(selected, byLevel)
      PROVE  DialogInv'
  BY <1>1, BeginKeepsDialog DEF Search
<1>2. ASSUME NEW selected, Refresh(selected) PROVE DialogInv'
  BY <1>2, RefreshKeepsDialog
<1>3. ASSUME NEW column, NEW variation, Click(column, variation) PROVE DialogInv'
  <2>1. /\ index' = index /\ priority' = priority /\ search' = search
        /\ pc = "idle" /\ pc' \in {"idle", "sorting"}
    BY <1>3 DEF Click, ClickTurns, ClickSorts, ClickPlaces, ClickNothing, ClickStopped,
                indexVars, searchVars
  <2> QED BY <2>1, QuietStep DEF SearchPcs
<1>4. ASSUME NEW mode, NEW selection, BeginExport(mode, selection) PROVE DialogInv'
  BY <1>4, QuietStep DEF BeginExport, indexVars, SearchPcs
<1>5. CASE PlaceStopped \/ Place \/ PlaceEnds
  <2>1. /\ index' = index /\ priority' = priority /\ search' = search
        /\ pc = "sorting" /\ pc' \in {"idle", "sorting"}
    BY <1>5 DEF PlaceStopped, Place, PlaceEnds, indexVars, searchVars
  <2> QED BY <2>1, QuietStep DEF SearchPcs
<1>6. CASE Stop
  BY <1>6, QuietStep DEF Stop, indexVars
<1>7. ASSUME NEW looks, NEW large, NEW stored, ExportRow(looks, large, stored) PROVE DialogInv'
  BY <1>7, QuietStep DEF ExportRow, indexVars, searchVars
<1>8. ASSUME NEW looks, ExportStops(looks) PROVE DialogInv'
  BY <1>8, QuietStep DEF ExportStops, indexVars, SearchPcs
<1>9. CASE ExportEnds \/ ExportClosed
  <2>1. /\ index' = index /\ priority' = priority /\ search' = search
        /\ pc \in {"exporting", "exported"} /\ pc' \in {"exported", "idle"}
    BY <1>9 DEF ExportEnds, ExportClosed, indexVars
  <2> QED BY <2>1, QuietStep DEF SearchPcs
<1>10. CASE SearchStep
  <2>1. CASE Collect
    BY <2>1, CollectKeepsDialog
  <2>2. CASE Lower
    BY <2>2, LowerKeepsDialog
  <2>3. CASE Raise
    BY <2>3, RaiseKeepsDialog
  <2>4. CASE TimeOut
    <3>1. /\ index' = index /\ priority' = priority /\ search' = search
          /\ pc = "wait" /\ pc' \in {"loop", "end"}
      BY <2>4 DEF TimeOut, indexVars
    <3> QED BY <3>1, QuietStep DEF SearchPcs
  <2>5. CASE Wake
    BY <2>5, WakeKeepsDialog
  <2>6. CASE NoneLeft
    BY <2>6, QuietStep DEF NoneLeft, indexVars, SearchPcs
  <2>7. CASE End
    BY <2>7, EndKeepsDialog
  <2>8. ASSUME NEW looks \in BOOLEAN, Visit(looks) PROVE DialogInv'
    BY <2>8, VisitKeepsDialog
  <2>9. ASSUME NEW looks \in BOOLEAN, Searched(looks) PROVE DialogInv'
    BY <2>9, SearchedKeepsDialog
  <2> QED BY <1>10, <2>1, <2>2, <2>3, <2>4, <2>5, <2>6, <2>7, <2>8, <2>9 DEF SearchStep
<1>11. ASSUME NEW d \in Drives, Drive(d) PROVE DialogInv'
  BY <1>11, DriveKeepsDialog DEF Drive, searchVars
<1>12. CASE UNCHANGED vars
  BY <1>12, QuietStep DEF vars, indexVars, searchVars
<1> QED BY <1>1, <1>2, <1>3, <1>4, <1>5, <1>6, <1>7, <1>8, <1>9, <1>10, <1>11, <1>12
        DEF Next, User, Thread

THEOREM DialogInvariant == Spec => []DialogInv
BY DialogInvInit, DialogInvNext, PTL DEF Spec

\* MainDialog!PrioritiesRestored: when no search is under way every open volume
\* is at normal priority, though volumes were closed and opened meanwhile and
\* their numbers given to others.
THEOREM PrioritiesComeBack == Spec => []PrioritiesRestored
<1>1. DialogInv => PrioritiesRestored
  <2> SUFFICES ASSUME DialogInv, pc = "idle", NEW d \in Drives, index[d].handle # 0
               PROVE  priority[index[d].handle] = "normal"
    BY DEF PrioritiesRestored
  <2>1. index[d].handle \in Handles
    BY DEF DialogInv, DrivesInv
  <2> QED BY <2>1, HandlesAssumption DEF DialogInv, PriorityInv, NothingKept, Kept
<1> QED BY <1>1, DialogInvariant, PTL

-----------------------------------------------------------------------------
(***************************************************************************)
(* What has been found.                                                    *)
(***************************************************************************)
ResultOf(d, v) == [drive |-> d, visit |-> v, depth |-> Tree[d][v].depth]
AllResults == UNION {{ResultOf(d, v) : v \in 1 .. Len(Tree[d])} : d \in Drives}

\* The visits of a drive that the search has made: all, some, none yet.
Seen(d) ==
    IF pc = "search" /\ d = Current THEN search.current
    ELSE IF d \in Range(search.indices) THEN 0
    ELSE index[d].names

\* r is the result of a visit made.
IsFound(r) ==
    /\ r.drive \in search.selected
    /\ r.visit \in 1 .. Seen(r.drive)
    /\ Tree[r.drive][r.visit].match

\* A search that goes on has a result for every match it has come to; the drives
\* it no longer waits for have finished.
FoundInv ==
    /\ pc = "collect" => results = <<>>
    /\ pc \in SearchPcs => \A d \in search.selected : d \in Range(search.indices) \/ Finished(d)
    /\ pc \in SearchPcs /\ ~canceled =>
          /\ results \in Seq(AllResults) /\ IsInjective(results)
          /\ \A r \in AllResults : r \in Range(results) <=> IsFound(r)
    /\ pc = "end" /\ ~canceled => search.indices = <<>>

LEMMA ResultIs ==
  ASSUME NEW d \in Drives, NEW v \in 1 .. Len(Tree[d])
  PROVE  /\ ResultOf(d, v) \in AllResults /\ ResultOf(d, v).drive = d /\ ResultOf(d, v).visit = v
         /\ \A r \in AllResults : r.drive = d /\ r.visit = v => r = ResultOf(d, v)
BY DEF AllResults, ResultOf

LEMMA ResultsAre == \A r \in AllResults : r.drive \in Drives /\ r.visit \in Nat
BY DEF AllResults, ResultOf

\* Steps that leave the results, the drives to wait for and the visits alone.
LEMMA QuietFind ==
  ASSUME DialogInv, FoundInv, results' = results, canceled => canceled',
         search'.selected = search.selected, search'.indices = search.indices,
         \A d \in Drives : Finished(d) => Finished(d)' /\ index'[d].names = index[d].names,
         \/ pc' = pc /\ search'.signaled = search.signaled /\ search'.current = search.current
         \/ /\ pc \in SearchPcs \ {"search"} /\ pc' \in SearchPcs \ {"search"}
            /\ pc' = "end" => canceled \/ search.indices = <<>>
         \/ pc' \notin SearchPcs \cup {"collect"}
  PROVE  FoundInv'
<1>1. CASE pc' \notin SearchPcs \cup {"collect"}
  BY <1>1 DEF FoundInv, SearchPcs
<1>2. CASE pc' = "collect"
  BY <1>2 DEF FoundInv, SearchPcs
<1>3. CASE pc' \in SearchPcs
  <2>1. pc \in SearchPcs /\ (pc' = "search" <=> pc = "search")
        /\ (pc = "search" => Current' = Current /\ search'.current = search.current)
    BY <1>3 DEF SearchPcs, Current
  <2>2. /\ search.selected \subseteq Drives
        /\ \A d \in search.selected : d \in Range(search.indices) \/ Finished(d)
    BY <2>1 DEF DialogInv, ListInv, FoundInv
  <2>3. ASSUME NEW d \in search.selected PROVE Seen(d)' = Seen(d)
    BY <2>1, <2>2 DEF Seen
  <2>4. \A r : IsFound(r)' <=> IsFound(r)
    BY <2>3 DEF IsFound
  <2>5. ~canceled' => ~canceled
    OBVIOUS
  <2>6. pc' = "end" /\ ~canceled' => search.indices = <<>>
    BY <2>5, <1>3, <2>1 DEF FoundInv, SearchPcs
  <2> QED BY <1>3, <2>1, <2>2, <2>4, <2>5, <2>6 DEF FoundInv, SearchPcs
<1> QED BY <1>1, <1>2, <1>3

LEMMA LowerKeepsFound == ASSUME DialogInv, FoundInv, Lower PROVE FoundInv'
<1>1. /\ pc = "collect" /\ pc' = "loop" /\ search.left = {} /\ results' = results
  BY DEF Lower
<1>2. search'.indices = search.indices /\ search'.selected = search.selected
  BY DEF Lower, DialogInv, ListInv, SearchFields
<1>3. Range(search.indices) = search.selected \ search.left
  BY <1>1 DEF DialogInv, ListInv
<1>4. \A d \in search'.selected : d \in Range(search'.indices) /\ Seen(d)' = 0
  BY <1>1, <1>2, <1>3 DEF Seen
<1>5. results' = <<>> /\ <<>> \in Seq(AllResults) /\ IsInjective(<<>>) /\ Range(<<>>) = {}
  BY <1>1 DEF FoundInv, Range, IsInjective
<1>6. \A r \in AllResults : ~IsFound(r)'
  BY <1>4 DEF IsFound
<1> QED BY <1>1, <1>4, <1>5, <1>6 DEF FoundInv

LEMMA WakeKeepsFound == ASSUME DialogInv, FoundInv, Wake PROVE FoundInv'
<1>1. PICK k \in DOMAIN search.handles :
        Finished(search.handles[k]) /\ search' = [search EXCEPT !.signaled = k, !.current = 0]
  BY DEF Wake
<1>2. /\ pc = "wait" /\ pc' = "search" /\ index' = index /\ results' = results
      /\ canceled' = canceled
  BY DEF Wake, indexVars
<1>3. /\ search'.signaled = k /\ search'.current = 0
      /\ search'.indices = search.indices /\ search'.selected = search.selected
  BY <1>1 DEF DialogInv, ListInv, SearchFields
<1>4. k \in DOMAIN search.indices
  BY DEF DialogInv, ListInv
<1>5. Current' = search.indices[k] /\ Current' \in Range(search.indices)
  BY <1>3, <1>4 DEF Current, Range
<1>6. \A d : Seen(d)' = Seen(d)
  BY <1>2, <1>3, <1>5 DEF Seen
<1>7. \A r : IsFound(r)' <=> IsFound(r)
  BY <1>3, <1>6 DEF IsFound
<1>8. \A d : Finished(d)' <=> Finished(d)
  BY <1>2 DEF Finished
<1> QED BY <1>2, <1>3, <1>7, <1>8 DEF FoundInv, SearchPcs

LEMMA VisitKeepsFound ==
  ASSUME DialogInv, FoundInv, NEW looks \in BOOLEAN, Visit(looks)
  PROVE  FoundInv'
<1> DEFINE v == search.current + 1
           visit == Tree[Current][v]
           row == [drive |-> Current, visit |-> v, depth |-> visit.depth]
<1>1. /\ pc = "search" /\ pc' = pc /\ index' = index /\ canceled' = canceled
      /\ search' = [search EXCEPT !.current = @ + 1]
      /\ results' = IF visit.match THEN Append(results, row) ELSE results
  BY DEF Visit, indexVars
<1>2. /\ search'.signaled = search.signaled /\ search'.current = v
      /\ search'.indices = search.indices /\ search'.selected = search.selected
  BY <1>1 DEF DialogInv, ListInv, SearchFields
<1>3. /\ Current' = Current /\ Current \in Drives /\ search.current \in Nat
      /\ Current \in Range(search.indices) /\ Current \in search.selected
      /\ v \in 1 .. Len(Tree[Current])
  <2>1. /\ search.signaled \in DOMAIN search.indices /\ search.indices \in Seq(Drives)
        /\ search.current \in 0 .. index[Current].names
        /\ Range(search.indices) \subseteq search.selected
    BY <1>1 DEF DialogInv, ListInv
  <2>2. Current' = Current /\ Current \in Drives /\ Current \in Range(search.indices)
    BY <1>2, <2>1 DEF Current, Range
  <2>3. index[Current].names \in 0 .. Len(Tree[Current]) /\ Len(Tree[Current]) \in Nat
    BY <2>2, DrivesAssumption DEF DialogInv, DrivesInv
  <2>4. search.current < index[Current].names
    BY DEF Visit
  <2> QED BY <2>1, <2>2, <2>3, <2>4
<1>4. row = ResultOf(Current, v)
  BY <1>3 DEF ResultOf
<1> HIDE DEF row
<1>5. /\ Seen(Current) = search.current /\ Seen(Current)' = v
      /\ \A d : d # Current => Seen(d)' = Seen(d)
  BY <1>1, <1>2, <1>3 DEF Seen
<1>6. ASSUME NEW r \in AllResults
      PROVE  IsFound(r)' <=> IsFound(r) \/ (r = row /\ visit.match)
  <2>1. r.drive \in Drives /\ r.visit \in Nat
    BY ResultsAre
  <2>2. CASE r.drive # Current
    <3>1. r # row
      BY <1>3, <1>4, <2>2, ResultIs
    <3> QED BY <1>2, <1>5, <2>2, <3>1 DEF IsFound
  <2>3. CASE r.drive = Current
    <3>1. r = row <=> r.visit = v
      BY <1>3, <1>4, <2>3, ResultIs
    <3>2. r.visit \in 1 .. v <=> r.visit \in 1 .. search.current \/ r.visit = v
      BY <1>3, <2>1
    <3>3. r.visit = v => Tree[r.drive][r.visit] = visit
      BY <2>3
    <3> HIDE DEF v, visit
    <3>4. Seen(r.drive) = search.current /\ Seen(r.drive)' = v
      BY <1>3, <1>5, <2>3
    <3>5. r.drive \in search.selected /\ r.drive \in search'.selected
      BY <1>2, <1>3, <2>3
    <3>6. IsFound(r)' <=> r.visit \in 1 .. v /\ Tree[r.drive][r.visit].match
      BY <3>4, <3>5 DEF IsFound
    <3>7. IsFound(r) <=> r.visit \in 1 .. search.current /\ Tree[r.drive][r.visit].match
      BY <3>4, <3>5 DEF IsFound
    <3>8. CASE r.visit = v
      <4>1. r.visit \notin 1 .. search.current /\ r.visit \in 1 .. v
        BY <1>3, <2>1, <3>8 DEF v
      <4> QED BY <3>1, <3>3, <3>6, <3>7, <3>8, <4>1
    <3>9. CASE r.visit # v
      BY <3>1, <3>2, <3>6, <3>7, <3>9
    <3> QED BY <3>8, <3>9
  <2> QED BY <2>2, <2>3
<1>7. row \in AllResults /\ ~IsFound(row)
  <2>1. row \in AllResults /\ row.drive = Current /\ row.visit = v
    BY <1>3, <1>4, ResultIs
  <2>2. v \notin 1 .. search.current
    BY <1>3
  <2> HIDE DEF v
  <2> QED BY <1>5, <2>1, <2>2 DEF IsFound
<1>8. \A d : Finished(d)' <=> Finished(d)
  BY <1>1 DEF Finished
<1>9. ASSUME ~canceled
      PROVE  /\ results' \in Seq(AllResults) /\ IsInjective(results')
             /\ \A r \in AllResults : r \in Range(results') <=> IsFound(r)'
  <2>1. /\ results \in Seq(AllResults) /\ IsInjective(results)
        /\ \A r \in AllResults : r \in Range(results) <=> IsFound(r)
    BY <1>1, <1>9 DEF FoundInv, SearchPcs
  <2>2. CASE visit.match
    <3>1. results' = Append(results, row) /\ row \notin Range(results)
      BY <1>1, <1>7, <2>1, <2>2
    <3> HIDE DEF visit
    <3>2. /\ results' \in Seq(AllResults) /\ IsInjective(results')
          /\ Range(results') = Range(results) \cup {row}
      BY <1>7, <2>1, <3>1, AppendedOnce
    <3> QED BY <1>6, <2>1, <2>2, <3>2
  <2>3. CASE ~visit.match
    <3>1. results' = results
      BY <1>1, <2>3
    <3> HIDE DEF visit
    <3> QED BY <1>6, <2>1, <2>3, <3>1
  <2> QED BY <2>2, <2>3
<1> HIDE DEF visit
<1> QED BY <1>1, <1>2, <1>8, <1>9 DEF FoundInv, SearchPcs

LEMMA SearchedKeepsFound ==
  ASSUME DialogInv, FoundInv, NEW looks \in BOOLEAN, Searched(looks)
  PROVE  FoundInv'
<1>1. /\ pc = "search" /\ pc' = "loop" /\ index' = index /\ results' = results
      /\ canceled' = canceled
      /\ canceled \/ search.current = index[Current].names
  BY DEF Searched, indexVars
<1>2. search'.selected = search.selected /\ Range(search'.indices) = Range(search.indices) \ {Current}
  BY SearchedKeepsDialog
<1>3. Finished(Current)
  BY <1>1 DEF DialogInv, ListInv
<1>4. \A d : Finished(d)' <=> Finished(d)
  BY <1>1 DEF Finished
<1>5. ASSUME ~canceled PROVE \A d : Seen(d)' = Seen(d)
  BY <1>1, <1>2, <1>5 DEF Seen
<1>6. ~canceled => \A r : IsFound(r)' <=> IsFound(r)
  BY <1>2, <1>5 DEF IsFound
<1>7. \A d \in search'.selected : d \in Range(search'.indices) \/ Finished(d)'
  <2>1. \A d \in search.selected : d \in Range(search.indices) \/ Finished(d)
    BY <1>1 DEF FoundInv, SearchPcs
  <2> QED BY <1>2, <1>3, <1>4, <2>1
<1>8. ~canceled => /\ results \in Seq(AllResults) /\ IsInjective(results)
                   /\ \A r \in AllResults : r \in Range(results) <=> IsFound(r)
  BY <1>1 DEF FoundInv, SearchPcs
<1> QED BY <1>1, <1>6, <1>7, <1>8 DEF FoundInv, SearchPcs

LEMMA FoundInvNext == DialogInv /\ FoundInv /\ [Next]_vars => FoundInv'
<1> SUFFICES ASSUME DialogInv, FoundInv, [Next]_vars PROVE FoundInv'
  OBVIOUS
<1>1. ASSUME NEW selected, NEW byLevel, Search(selected, byLevel) PROVE FoundInv'
  BY <1>1 DEF Search, Begin, FoundInv, SearchPcs
\* The user and the sort do what they do when nothing is being searched.
<1>2. ASSUME pc' \notin SearchPcs \cup {"collect"} PROVE FoundInv'
  BY <1>2 DEF FoundInv, SearchPcs
<1>3. ASSUME NEW selected, Refresh(selected) PROVE FoundInv'
  BY <1>2, <1>3 DEF Refresh, searchVars, SearchPcs
<1>4. ASSUME NEW column, NEW variation, Click(column, variation) PROVE FoundInv'
  <2>1. pc' \in {"idle", "sorting"}
    BY <1>4 DEF Click, ClickTurns, ClickSorts, ClickPlaces, ClickNothing, ClickStopped, searchVars
  <2> QED BY <1>2, <2>1 DEF SearchPcs
<1>5. ASSUME NEW mode, NEW selection, BeginExport(mode, selection) PROVE FoundInv'
  BY <1>2, <1>5 DEF BeginExport, SearchPcs
<1>6. CASE PlaceStopped \/ Place \/ PlaceEnds
  <2>1. pc' \in {"idle", "sorting"}
    BY <1>6 DEF PlaceStopped, Place, PlaceEnds, searchVars
  <2> QED BY <1>2, <2>1 DEF SearchPcs
<1>7. CASE Stop
  BY <1>7, QuietFind DEF Stop, indexVars, Finished
<1>8. ASSUME NEW looks, NEW large, NEW stored, ExportRow(looks, large, stored) PROVE FoundInv'
  BY <1>2, <1>8 DEF ExportRow, searchVars, SearchPcs
<1>9. ASSUME NEW looks, ExportStops(looks) PROVE FoundInv'
  BY <1>2, <1>9 DEF ExportStops, SearchPcs
<1>10. CASE ExportEnds \/ ExportClosed
  BY <1>2, <1>10 DEF ExportEnds, ExportClosed, SearchPcs
<1>11. CASE SearchStep
  <2>1. CASE Collect
    BY <2>1 DEF Collect, FoundInv, SearchPcs
  <2>2. CASE Lower
    BY <2>2, LowerKeepsFound
  <2>3. CASE Raise
    <3>1. /\ pc = "loop" /\ pc' = "wait" /\ index' = index
          /\ results' = results /\ canceled' = canceled
      BY <2>3 DEF Raise
    <3>2. search'.selected = search.selected /\ search'.indices = search.indices
      BY <2>3 DEF Raise, DialogInv, ListInv, SearchFields
    <3> QED BY <3>1, <3>2, QuietFind DEF Finished, SearchPcs
  <2>4. CASE TimeOut
    <3>1. /\ pc = "wait" /\ index' = index /\ results' = results /\ canceled' = canceled
          /\ search' = search
          /\ pc' = "loop" \/ (pc' = "end" /\ canceled)
      BY <2>4 DEF TimeOut, indexVars
    <3> QED BY <3>1, QuietFind DEF Finished, SearchPcs
  <2>5. CASE Wake
    BY <2>5, WakeKeepsFound
  <2>6. CASE NoneLeft
    BY <2>6, QuietFind DEF NoneLeft, indexVars, Finished, SearchPcs
  <2>7. CASE End
    BY <1>2, <2>7 DEF End, SearchPcs
  <2>8. ASSUME NEW looks \in BOOLEAN, Visit(looks) PROVE FoundInv'
    BY <2>8, VisitKeepsFound
  <2>9. ASSUME NEW looks \in BOOLEAN, Searched(looks) PROVE FoundInv'
    BY <2>9, SearchedKeepsFound
  <2> QED BY <1>11, <2>1, <2>2, <2>3, <2>4, <2>5, <2>6, <2>7, <2>8, <2>9 DEF SearchStep
<1>12. ASSUME NEW d \in Drives, Drive(d) PROVE FoundInv'
  <2>1. /\ DriveStep(d) /\ search' = search /\ pc' = pc
        /\ canceled' = canceled /\ results' = results
    BY <1>12 DEF Drive, searchVars
  <2>2. \A e \in Drives : Finished(e) => Finished(e)' /\ index'[e].names = index[e].names
    BY <2>1, DriveStepEffect DEF DialogInv
  <2> QED BY <2>1, <2>2, QuietFind
<1>13. CASE UNCHANGED vars
  BY <1>13, QuietFind DEF vars, indexVars, searchVars, Finished
<1> QED BY <1>1, <1>3, <1>4, <1>5, <1>6, <1>7, <1>8, <1>9, <1>10, <1>11, <1>12, <1>13
        DEF Next, User, Thread

\* MainDialog!FoundOnce: a search that was not stopped ends with one result for
\* each match of each selected drive, in whatever order the drives finished.
THEOREM EveryMatchOnce == Spec => []FoundOnce
<1>1. Init => FoundInv
  BY DEF Init, SearchInit, FoundInv, SearchPcs
<1>2. DialogInv /\ FoundInv => FoundOnce
  <2> SUFFICES ASSUME DialogInv, FoundInv, pc = "end", ~canceled
               PROVE  /\ IsInjective(results)
                      /\ {<<r.drive, r.visit>> : r \in Range(results)}
                           = UNION {{<<d, v>> : v \in {w \in 1 .. index[d].names : Tree[d][w].match}} :
                                      d \in Selected}
    BY DEF FoundOnce
  <2>1. /\ results \in Seq(AllResults) /\ IsInjective(results) /\ search.indices = <<>>
        /\ \A r \in AllResults : r \in Range(results) <=> IsFound(r)
    BY DEF FoundInv, SearchPcs
  <2>2. Range(results) \subseteq AllResults
    BY <2>1 DEF Range
  <2>3. \A d : Seen(d) = index[d].names
    BY <2>1 DEF Seen, Range
  <2>4. ASSUME NEW r \in Range(results)
        PROVE  /\ r.drive \in Selected
               /\ r.visit \in {w \in 1 .. index[r.drive].names : Tree[r.drive][w].match}
    BY <2>1, <2>2, <2>3 DEF IsFound, Selected
  <2>5. ASSUME NEW d \in Selected, NEW v \in {w \in 1 .. index[d].names : Tree[d][w].match}
        PROVE  \E r \in Range(results) : r.drive = d /\ r.visit = v
    <3>1. d \in Drives /\ v \in 1 .. Len(Tree[d])
      <4>1. d \in Drives /\ v \in 1 .. index[d].names
        BY DEF Selected, DialogInv, ListInv
      <4>2. index[d].names \in 0 .. Len(Tree[d]) /\ Len(Tree[d]) \in Nat
        BY <4>1, DrivesAssumption DEF DialogInv, DrivesInv
      <4> QED BY <4>1, <4>2
    <3>2. ResultOf(d, v) \in AllResults /\ ResultOf(d, v).drive = d /\ ResultOf(d, v).visit = v
      BY <3>1, ResultIs
    <3>3. IsFound(ResultOf(d, v))
      BY <2>3, <3>2 DEF IsFound, Selected
    <3> QED BY <2>1, <3>2, <3>3
  <2> QED BY <2>1, <2>4, <2>5
<1>3. DialogInv /\ FoundInv /\ [Next]_vars => FoundInv'
  BY FoundInvNext
<1> QED BY <1>1, <1>2, <1>3, DialogInvariant, PTL DEF Spec

-----------------------------------------------------------------------------
(***************************************************************************)
(* Progress.  What has been reached at any moment is the numerator of the  *)
(* drives searched, the records of those that are waited for, and a share  *)
(* of the capacity of the one being searched.                              *)
(***************************************************************************)
\* Records are read once the capacity is known, and no more than that.
MeteredInv ==
    \A d \in Drives :
       /\ index[d].capacity \in {0, Capacity[d]} /\ index[d].records \in 0 .. index[d].capacity
       /\ index[d].phase = "reading" => index[d].capacity = Capacity[d]

ShareSoFar == IF pc = "search" /\ index[Current].names # 0 THEN Share ELSE 0
Level == search.numerator + RecordsWaiting + ShareSoFar

\* A drive is worth its capacity twice, once read and once searched.
TwoWays(S) == 2 * SumFunctionOnSet(Capacity, S)

ProgressInv ==
    /\ progress \in Nat /\ search.numerator \in Nat
    /\ pc \notin SearchPcs => progress = 0 /\ search.numerator = 0
    /\ pc \in SearchPcs =>
         /\ search.numerator + TwoWays(Range(search.indices)) =< TwoWays(search.selected)
         /\ search.pending => progress =< Level

MeterInv == MeteredInv /\ ProgressInv

\* A step of a drive takes back no record.
LEMMA MetersRise ==
  ASSUME DrivesInv, MeteredInv, NEW d \in Drives, DriveStep(d)
  PROVE  MeteredInv' /\ \A e \in Drives : index[e].records =< index'[e].records
<1>1. /\ DOMAIN index = Drives
      /\ \A e \in Drives :
            /\ DOMAIN index[e] = IndexFields /\ Capacity[e] \in Nat
            /\ index[e].capacity \in {0, Capacity[e]} /\ index[e].records \in 0 .. index[e].capacity
            /\ index[e].phase = "reading" => index[e].capacity = Capacity[e]
  BY DrivesAssumption DEF DrivesInv, MeteredInv
<1>0. index[d].records =< index[d].records /\ 0 \in 0 .. 0 /\ index[d].records =< Capacity[d]
      /\ index[d].records \in 0 .. Capacity[d]
  <2>1. index[d].records \in Nat /\ index[d].capacity \in Nat
    BY <1>1
  <2> QED BY <1>1, <2>1
<1>2. ASSUME NEW new, index' = [index EXCEPT ![d] = new],
             new.capacity \in {0, Capacity[d]}, new.records \in 0 .. new.capacity,
             new.phase = "reading" => new.capacity = Capacity[d],
             index[d].records =< new.records
      PROVE  MeteredInv' /\ \A e \in Drives : index[e].records =< index'[e].records
  <2>1. index'[d] = new /\ \A e \in Drives : e # d => index'[e] = index[e]
    BY <1>1, <1>2
  <2>2. \A e \in Drives : index[e].records =< index[e].records
    BY <1>1
  <2> QED BY <1>1, <1>2, <2>1, <2>2 DEF MeteredInv
<1>3. CASE \E h \in Handles : Open(d, h)
  <2>1. PICK h \in Handles : Open(d, h)
    BY <1>3
  <2> DEFINE new == [[index[d] EXCEPT !.phase = "open"] EXCEPT !.handle = h]
  <2>2. new.capacity = index[d].capacity /\ new.records = index[d].records /\ new.phase = "open"
    BY <1>1 DEF IndexFields
  <2>3. index' = [index EXCEPT ![d] = new]
    BY <1>1, <2>1 DEF Open
  <2> HIDE DEF new
  <2> QED BY <1>0, <1>1, <1>2, <2>2, <2>3
<1>4. CASE Measure(d)
  <2> DEFINE new == [[index[d] EXCEPT !.phase = "reading"] EXCEPT !.capacity = Capacity[d]]
  <2>1. new.capacity = Capacity[d] /\ new.records = index[d].records
    BY <1>1 DEF IndexFields
  <2>2. index' = [index EXCEPT ![d] = new]
    BY <1>1, <1>4 DEF Measure
  <2> HIDE DEF new
  <2> QED BY <1>0, <1>1, <1>2, <2>1, <2>2
<1>5. CASE Read(d)
  <2>1. PICK n \in index[d].records + 1 .. Capacity[d] : index' = [index EXCEPT ![d].records = n]
    BY <1>5 DEF Read
  <2> DEFINE new == [index[d] EXCEPT !.records = n]
  <2>2. new.capacity = index[d].capacity /\ new.records = n
    BY <1>1 DEF IndexFields
  <2>3. index' = [index EXCEPT ![d] = new] /\ index[d].phase = "reading"
    BY <1>1, <1>5, <2>1 DEF Read
  <2>4. index[d].records =< n /\ n \in 0 .. Capacity[d]
    BY <1>1
  <2> HIDE DEF new
  <2> QED BY <1>1, <1>2, <2>2, <2>3, <2>4
<1>6. CASE Close(d)
  <2> DEFINE new == [[[index[d] EXCEPT !.phase = "closed"] EXCEPT !.handle = 0]
                        EXCEPT !.names = Len(Tree[d])]
  <2>1. new.capacity = index[d].capacity /\ new.records = index[d].records /\ new.phase = "closed"
    BY <1>1 DEF IndexFields
  <2>2. index' = [index EXCEPT ![d] = new]
    BY <1>1, <1>6 DEF Close
  <2> HIDE DEF new
  <2> QED BY <1>0, <1>1, <1>2, <2>1, <2>2
<1>7. ASSUME NEW phase, phase # "reading", index' = [index EXCEPT ![d].phase = phase]
      PROVE  MeteredInv' /\ \A e \in Drives : index[e].records =< index'[e].records
  <2> DEFINE new == [index[d] EXCEPT !.phase = phase]
  <2>1. new.capacity = index[d].capacity /\ new.records = index[d].records /\ new.phase = phase
    BY <1>1 DEF IndexFields
  <2>2. index' = [index EXCEPT ![d] = new]
    BY <1>1, <1>7
  <2> HIDE DEF new
  <2> QED BY <1>0, <1>1, <1>2, <1>7, <2>1, <2>2
<1>8. CASE Signal(d)
  BY <1>7, <1>8 DEF Signal
<1>9. CASE Fail(d)
  BY <1>7, <1>9 DEF Fail
<1> QED BY <1>3, <1>4, <1>5, <1>6, <1>8, <1>9 DEF DriveStep

\* The share of c that corresponds to k of n visits is no more than c and no less for one
\* visit more.
LEMMA ShareIs ==
  ASSUME NEW c \in Nat, NEW n \in Nat \ {0}, NEW k \in 0 .. n
  PROVE  /\ (c * k) \div n \in 0 .. c
         /\ (c * k) \div n =< (c * (k + 1)) \div n
<1> DEFINE p == c * k
           r == c * (k + 1)
           q == p \div n
           u == r \div n
<1>1. p \in Nat /\ r \in Nat /\ p =< c * n /\ p =< r
  <2>1. k \in Nat /\ k + 1 \in Nat /\ k =< n
    OBVIOUS
  <2>2. PICK m \in Nat : n = k + m
    <3>1. n - k \in Nat /\ n = k + (n - k)
      OBVIOUS
    <3> QED BY <3>1
  <2>3. c * n = c * k + c * m /\ c * m \in Nat /\ c * k \in Nat
    BY <2>1, <2>2
  <2>4. c * (k + 1) = c * k + c
    BY <2>1
  <2> QED BY <2>3, <2>4
<1> HIDE DEF p, r
<1>2. /\ q \in Nat /\ q * n =< p /\ p < q * n + n
      /\ u \in Nat /\ u * n =< r /\ r < u * n + n
  BY <1>1, QuotientBelow
<1> HIDE DEF q, u
<1>3. ASSUME NEW a \in Nat, NEW b \in Nat, a * n < b * n + n
      PROVE  a =< b
  <2> SUFFICES ASSUME b < a PROVE FALSE
    OBVIOUS
  <2>1. PICK m \in Nat : a = b + 1 + m
    <3>1. a - b - 1 \in Nat /\ a = b + 1 + (a - b - 1)
      OBVIOUS
    <3> QED BY <3>1
  <2>2. a * n = b * n + n + m * n /\ m * n \in Nat /\ b * n \in Nat
    BY <2>1
  <2> QED BY <1>3, <2>2
<1>4. q * n < c * n + n
  <2>1. q * n \in Int /\ c * n \in Int
    BY <1>2
  <2> QED BY <1>1, <1>2, <2>1
<1>5. q * n < u * n + n
  <2>1. q * n \in Int /\ u * n \in Int
    BY <1>2
  <2> QED BY <1>1, <1>2, <2>1
<1>6. q =< c /\ q =< u
  BY <1>2, <1>3, <1>4, <1>5
<1>7. q \in 0 .. c
  BY <1>2, <1>6
<1> QED BY <1>6, <1>7 DEF p, q, r, u

\* Sums over the drives in the list.
LEMMA SumsAre ==
  ASSUME DialogInv, MeteredInv
  PROVE  /\ IsFiniteSet(Range(search.indices)) /\ Range(search.indices) \subseteq Drives
         /\ IsFiniteSet(search.selected) /\ search.selected \subseteq Drives
         /\ \A S \in SUBSET Drives :
              /\ IsFiniteSet(S) /\ TwoWays(S) \in Nat
              /\ \A d \in S : TwoWays(S) = 2 * Capacity[d] + TwoWays(S \ {d})
         /\ RecordsWaiting \in Nat
         /\ 2 * RecordsWaiting =< TwoWays(Range(search.indices))
<1>1. IsFiniteSet(Drives)
  BY DrivesAssumption, FS_Interval DEF Drives
<1>2. Range(search.indices) \subseteq Drives /\ search.selected \subseteq Drives
  BY DEF DialogInv, ListInv, Range
<1>3. \A S \in SUBSET Drives : IsFiniteSet(S)
  BY <1>1, FS_Subset
<1>4. \A d \in Drives : Capacity[d] \in Nat
  BY DrivesAssumption
<1>5. ASSUME NEW S \in SUBSET Drives
      PROVE  /\ TwoWays(S) \in Nat /\ SumFunctionOnSet(Capacity, S) \in Nat
             /\ \A d \in S : TwoWays(S) = 2 * Capacity[d] + TwoWays(S \ {d})
  <2>1. \A d \in S : Capacity[d] \in Nat /\ Capacity[d] \in Int
    BY <1>4
  <2>2. SumFunctionOnSet(Capacity, S) \in Nat
    BY <1>3, <2>1, SumOfNaturals
  <2>3. ASSUME NEW d \in S
        PROVE  /\ SumFunctionOnSet(Capacity, S) = Capacity[d] + SumFunctionOnSet(Capacity, S \ {d})
               /\ SumFunctionOnSet(Capacity, S \ {d}) \in Nat
    <3>1. SumFunctionOnSet(Capacity, S) = Capacity[d] + SumFunctionOnSet(Capacity, S \ {d})
      BY <1>3, <2>1, SumAdds
    <3>2. IsFiniteSet(S \ {d}) /\ \A e \in S \ {d} : Capacity[e] \in Nat
      BY <1>3, <2>1
    <3>3. SumFunctionOnSet(Capacity, S \ {d}) \in Nat
      BY <3>2, SumOfNaturals
    <3> QED BY <3>1, <3>3
  <2> QED BY <2>1, <2>2, <2>3 DEF TwoWays
<1> DEFINE records == [d \in Drives |-> index[d].records]
           S == Range(search.indices)
<1>6. \A d \in S : /\ records[d] \in Nat /\ records[d] \in Int /\ Capacity[d] \in Int
                   /\ records[d] =< Capacity[d]
  <2>1. \A d \in Drives : records[d] \in 0 .. index[d].capacity /\ index[d].capacity \in {0, Capacity[d]}
    BY DEF MeteredInv
  <2> QED BY <1>2, <1>4, <2>1
<1> HIDE DEF records
<1>7. IsFiniteSet(S) /\ S \in SUBSET Drives
  BY <1>2, <1>3
<1> HIDE DEF S
<1>8. SumFunctionOnSet(records, S) \in Nat
  BY <1>6, <1>7, SumOfNaturals
<1>9. SumFunctionOnSet(records, S) =< SumFunctionOnSet(Capacity, S)
  BY <1>6, <1>7, SumMonotone
<1>10. RecordsWaiting = SumFunctionOnSet(records, S)
  BY DEF RecordsWaiting, records, S
<1>11. 2 * RecordsWaiting =< TwoWays(S)
  <2>1. SumFunctionOnSet(Capacity, S) \in Nat /\ TwoWays(S) = 2 * SumFunctionOnSet(Capacity, S)
    BY <1>5, <1>7 DEF TwoWays
  <2> QED BY <1>8, <1>9, <1>10, <2>1
<1> QED BY <1>2, <1>3, <1>5, <1>8, <1>10, <1>11 DEF S

\* What has been reached is no more than what the drives are worth.
LEMMA LevelIs ==
  ASSUME DialogInv, MeterInv
  PROVE  /\ RecordsWaiting \in Nat /\ ShareSoFar \in Nat /\ Level \in Nat
         /\ TwoWays(search.selected) \in Nat
         /\ pc = "search" => /\ Current \in Drives /\ Current \in Range(search.indices)
                             /\ ShareSoFar =< Capacity[Current]
                             /\ index[Current].names = 0 => ShareSoFar = 0
         /\ pc \in SearchPcs => Level =< TwoWays(search.selected)
<1>1. /\ Range(search.indices) \in SUBSET Drives /\ search.selected \in SUBSET Drives
      /\ \A S \in SUBSET Drives :
           TwoWays(S) \in Nat /\ \A d \in S : TwoWays(S) = 2 * Capacity[d] + TwoWays(S \ {d})
      /\ RecordsWaiting \in Nat /\ 2 * RecordsWaiting =< TwoWays(Range(search.indices))
  BY SumsAre DEF MeterInv
<1>2. ASSUME pc = "search" PROVE Current \in Drives /\ Current \in Range(search.indices)
  <2>1. search.indices \in Seq(Drives) /\ search.signaled \in 1 .. Len(search.indices)
    BY <1>2 DEF DialogInv, ListInv
  <2> QED BY <2>1 DEF Current, Range
<1>3. ASSUME pc = "search", index[Current].names # 0 PROVE Share \in 0 .. Capacity[Current]
  <2>1. /\ Capacity[Current] \in Nat /\ index[Current].names \in Nat \ {0}
        /\ search.current \in 0 .. index[Current].names
    BY <1>2, <1>3, DrivesAssumption DEF DialogInv, DrivesInv, ListInv
  <2> QED BY <2>1, ShareIs DEF Share
<1>4. /\ ShareSoFar \in Nat
      /\ pc = "search" => ShareSoFar =< Capacity[Current]
      /\ pc # "search" => ShareSoFar = 0
      /\ pc = "search" /\ index[Current].names = 0 => ShareSoFar = 0
  BY <1>2, <1>3, DrivesAssumption DEF ShareSoFar
<1>5. search.numerator \in Nat
  BY DEF MeterInv, ProgressInv
<1>6. Level \in Nat
  BY <1>1, <1>4, <1>5 DEF Level
<1>7. ASSUME pc \in SearchPcs PROVE Level =< TwoWays(search.selected)
  <2> DEFINE S == Range(search.indices)
             T == search.selected
  <2>1. search.numerator + TwoWays(S) =< TwoWays(T)
    BY <1>7 DEF MeterInv, ProgressInv
  <2>2. TwoWays(S) \in Nat /\ TwoWays(T) \in Nat
    BY <1>1
  <2>3. 2 * ShareSoFar =< TwoWays(S)
    <3>1. CASE pc = "search"
      <4>1. TwoWays(S) = 2 * Capacity[Current] + TwoWays(S \ {Current}) /\ S \ {Current} \in SUBSET Drives
        BY <1>1, <1>2, <3>1
      <4>2. TwoWays(S \ {Current}) \in Nat /\ Capacity[Current] \in Nat
        BY <1>1, <1>2, <3>1, <4>1, DrivesAssumption
      <4> QED BY <1>4, <3>1, <4>1, <4>2
    <3>2. CASE pc # "search"
      BY <1>4, <2>2, <3>2
    <3> QED BY <3>1, <3>2
  <2> HIDE DEF S
  <2>4. 2 * RecordsWaiting =< TwoWays(S)
    BY <1>1 DEF S
  <2> QED BY <1>1, <1>4, <1>5, <2>1, <2>2, <2>3, <2>4 DEF Level
<1> QED BY <1>1, <1>2, <1>4, <1>6, <1>7

\* Steps of a search that keep its list.
LEMMA QuietProgress ==
  ASSUME DialogInv, MeterInv, MeteredInv', \A d \in Drives : index[d].records =< index'[d].records,
         search'.indices = search.indices, search'.selected = search.selected,
         search'.numerator = search.numerator, search'.pending = search.pending,
         pc \in SearchPcs, pc' \in SearchPcs, progress' \in Nat,
         search.pending => progress' \in {progress, Level},
         ShareSoFar' \in Nat, ShareSoFar =< ShareSoFar'
  PROVE  MeterInv'
<1>1. /\ IsFiniteSet(Range(search.indices)) /\ Range(search.indices) \subseteq Drives
      /\ RecordsWaiting \in Nat /\ ShareSoFar \in Nat /\ Level \in Nat
  BY SumsAre, LevelIs DEF MeterInv
<1> DEFINE old == [d \in Drives |-> index[d].records]
           new == [d \in Drives |-> index'[d].records]
           S == Range(search.indices)
<1>2. \A d \in S : /\ old[d] \in Int /\ new[d] \in Int /\ new[d] \in Nat /\ old[d] =< new[d]
  <2>1. \A d \in Drives : Capacity[d] \in Nat
    BY DrivesAssumption
  <2> QED BY <1>1, <2>1 DEF MeterInv, MeteredInv
<1>3. RecordsWaiting = SumFunctionOnSet(old, S) /\ RecordsWaiting' = SumFunctionOnSet(new, S)
  BY DEF RecordsWaiting
<1> HIDE DEF old, new, S
<1>4. IsFiniteSet(S)
  BY <1>1 DEF S
<1>5. RecordsWaiting =< RecordsWaiting' /\ RecordsWaiting' \in Nat
  BY <1>2, <1>3, <1>4, SumMonotone, SumOfNaturals
<1>6. progress \in Nat /\ search.numerator \in Nat /\ (search.pending => progress =< Level)
  BY DEF MeterInv, ProgressInv
<1>7. Level =< Level' /\ Level' \in Nat
  <2>1. Level' = search.numerator + RecordsWaiting' + ShareSoFar'
    BY DEF Level
  <2>2. Level = search.numerator + RecordsWaiting + ShareSoFar
    BY DEF Level
  <2> QED BY <1>1, <1>5, <1>6, <2>1, <2>2
<1>8. search.pending => progress' =< Level'
  <2>1. search.pending => progress' =< Level
    BY <1>1, <1>6
  <2> QED BY <1>1, <1>7, <2>1
<1>9. search'.numerator + TwoWays(Range(search'.indices)) =< TwoWays(search'.selected)
  BY DEF MeterInv, ProgressInv
<1> QED BY <1>6, <1>8, <1>9 DEF MeterInv, ProgressInv, TwoWays

\* Everything else that does not search.
LEMMA AsideProgress ==
  ASSUME MeterInv, MeteredInv', pc \notin SearchPcs, pc' \notin SearchPcs,
         progress' = progress, search'.numerator = search.numerator
  PROVE  MeterInv'
BY DEF MeterInv, ProgressInv

\* An index that has been searched is worth what it was counted for while it was waited for, and
\* its share.
LEMMA SearchedKeepsMeter ==
  ASSUME DialogInv, MeterInv, NEW looks \in BOOLEAN, Searched(looks)
  PROVE  MeterInv'
<1> DEFINE c == Current
           S == Range(search.indices)
           T == search.selected
           own == IF search.pending THEN index[c].capacity ELSE 0
           share == IF index[c].names = 0 THEN 0 ELSE Share
<1>1. /\ pc = "search" /\ pc' = "loop" /\ index' = index /\ progress' = progress
      /\ search' = [search EXCEPT
            !.numerator = @ + own + share,
            !.indices = RemoveAt(@, search.signaled),
            !.handles = RemoveAt(@, search.signaled),
            !.signaled = 0, !.current = 0]
  BY DEF Searched, indexVars
<1>2. /\ search'.numerator = search.numerator + own + share
      /\ search'.pending = search.pending
  BY <1>1 DEF DialogInv, ListInv, SearchFields
<1>3. Range(search'.indices) = S \ {c} /\ search'.selected = T
  BY SearchedKeepsDialog
<1>4. /\ RecordsWaiting \in Nat /\ ShareSoFar \in Nat /\ Level \in Nat
      /\ c \in Drives /\ c \in S /\ ShareSoFar =< Capacity[c]
      /\ index[c].names = 0 => ShareSoFar = 0
  BY <1>1, LevelIs
<1>5. share = ShareSoFar
  BY <1>1, <1>4 DEF ShareSoFar
<1>6. S \in SUBSET Drives /\ S \ {c} \in SUBSET Drives /\ T \in SUBSET Drives
  BY SumsAre DEF MeterInv
<1>7. /\ TwoWays(S) = 2 * Capacity[c] + TwoWays(S \ {c}) /\ TwoWays(S \ {c}) \in Nat /\ TwoWays(S) \in Nat
      /\ TwoWays(T) \in Nat
  BY <1>4, <1>6, SumsAre DEF MeterInv
<1>8. /\ index[c].records \in Nat /\ index[c].records =< index[c].capacity
      /\ index[c].capacity \in Nat /\ index[c].capacity =< Capacity[c] /\ Capacity[c] \in Nat
  <2>1. Capacity[c] \in Nat /\ index[c].capacity \in {0, Capacity[c]}
        /\ index[c].records \in 0 .. index[c].capacity
    BY <1>4, DrivesAssumption DEF MeterInv, MeteredInv
  <2> QED BY <2>1
<1> DEFINE records == [d \in Drives |-> index[d].records]
<1>9. RecordsWaiting = index[c].records + RecordsWaiting' /\ RecordsWaiting' \in Nat
  <2>1. \A d \in S : records[d] \in Nat /\ records[d] \in Int
    <3>1. \A d \in Drives : Capacity[d] \in Nat /\ index[d].capacity \in {0, Capacity[d]}
                            /\ index[d].records \in 0 .. index[d].capacity
      BY DrivesAssumption DEF MeterInv, MeteredInv
    <3>2. \A d \in Drives : index[d].records \in Nat
      BY <3>1
    <3> QED BY <1>6, <3>2
  <2>2. RecordsWaiting = SumFunctionOnSet(records, S)
        /\ RecordsWaiting' = SumFunctionOnSet(records, S \ {c})
    BY <1>1, <1>3 DEF RecordsWaiting
  <2>3. records[c] = index[c].records
    BY <1>4
  <2> HIDE DEF records, S, c
  <2>4. IsFiniteSet(S) /\ IsFiniteSet(S \ {c}) /\ \A d \in S \ {c} : records[d] \in Nat
    BY <1>6, <2>1, SumsAre DEF MeterInv
  <2> QED BY <1>4, <2>1, <2>2, <2>3, <2>4, SumAdds, SumOfNaturals
<1>10. /\ progress \in Nat /\ search.numerator \in Nat
       /\ search.numerator + TwoWays(S) =< TwoWays(T)
       /\ search.pending => progress =< Level
  BY <1>1 DEF MeterInv, ProgressInv, SearchPcs
<1>11. Level' = search'.numerator + RecordsWaiting' + 0
  BY <1>1 DEF Level, ShareSoFar
<1>12. own \in Nat /\ own =< Capacity[c] /\ (search.pending => own = index[c].capacity)
  BY <1>8
<1> HIDE DEF c, S, T, own, share
<1>13. search'.numerator \in Nat /\ search'.numerator = search.numerator + own + ShareSoFar
  BY <1>2, <1>4, <1>5, <1>10, <1>12
<1>14. search'.numerator + TwoWays(S \ {c}) =< TwoWays(T)
  BY <1>4, <1>7, <1>8, <1>10, <1>12, <1>13
<1>15. search.pending => progress' =< Level'
  <2>1. Level = search.numerator + RecordsWaiting + ShareSoFar
    BY DEF Level
  <2>2. search.pending => Level =< Level'
    BY <1>4, <1>8, <1>9, <1>10, <1>11, <1>12, <1>13, <2>1
  <2>3. Level' \in Nat
    BY <1>9, <1>11, <1>13
  <2> QED BY <1>1, <1>4, <1>10, <2>2, <2>3
<1>16. MeteredInv'
  BY <1>1 DEF MeterInv, MeteredInv
<1> QED BY <1>1, <1>2, <1>3, <1>10, <1>13, <1>14, <1>15, <1>16
        DEF MeterInv, ProgressInv, SearchPcs, TwoWays, T

\* The loop begins with nothing reached but the records there are.
LEMMA LowerKeepsMeter == ASSUME DialogInv, MeterInv, Lower PROVE MeterInv'
<1>1. /\ pc = "collect" /\ pc' = "loop" /\ search.left = {} /\ index' = index /\ progress' = progress
      /\ search'.numerator = search.numerator /\ search'.indices = search.indices
      /\ search'.selected = search.selected
  BY DEF Lower, DialogInv, ListInv, SearchFields
<1>2. progress = 0 /\ search.numerator = 0
  BY <1>1 DEF MeterInv, ProgressInv, SearchPcs
<1>3. MeteredInv'
  BY <1>1 DEF MeterInv, MeteredInv
<1>4. Range(search.indices) = search.selected
  BY <1>1 DEF DialogInv, ListInv
<1>5. TwoWays(search.selected) \in Nat /\ RecordsWaiting \in Nat
  BY SumsAre DEF MeterInv
<1>6. Level' = search'.numerator + RecordsWaiting + 0
  BY <1>1 DEF Level, ShareSoFar, RecordsWaiting
<1> QED BY <1>1, <1>2, <1>3, <1>4, <1>5, <1>6 DEF MeterInv, ProgressInv, SearchPcs, TwoWays

\* A visit shows what has been reached before it.
LEMMA VisitKeepsMeter ==
  ASSUME DialogInv, MeterInv, NEW looks \in BOOLEAN, Visit(looks)
  PROVE  MeterInv' /\ (search.pending => progress' \in {progress, Level})
<1>1. /\ pc = "search" /\ pc' = pc /\ index' = index /\ search.current < index[Current].names
      /\ progress' = IF Looks(looks) THEN Shown ELSE progress
      /\ search' = [search EXCEPT !.current = @ + 1]
  BY DEF Visit, indexVars
<1>2. /\ search'.current = search.current + 1 /\ search'.signaled = search.signaled
      /\ search'.indices = search.indices /\ search'.selected = search.selected
      /\ search'.numerator = search.numerator /\ search'.pending = search.pending
  BY <1>1 DEF DialogInv, ListInv, SearchFields
<1>3. Current' = Current /\ Current \in Drives
  BY <1>1, <1>2, LevelIs DEF Current
<1>4. /\ index[Current].names \in Nat \ {0} /\ search.current \in 0 .. index[Current].names
      /\ search.current + 1 \in 0 .. index[Current].names /\ Capacity[Current] \in Nat
  <2>1. /\ index[Current].names \in 0 .. Len(Tree[Current]) /\ Len(Tree[Current]) \in Nat
        /\ search.current \in 0 .. index[Current].names /\ Capacity[Current] \in Nat
    BY <1>1, <1>3, DrivesAssumption DEF DialogInv, ListInv, DrivesInv
  <2> QED BY <1>1, <2>1
<1>5. ShareSoFar = Share /\ ShareSoFar' = Share'
  BY <1>1, <1>3, <1>4 DEF ShareSoFar
<1>6. Share' = (Capacity[Current] * (search.current + 1)) \div index[Current].names
  BY <1>1, <1>2, <1>3 DEF Share
<1>7. Share \in Nat /\ Share' \in Nat /\ Share =< Share'
  <2> DEFINE c == Capacity[Current]
             n == index[Current].names
             k == search.current
  <2>1. Share = (c * k) \div n /\ Share' = (c * (k + 1)) \div n
    BY <1>6 DEF Share
  <2>2. c \in Nat /\ n \in Nat \ {0} /\ k \in 0 .. n /\ k + 1 \in 0 .. n
    BY <1>4
  <2> HIDE DEF c, n, k
  <2>3. (c * k) \div n \in 0 .. c /\ (c * k) \div n =< (c * (k + 1)) \div n
    BY <2>2, ShareIs
  <2>4. (c * (k + 1)) \div n \in 0 .. c
    BY <2>2, ShareIs
  <2> QED BY <2>1, <2>2, <2>3, <2>4
<1>8. /\ RecordsWaiting \in Nat /\ search.numerator \in Nat /\ progress \in Nat
      /\ Level = search.numerator + RecordsWaiting + Share
  BY <1>5, LevelIs DEF Level, MeterInv, ProgressInv
<1>9. progress' \in Nat /\ (search.pending => progress' \in {progress, Level})
  <2>1. Shown \in Nat /\ (search.pending => Shown = Level)
    BY <1>7, <1>8 DEF Shown
  <2> QED BY <1>1, <1>8, <2>1
<1>10. MeteredInv' /\ \A d \in Drives : index[d].records =< index'[d].records
  <2>1. \A d \in Drives : index[d].records =< index[d].records
    BY DrivesAssumption DEF MeterInv, MeteredInv
  <2> QED BY <1>1, <2>1 DEF MeterInv, MeteredInv
<1>11. MeterInv'
  BY <1>1, <1>2, <1>5, <1>7, <1>9, <1>10, QuietProgress DEF SearchPcs
<1> QED BY <1>9, <1>11

\* Progress does not go back, and stays below what the drives are worth.
LEMMA MeterInvNext ==
  DialogInv /\ MeterInv /\ [Next]_vars =>
      /\ MeterInv'
      /\ pc \in {"loop", "wait", "search"} /\ search.pending => progress' \in {progress, Level}
<1> SUFFICES ASSUME DialogInv, MeterInv, [Next]_vars
             PROVE  /\ MeterInv'
                    /\ pc \in {"loop", "wait", "search"} /\ search.pending =>
                           progress' \in {progress, Level}
  OBVIOUS
<1> DEFINE Goal == /\ MeterInv'
                   /\ pc \in {"loop", "wait", "search"} /\ search.pending =>
                          progress' \in {progress, Level}
<1>0. /\ \A d \in Drives : index[d].records =< index[d].records
      /\ ShareSoFar \in Nat /\ ShareSoFar =< ShareSoFar /\ progress \in Nat
      /\ RecordsWaiting \in Nat /\ search.numerator \in Nat
  <2>1. \A d \in Drives : index[d].records =< index[d].records
    BY DrivesAssumption DEF MeterInv, MeteredInv
  <2>2. ShareSoFar \in Nat /\ RecordsWaiting \in Nat
    BY LevelIs
  <2> QED BY <2>1, <2>2 DEF MeterInv, ProgressInv
\* What leaves the index and the search alone.
<1>1. ASSUME index' = index, search' = search, progress' = progress, pc \notin SearchPcs,
             pc' \notin SearchPcs
      PROVE  Goal
  <2>1. MeteredInv'
    BY <1>1 DEF MeterInv, MeteredInv
  <2> QED BY <1>1, <2>1, AsideProgress DEF SearchPcs
<1>2. ASSUME index' = index, search'.indices = search.indices, search'.selected = search.selected,
             search'.numerator = search.numerator, search'.pending = search.pending,
             pc \in SearchPcs, pc' \in SearchPcs, progress' \in Nat,
             search.pending => progress' \in {progress, Level},
             ShareSoFar' \in Nat, ShareSoFar =< ShareSoFar'
      PROVE  Goal
  <2>1. MeteredInv' /\ \A d \in Drives : index[d].records =< index'[d].records
    BY <1>0, <1>2 DEF MeterInv, MeteredInv
  <2>2. MeterInv'
    BY <1>2, <2>1, QuietProgress
  <2> QED BY <1>2, <2>2
<1>3. ASSUME NEW selected, NEW byLevel, Search(selected, byLevel) PROVE Goal
  <2>1. /\ pc = "idle" /\ pc' = "collect" /\ index' = index /\ progress' = progress
        /\ search'.numerator = 0
    BY <1>3 DEF Search, Begin, indexVars, NoSearch
  <2>2. MeteredInv' /\ search.numerator = 0
    BY <2>1 DEF MeterInv, MeteredInv, ProgressInv, SearchPcs
  <2> QED BY <2>1, <2>2, AsideProgress DEF SearchPcs
<1>4. ASSUME NEW selected, Refresh(selected) PROVE Goal
  <2>1. /\ pc = "idle" /\ pc' = pc /\ progress' = progress /\ search' = search
        /\ index' = [d \in Drives |-> IF d \in selected THEN NewIndex ELSE index[d]]
    BY <1>4 DEF Refresh, searchVars
  <2>2. NewIndex.capacity = 0 /\ NewIndex.records = 0 /\ NewIndex.phase = "new" /\ 0 \in 0 .. 0
    BY DEF NewIndex
  <2>3. MeteredInv'
    BY <2>1, <2>2 DEF MeterInv, MeteredInv
  <2> QED BY <2>1, <2>3, AsideProgress DEF SearchPcs
<1>5. ASSUME NEW column, NEW variation, Click(column, variation) PROVE Goal
  <2>1. /\ index' = index /\ search' = search /\ progress' = progress
        /\ pc = "idle" /\ pc' \in {"idle", "sorting"}
    BY <1>5 DEF Click, ClickTurns, ClickSorts, ClickPlaces, ClickNothing, ClickStopped,
                indexVars, searchVars
  <2> QED BY <1>1, <2>1 DEF SearchPcs
<1>6. ASSUME NEW mode, NEW selection, BeginExport(mode, selection) PROVE Goal
  BY <1>1, <1>6 DEF BeginExport, indexVars, SearchPcs
<1>7. CASE PlaceStopped \/ Place \/ PlaceEnds
  <2>1. /\ index' = index /\ search' = search /\ progress' = progress
        /\ pc = "sorting" /\ pc' \in {"idle", "sorting"}
    BY <1>7 DEF PlaceStopped, Place, PlaceEnds, indexVars, searchVars
  <2> QED BY <1>1, <2>1 DEF SearchPcs
<1>8. ASSUME index' = index, search' = search, progress' = progress, pc' = pc PROVE Goal
  <2>1. CASE pc \in SearchPcs
    <3>1. ShareSoFar' = ShareSoFar
      BY <1>8 DEF ShareSoFar, Share, Current
    <3> QED BY <1>0, <1>2, <1>8, <2>1, <3>1
  <2>2. CASE pc \notin SearchPcs
    BY <1>1, <1>8, <2>2
  <2> QED BY <2>1, <2>2
<1>9. CASE Stop \/ UNCHANGED vars
  <2>1. index' = index /\ search' = search /\ progress' = progress /\ pc' = pc
    BY <1>9 DEF Stop, vars, indexVars, searchVars
  <2> QED BY <1>8, <2>1
<1>10. CASE \/ \E looks, large, stored \in BOOLEAN : ExportRow(looks, large, stored)
            \/ \E looks \in BOOLEAN : ExportStops(looks)
            \/ ExportEnds \/ ExportClosed
  <2>1. /\ index' = index /\ search' = search /\ progress' = progress
        /\ pc \in {"exporting", "exported"} /\ pc' \in {"exporting", "exported", "idle"}
    BY <1>10 DEF ExportRow, ExportStops, ExportEnds, ExportClosed, indexVars, searchVars
  <2> QED BY <1>1, <2>1 DEF SearchPcs
<1>11. CASE SearchStep
  <2>1. CASE Collect
    <3>1. /\ pc = "collect" /\ pc' = pc /\ index' = index /\ progress' = progress
          /\ search'.numerator = search.numerator
      BY <2>1 DEF Collect, indexVars, DialogInv, ListInv, SearchFields
    <3>2. MeteredInv'
      BY <3>1 DEF MeterInv, MeteredInv
    <3> QED BY <3>1, <3>2, AsideProgress DEF SearchPcs
  <2>2. CASE Lower
    BY <2>2, LowerKeepsMeter DEF Lower
  <2>3. CASE Raise
    <3>1. /\ pc = "loop" /\ pc' = "wait" /\ index' = index /\ progress' = progress
      BY <2>3 DEF Raise
    <3>2. /\ search'.selected = search.selected /\ search'.indices = search.indices
          /\ search'.numerator = search.numerator /\ search'.pending = search.pending
      BY <2>3 DEF Raise, DialogInv, ListInv, SearchFields
    <3>3. ShareSoFar' = 0 /\ ShareSoFar = 0
      BY <3>1 DEF ShareSoFar
    <3> QED BY <1>0, <1>2, <3>1, <3>2, <3>3 DEF SearchPcs
  <2>4. CASE TimeOut
    <3>1. /\ pc = "wait" /\ pc' \in {"loop", "end"} /\ index' = index /\ search' = search
          /\ progress' \in {progress, search.numerator + RecordsWaiting}
      BY <2>4 DEF TimeOut, indexVars
    <3>2. ShareSoFar' = 0 /\ ShareSoFar = 0
      BY <3>1 DEF ShareSoFar
    <3>3. Level = search.numerator + RecordsWaiting
      BY <1>0, <3>2 DEF Level
    <3>4. progress' \in Nat /\ progress' \in {progress, Level}
      BY <1>0, <3>1, <3>3
    <3> QED BY <1>0, <1>2, <3>1, <3>2, <3>4 DEF SearchPcs
  <2>5. CASE Wake
    <3>1. PICK k : search' = [search EXCEPT !.signaled = k, !.current = 0]
      BY <2>5 DEF Wake
    <3>2. /\ pc = "wait" /\ pc' = "search" /\ index' = index /\ progress' = progress
      BY <2>5 DEF Wake, indexVars
    <3>3. /\ search'.selected = search.selected /\ search'.indices = search.indices
          /\ search'.numerator = search.numerator /\ search'.pending = search.pending
          /\ search'.current = 0
      BY <3>1 DEF DialogInv, ListInv, SearchFields
    <3>4. ShareSoFar = 0
      BY <3>2 DEF ShareSoFar
    <3>5. ShareSoFar' \in Nat
      <4>1. DialogInv'
        BY <2>5, WakeKeepsDialog
      <4>2. CASE index'[Current'].names # 0
        <5>1. Current' \in Drives
          <6>1. /\ search'.indices \in Seq(Drives) /\ search'.signaled \in 1 .. Len(search'.indices)
            BY <3>2, <4>1 DEF DialogInv, ListInv
          <6> QED BY <6>1 DEF Current
        <5>2. /\ Capacity[Current'] \in Nat /\ index'[Current'].names \in Nat \ {0}
              /\ 0 \in 0 .. index'[Current'].names
          BY <4>1, <4>2, <5>1, DrivesAssumption DEF DialogInv, DrivesInv
        <5>3. (Capacity[Current'] * 0) \div index'[Current'].names \in Nat
          BY <5>2, ShareIs
        <5>4. ShareSoFar' = (Capacity[Current'] * 0) \div index'[Current'].names
          BY <3>2, <3>3, <4>2 DEF ShareSoFar, Share
        <5> QED BY <5>3, <5>4
      <4>3. CASE index'[Current'].names = 0
        BY <4>3 DEF ShareSoFar
      <4> QED BY <4>2, <4>3
    <3> QED BY <1>0, <1>2, <3>2, <3>3, <3>4, <3>5 DEF SearchPcs
  <2>6. CASE NoneLeft
    <3>1. /\ pc = "loop" /\ pc' = "end" /\ index' = index /\ search' = search /\ progress' = progress
      BY <2>6 DEF NoneLeft, indexVars
    <3>2. ShareSoFar' = 0 /\ ShareSoFar = 0
      BY <3>1 DEF ShareSoFar
    <3> QED BY <1>0, <1>2, <3>1, <3>2 DEF SearchPcs
  <2>7. CASE End
    <3>1. /\ pc = "end" /\ pc' = "idle" /\ index' = index /\ progress' = 0
          /\ search'.numerator = 0
      BY <2>7 DEF End, NoSearch
    <3> QED BY <3>1 DEF MeterInv, MeteredInv, ProgressInv, SearchPcs
  <2>8. ASSUME NEW looks \in BOOLEAN, Visit(looks) PROVE Goal
    BY <2>8, VisitKeepsMeter
  <2>9. ASSUME NEW looks \in BOOLEAN, Searched(looks) PROVE Goal
    BY <2>9, SearchedKeepsMeter DEF Searched
  <2> QED BY <1>11, <2>1, <2>2, <2>3, <2>4, <2>5, <2>6, <2>7, <2>8, <2>9 DEF SearchStep
<1>12. ASSUME NEW d \in Drives, Drive(d) PROVE Goal
  <2>1. /\ DriveStep(d) /\ search' = search /\ pc' = pc /\ progress' = progress
    BY <1>12 DEF Drive, searchVars
  <2>2. MeteredInv' /\ \A e \in Drives : index[e].records =< index'[e].records
    BY <2>1, MetersRise DEF DialogInv, MeterInv
  <2>3. CASE pc \notin SearchPcs
    BY <2>1, <2>2, <2>3, AsideProgress DEF SearchPcs
  <2>4. CASE pc \in SearchPcs
    <3>1. ShareSoFar' = ShareSoFar
      <4>1. CASE pc = "search"
        <5>1. Current \in Drives /\ Finished(Current)
          BY <4>1, LevelIs DEF DialogInv, ListInv
        <5>2. index'[Current].names = index[Current].names
          BY <2>1, <5>1, DriveStepEffect DEF DialogInv
        <5>3. Current' = Current
          BY <2>1 DEF Current
        <5> QED BY <2>1, <5>2, <5>3 DEF ShareSoFar, Share
      <4>2. CASE pc # "search"
        BY <2>1, <4>2 DEF ShareSoFar
      <4> QED BY <4>1, <4>2
    <3>2. MeterInv'
      BY <1>0, <2>1, <2>2, <2>4, <3>1, QuietProgress
    <3> QED BY <2>1, <3>2
  <2> QED BY <2>3, <2>4
<1> QED BY <1>3, <1>4, <1>5, <1>6, <1>7, <1>9, <1>10, <1>11, <1>12 DEF Next, User, Thread

\* MainDialog!ProgressForward: drives are read, fail and are searched in any order, and
\* what is shown may be old; it never goes back, and never beyond its end.
THEOREM ProgressNeverBack == Spec => ProgressForward
<1>1. Init => MeterInv
  <2> SUFFICES ASSUME Init PROVE MeterInv
    OBVIOUS
  <2>1. /\ index = [d \in Drives |-> NewIndex] /\ pc = "idle" /\ search = NoSearch /\ progress = 0
    BY DEF Init, SearchInit, DrivesInit
  <2>2. NewIndex.capacity = 0 /\ NewIndex.records = 0 /\ NewIndex.phase = "new" /\ 0 \in 0 .. 0
    BY DEF NewIndex
  <2>3. NoSearch.numerator = 0
    BY DEF NoSearch
  <2> QED BY <2>1, <2>2, <2>3 DEF MeterInv, MeteredInv, ProgressInv, SearchPcs
<1>2. DialogInv /\ MeterInv /\ [Next]_vars => MeterInv'
  BY MeterInvNext
<1>3. DialogInv /\ MeterInv /\ [Next]_vars =>
        [(pc \in {"loop", "wait", "search"} /\ search.pending
          /\ search.denominator = 2 * SumFunctionOnSet(Capacity, Selected))
          => progress \in 0 .. progress' /\ progress' \in 0 .. search.denominator]_vars
  <2> SUFFICES ASSUME DialogInv, MeterInv, [Next]_vars,
                      pc \in {"loop", "wait", "search"}, search.pending,
                      search.denominator = 2 * SumFunctionOnSet(Capacity, Selected)
               PROVE  progress \in 0 .. progress' /\ progress' \in 0 .. search.denominator
    OBVIOUS
  <2>1. progress' \in {progress, Level}
    BY MeterInvNext
  <2>2. /\ Level \in Nat /\ TwoWays(search.selected) \in Nat /\ Level =< TwoWays(search.selected)
        /\ progress \in Nat /\ progress =< Level
    BY LevelIs DEF SearchPcs, MeterInv, ProgressInv
  <2>3. search.denominator = TwoWays(search.selected)
    BY DEF TwoWays, Selected
  <2> QED BY <2>1, <2>2, <2>3
<1> QED BY <1>1, <1>2, <1>3, DialogInvariant, PTL DEF Spec, ProgressForward

-----------------------------------------------------------------------------
(***************************************************************************)
(* The sort in place.  o is the order the positions of the list "from"     *)
(* shall come in, M the positions that are marked as done.                 *)
(***************************************************************************)
\* A permutation of the positions.
Permutes(o, n) ==
    /\ o \in [1 .. n -> 1 .. n]
    /\ \A k, l \in 1 .. n : o[k] = o[l] => k = l
    /\ \A i \in 1 .. n : \E k \in 1 .. n : o[k] = i

\* Between cycles the marked positions, which are whole cycles, have their
\* results, and the others those they had.
BetweenCycles(from, o, p, M) ==
    /\ p.j = p.i
    /\ \A m \in 1 .. Len(from) : m \in M <=> o[m] \in M
    /\ \A k \in 1 .. Len(from) : p.list[k] = IF k \in M THEN from[o[k]] ELSE from[k]

\* In a cycle, which began at i and has come to j: j and what came before it have
\* theirs, and the next position keeps that of i until the cycle comes round.
InCycle(from, o, p, M) ==
    /\ p.j \in 1 .. Len(from) /\ p.j # p.i /\ p.i \in M /\ p.j \notin M
    /\ \A m \in 1 .. Len(from) : m \in M <=> o[m] \in (M \ {p.i}) \cup {p.j}
    /\ \A k \in 1 .. Len(from) :
          p.list[k] = IF k \in (M \ {p.i}) \cup {p.j} THEN from[o[k]]
                      ELSE IF k = o[p.j] THEN from[o[p.i]] ELSE from[k]

SameResults(from, list) ==
    /\ list \in Seq(AllResults) /\ Len(list) = Len(from) /\ Range(list) = Range(from)
    /\ IsInjective(from) => IsInjective(list)

Marked(o, second, n, M) ==
    second \in [1 .. n -> 1 .. n] /\ \A k \in 1 .. n : second[k] = IF k \in M THEN k ELSE o[k]

PlacingFields == {"second", "i", "j", "list"}

Placing(from, o, p, M) ==
    /\ DOMAIN p = PlacingFields
    /\ SameResults(from, p.list)
    /\ Marked(o, p.second, Len(from), M)
    /\ p.i \in 1 .. Len(from) + 1 /\ 1 .. p.i - 1 \subseteq M /\ M \subseteq 1 .. Len(from)
    /\ BetweenCycles(from, o, p, M) \/ InCycle(from, o, p, M)

LEMMA PlacingBegins ==
  ASSUME NEW from \in Seq(AllResults), NEW o, Permutes(o, Len(from))
  PROVE  Placing(from, o, PlacingBegun(from, o), {})
<1> DEFINE p == PlacingBegun(from, o)
<1>1. DOMAIN p = PlacingFields /\ p.second = o /\ p.i = 1 /\ p.j = 1 /\ p.list = from
  BY DEF PlacingBegun, PlacingFields
<1> HIDE DEF p
<1>2. SameResults(from, p.list) /\ Marked(o, p.second, Len(from), {})
  BY <1>1 DEF SameResults, Marked, Permutes
<1>3. BetweenCycles(from, o, p, {})
  BY <1>1 DEF BetweenCycles
<1>4. p.i \in 1 .. Len(from) + 1 /\ 1 .. p.i - 1 \subseteq {}
  BY <1>1
<1> QED BY <1>1, <1>2, <1>3, <1>4 DEF Placing, p

LEMMA SwappedIs ==
  ASSUME NEW T, NEW s \in Seq(T), NEW i \in 1 .. Len(s), NEW j \in 1 .. Len(s)
  PROVE  /\ Swapped(s, i, j) \in Seq(T) /\ Len(Swapped(s, i, j)) = Len(s)
         /\ Swapped(s, i, j)[i] = s[j] /\ Swapped(s, i, j)[j] = s[i]
         /\ \A k \in 1 .. Len(s) : k # i /\ k # j => Swapped(s, i, j)[k] = s[k]
         /\ Range(Swapped(s, i, j)) = Range(s)
         /\ IsInjective(s) => IsInjective(Swapped(s, i, j))
<1> DEFINE t == Swapped(s, i, j)
<1>1. /\ t \in Seq(T) /\ Len(t) = Len(s) /\ DOMAIN t = 1 .. Len(s) /\ DOMAIN s = 1 .. Len(s)
      /\ \A k \in 1 .. Len(s) : t[k] = IF k = j THEN s[i] ELSE IF k = i THEN s[j] ELSE s[k]
  BY DEF Swapped
<1> HIDE DEF t
<1>2. Range(t) = Range(s)
  <2>1. Range(t) \subseteq Range(s)
    BY <1>1 DEF Range
  <2>2. \A k \in 1 .. Len(s) : \E l \in 1 .. Len(s) : t[l] = s[k]
    BY <1>1
  <2> QED BY <1>1, <2>1, <2>2 DEF Range
<1>3. IsInjective(s) => IsInjective(t)
  BY <1>1 DEF IsInjective
<1> QED BY <1>1, <1>2, <1>3 DEF t

\* One round marks one position more.
LEMMA PlacingGoesOn ==
  ASSUME NEW from \in Seq(AllResults), NEW o, Permutes(o, Len(from)), NEW p, NEW M,
         Placing(from, o, p, M), ~Placed(p)
  PROVE  Placing(from, o, PlaceNext(p), M \cup {p.j})
<1> DEFINE n == Len(from)
           N == M \cup {p.j}
           j == p.second[p.j]
           second == [p.second EXCEPT ![p.j] = p.j]
           q == PlaceNext(p)
           \* C is made of whole cycles, and its positions have their results.
           Whole(C) == \A m \in 1 .. n : m \in C <=> o[m] \in C
           Own(C) == \A k \in 1 .. n : p.list[k] = IF k \in C THEN from[o[k]] ELSE from[k]
           \* All of C but i and with j is, and the next one has what i had.
           Begun(C) == \A m \in 1 .. n : m \in C <=> o[m] \in (C \ {p.i}) \cup {j}
           Ahead(C) == /\ \A k \in 1 .. n : k \in C \ {p.i} => p.list[k] = from[o[k]]
                       /\ \A k \in 1 .. n : k \notin (C \ {p.i}) \cup {j} => p.list[k] = from[k]
                       /\ p.list[j] = from[o[p.i]]
<1> SUFFICES Placing(from, o, q, N)
  OBVIOUS
<1>1. n \in Nat /\ Len(p.list) = n /\ p.i \in 1 .. n /\ M \subseteq 1 .. n /\ 1 .. p.i - 1 \subseteq M
  BY DEF Placing, SameResults, Placed
<1>2. p.j \in 1 .. n /\ N \subseteq 1 .. n
  BY <1>1 DEF Placing, BetweenCycles, InCycle
<1>3. /\ o \in [1 .. n -> 1 .. n] /\ \A k, l \in 1 .. n : o[k] = o[l] => k = l
      /\ \A k \in 1 .. n : o[k] \in 1 .. n
  BY DEF Permutes
<1>4. /\ p.second \in [1 .. n -> 1 .. n]
      /\ \A k \in 1 .. n : p.second[k] = IF k \in M THEN k ELSE o[k]
  BY DEF Placing, Marked
<1>5. j \in 1 .. n /\ j = IF p.j \in M THEN p.j ELSE o[p.j]
  BY <1>2, <1>4
<1>6. Marked(o, second, n, N)
  <2>1. second \in [1 .. n -> 1 .. n]
    BY <1>2, <1>4
  <2>2. ASSUME NEW k \in 1 .. n PROVE second[k] = IF k \in N THEN k ELSE o[k]
    BY <1>2, <1>4
  <2> HIDE DEF second, N
  <2> QED BY <2>1, <2>2 DEF Marked
<1>7. /\ DOMAIN q = PlacingFields /\ q.second = second
      /\ j = p.i => q.i = p.i + 1 /\ q.j = p.i + 1 /\ q.list = p.list
      /\ j # p.i => q.i = p.i /\ q.j = j /\ q.list = Swapped(p.list, j, second[j])
  <2>1. DOMAIN p = PlacingFields
    BY DEF Placing
  <2> QED BY <2>1 DEF PlaceNext, PlacingFields
<1>8. SameResults(from, p.list) /\ p.list \in Seq(AllResults)
  BY DEF Placing, SameResults
<1> HIDE DEF n, N, j, second, q, Whole, Own, Begun, Ahead
\* The cycle comes round, or the position is a cycle of its own.
<1>9. ASSUME j = p.i, p.i \in N,
             Whole(N), Own(N)
      PROVE  Placing(from, o, q, N)
  <2>1. BetweenCycles(from, o, q, N)
    BY <1>7, <1>9 DEF BetweenCycles, n, Whole, Own
  <2>2. q.i \in 1 .. n + 1 /\ 1 .. q.i - 1 \subseteq N
    <3>1. q.i = p.i + 1 /\ M \subseteq N
      BY <1>7, <1>9 DEF N
    <3> QED BY <1>1, <1>9, <3>1
  <2>3. SameResults(from, q.list) /\ Marked(o, q.second, n, N)
    BY <1>6, <1>7, <1>8, <1>9
  <2> QED BY <1>2, <1>7, <2>1, <2>2, <2>3 DEF Placing, n
\* Two results change places.
<1>10. ASSUME j # p.i, p.i \in N, j \notin N, second[j] = o[j], o[j] # j,
              Begun(N), Ahead(N)
       PROVE  Placing(from, o, q, N)
  <2>1. o[j] \in 1 .. n /\ o[j] \notin (N \ {p.i}) \cup {j}
    BY <1>3, <1>5, <1>10 DEF Begun
  <2>2. /\ q.list \in Seq(AllResults) /\ Len(q.list) = n
        /\ \A k \in 1 .. n : q.list[k] = IF k = o[j] THEN p.list[j]
                                         ELSE IF k = j THEN p.list[o[j]] ELSE p.list[k]
        /\ Range(q.list) = Range(p.list)
        /\ IsInjective(p.list) => IsInjective(q.list)
    <3>1. q.list = Swapped(p.list, j, o[j])
      BY <1>7, <1>10
    <3>2. j \in 1 .. Len(p.list) /\ o[j] \in 1 .. Len(p.list) /\ p.list \in Seq(AllResults)
      BY <1>1, <1>5, <1>8, <2>1
    <3> DEFINE i == o[j]
               s == p.list
               t == q.list
    <3>3. /\ s \in Seq(AllResults) /\ i \in 1 .. Len(s) /\ j \in 1 .. Len(s)
          /\ t = Swapped(s, j, i) /\ Len(s) = n
      BY <1>1, <3>1, <3>2
    <3> HIDE DEF i, s, t
    <3>4. /\ t \in Seq(AllResults) /\ Len(t) = Len(s) /\ Range(t) = Range(s)
          /\ IsInjective(s) => IsInjective(t)
          /\ t[j] = s[i] /\ t[i] = s[j]
          /\ \A k \in 1 .. Len(s) : k # j /\ k # i => t[k] = s[k]
      BY <3>3, SwappedIs
    <3>5. \A k \in 1 .. n : t[k] = IF k = i THEN s[j] ELSE IF k = j THEN s[i] ELSE s[k]
      BY <3>3, <3>4
    <3> QED BY <3>3, <3>4, <3>5 DEF i, s, t
  <2>3. SameResults(from, q.list)
    BY <1>8, <2>2 DEF SameResults, n
  <2>4. ASSUME NEW k \in 1 .. n
        PROVE  q.list[k] = IF k \in (N \ {p.i}) \cup {j} THEN from[o[k]]
                           ELSE IF k = o[j] THEN from[o[p.i]] ELSE from[k]
    <3>1. CASE k = j
      BY <1>10, <2>1, <2>2, <3>1 DEF Ahead
    <3>2. CASE k = o[j]
      BY <1>10, <2>1, <2>2, <3>2 DEF Ahead
    <3>3. CASE k # j /\ k # o[j]
      BY <1>10, <2>2, <3>3 DEF Ahead
    <3> QED BY <3>1, <3>2, <3>3
  <2>5. InCycle(from, o, q, N)
    BY <1>5, <1>7, <1>10, <2>4 DEF InCycle, n, Begun
  <2>6. q.i \in 1 .. n + 1 /\ 1 .. q.i - 1 \subseteq N
    BY <1>1, <1>7, <1>10 DEF N
  <2> QED BY <1>2, <1>6, <1>7, <2>3, <2>5, <2>6 DEF Placing, n
<1>11. CASE BetweenCycles(from, o, p, M)
  <2>1. /\ p.j = p.i /\ N = M \cup {p.i}
        /\ Whole(M) /\ Own(M)
    BY <1>11 DEF BetweenCycles, n, N, Whole, Own
  <2>2. CASE p.i \in M
    <3>1. j = p.i /\ N = M /\ p.i \in N
      BY <1>5, <2>1, <2>2
    <3> QED BY <1>9, <2>1, <2>2, <3>1
  <2>3. CASE p.i \notin M /\ o[p.i] = p.i
    <3>1. j = p.i /\ p.i \in N
      BY <1>5, <2>1, <2>3
    <3>2. Whole(N)
      BY <1>1, <1>3, <2>1, <2>3 DEF Whole
    <3>3. Own(N)
      BY <1>1, <2>1, <2>3 DEF Own
    <3> QED BY <1>9, <2>1, <3>1, <3>2, <3>3
  <2>4. CASE p.i \notin M /\ o[p.i] # p.i
    <3>1. j = o[p.i] /\ j # p.i /\ j \notin M /\ j \in 1 .. n /\ N \ {p.i} = M
      <4>1. j = o[p.i] /\ j # p.i /\ N \ {p.i} = M
        BY <1>5, <2>1, <2>4
      <4>2. j \notin M
        BY <1>1, <2>1, <2>4, <4>1 DEF Whole
      <4> QED BY <1>5, <4>1, <4>2
    <3>2. j \notin N /\ second[j] = o[j] /\ o[j] # j
      BY <1>1, <1>3, <1>6, <2>1, <3>1 DEF Marked
    <3>3. Begun(N)
      BY <1>1, <1>3, <2>1, <3>1 DEF Begun, Whole
    <3>4. Ahead(N)
      BY <2>1, <3>1 DEF Ahead, Own
    <3>5. p.i \in N
      BY <2>1
    <3> QED BY <1>10, <3>1, <3>2, <3>3, <3>4, <3>5
  <2> QED BY <2>2, <2>3, <2>4
<1>12. CASE InCycle(from, o, p, M)
  <2>1. /\ p.j # p.i /\ p.i \in M /\ p.j \notin M /\ N = M \cup {p.j}
        /\ N \ {p.i} = (M \ {p.i}) \cup {p.j}
        /\ \A m \in 1 .. n : m \in M <=> o[m] \in N \ {p.i}
        /\ \A k \in 1 .. n : p.list[k] = IF k \in N \ {p.i} THEN from[o[k]]
                                         ELSE IF k = o[p.j] THEN from[o[p.i]] ELSE from[k]
    <3>1. p.j # p.i /\ p.i \in M /\ p.j \notin M
      BY <1>12 DEF InCycle
    <3>2. N = M \cup {p.j} /\ N \ {p.i} = (M \ {p.i}) \cup {p.j}
      BY <3>1 DEF N
    <3> QED BY <1>12, <3>1, <3>2 DEF InCycle, n
  <2>2. j = o[p.j] /\ j \in 1 .. n
    BY <1>5, <2>1
  <2>3. j \notin N \ {p.i}
    BY <1>2, <2>1, <2>2
  <2>4. CASE j = p.i
    <3>1. Whole(N) /\ p.i \in N
      BY <1>2, <1>3, <2>1, <2>2, <2>4 DEF Whole
    <3>2. Own(N)
      BY <2>1, <2>2, <2>4 DEF Own
    <3> QED BY <1>9, <2>4, <3>1, <3>2
  <2>5. CASE j # p.i
    <3>1. j \notin N /\ second[j] = o[j]
      BY <1>6, <2>2, <2>3, <2>5 DEF Marked
    <3>2. o[j] # j
      BY <1>2, <1>3, <2>1, <2>2, <3>1
    <3>3. Begun(N)
      BY <1>2, <1>3, <2>1, <2>2 DEF Begun
    <3>4. Ahead(N)
      BY <2>1, <2>2, <2>3 DEF Ahead
    <3>5. p.i \in N
      BY <2>1
    <3> QED BY <1>10, <2>5, <3>1, <3>2, <3>3, <3>4, <3>5
  <2> QED BY <2>4, <2>5
<1> QED BY <1>11, <1>12 DEF Placing

\* When all are placed the list is as it shall be.
LEMMA PlacingIsDone ==
  ASSUME NEW from \in Seq(AllResults), NEW o, Permutes(o, Len(from)), NEW p, NEW M,
         Placing(from, o, p, M), Placed(p)
  PROVE  p.list = Arranged(from, o)
<1> DEFINE n == Len(from)
<1>1. /\ Len(p.list) = n /\ p.list \in Seq(AllResults) /\ p.i = n + 1 /\ 1 .. n \subseteq M
      /\ M \subseteq 1 .. n
  BY DEF Placing, SameResults, Placed
<1>2. \A k \in 1 .. n : p.list[k] = from[o[k]]
  BY <1>1 DEF Placing, BetweenCycles, InCycle
<1>3. Arranged(from, o) = [k \in 1 .. n |-> from[o[k]]]
  BY DEF Arranged, Permutes
<1>4. p.list = [k \in 1 .. n |-> p.list[k]]
  BY <1>1
<1> QED BY <1>2, <1>3, <1>4

-----------------------------------------------------------------------------
(***************************************************************************)
(* What a column is sorted by.                                             *)
(***************************************************************************)
LEMMA ResultKnows ==
  ASSUME NEW r \in AllResults
  PROVE  /\ r.depth \in Nat /\ File(r).name \in Nat /\ File(r).bulkiness \in Nat
         /\ File(r).length \in Nat /\ File(r).length < 2 ^ SizeBits \div 2
         /\ File(r).allocated \in Nat /\ File(r).allocated < 2 ^ SizeBits \div 2
<1>0. PICK d \in Drives : \E v \in 1 .. Len(Tree[d]) : r = ResultOf(d, v)
  BY DEF AllResults
<1>1. PICK v \in 1 .. Len(Tree[d]) : r = ResultOf(d, v)
  BY <1>0
<1>2. r = [drive |-> d, visit |-> v, depth |-> Tree[d][v].depth] /\ r.depth = Tree[d][v].depth
  BY <1>1 DEF ResultOf
<1>3. LET file == File([drive |-> d, visit |-> v, depth |-> Tree[d][v].depth])
      IN /\ Tree[d][v].depth \in Nat
         /\ file.name \in Nat /\ file.bulkiness \in Nat
         /\ file.length \in Nat /\ file.length < 2 ^ SizeBits \div 2
         /\ file.allocated \in Nat /\ file.allocated < 2 ^ SizeBits \div 2
  BY FilesAssumption, Zenon
<1>4. File(r) = File([drive |-> d, visit |-> v, depth |-> Tree[d][v].depth])
  BY <1>2
<1> QED BY <1>2, <1>3, <1>4, Zenon

\* Moving zero to the middle keeps the order of what fits.
LEMMA MiddleIs ==
  ASSUME NEW w \in Int, NEW x \in Int, w \div 2 >= 1, 0 - (w \div 2) =< x, x < w \div 2
  PROVE  (x - w \div 2) % w = x - w \div 2 + w
<1> DEFINE a == x - w \div 2
<1>1. a \in Int /\ w \in Nat \ {0} /\ a < 0 /\ 0 - w =< a
  OBVIOUS
<1> HIDE DEF a
<1> DEFINE q == a \div w
           m == a % w
<1>2. q \in Int /\ m \in 0 .. w - 1 /\ a = w * q + m
  BY <1>1
<1> HIDE DEF q, m
<1>3. q < 0
  <2>1. q >= 0 => w * q >= 0
    BY <1>1, <1>2
  <2> QED BY <1>1, <1>2, <2>1
<1>4. q > 0 - 2
  <2>1. q =< 0 - 2 => w * q =< w * (0 - 2)
    BY <1>1, <1>2
  <2>2. w * (0 - 2) = 0 - 2 * w
    BY <1>1
  <2>3. w * q \in Int
    BY <1>1, <1>2
  <2> QED BY <1>1, <1>2, <2>1, <2>2, <2>3
<1>5. q = 0 - 1
  BY <1>2, <1>3, <1>4
<1>6. m = a + w
  <2>1. w * (0 - 1) = 0 - w
    BY <1>1
  <2> QED BY <1>1, <1>2, <1>5, <2>1
<1> QED BY <1>6 DEF a, m

\* The key of a result for a column that is sorted.
KeyOf(column, variation, r) ==
    IF column \in ByName THEN <<0, File(r).name>> ELSE Key(column, variation, r)

Deeper(variation, a, b) == variation.shift /\ a.depth > b.depth

\* The key is the value the column shows, below the level if Shift was held.
LEMMA KeyIs ==
  ASSUME NEW r \in AllResults, NEW s \in AllResults, NEW column \in ByName \cup ByKey,
         NEW variation \in Variations
  PROVE  /\ KeyOf(column, variation, r)[1] \in Int /\ KeyOf(column, variation, r)[2] \in Int
         /\ KeyOf(column, variation, r) =
              <<KeyOf(column, variation, r)[1], KeyOf(column, variation, r)[2]>>
         /\ Value(column, variation, r) \in Int
         /\ KeyOf(column, variation, r)[2] =< KeyOf(column, variation, s)[2] <=>
              Value(column, variation, r) =< Value(column, variation, s)
         /\ KeyOf(column, variation, r)[1] =
              IF column \in ByKey /\ variation.shift THEN 65535 - r.depth ELSE 0
<1> DEFINE w == 2 ^ SizeBits
<1>1. /\ r.depth \in Nat /\ File(r).name \in Nat /\ File(r).bulkiness \in Nat
      /\ File(r).length \in Nat /\ File(r).length < w \div 2
      /\ File(r).allocated \in Nat /\ File(r).allocated < w \div 2
      /\ s.depth \in Nat /\ File(s).name \in Nat /\ File(s).bulkiness \in Nat
      /\ File(s).length \in Nat /\ File(s).length < w \div 2
      /\ File(s).allocated \in Nat /\ File(s).allocated < w \div 2
  BY ResultKnows
<1>2. w \in Int
  BY SizeBitsAssumption
<1> HIDE DEF w
<1>3. w \div 2 \in Int /\ w \div 2 >= 1
  BY <1>1, <1>2
<1>4. /\ Saved(r) \in Int /\ Saved(r) = File(r).length - File(r).allocated
      /\ (File(r).length - File(r).allocated - w \div 2) % w = Saved(r) - w \div 2 + w
      /\ Saved(s) \in Int /\ Saved(s) = File(s).length - File(s).allocated
      /\ (File(s).length - File(s).allocated - w \div 2) % w = Saved(s) - w \div 2 + w
  <2>1. ASSUME NEW l \in Nat, NEW a \in Nat, l < w \div 2, a < w \div 2
        PROVE  l - a \in Int /\ (l - a - w \div 2) % w = (l - a) - w \div 2 + w
    <3>1. l - a \in Int /\ 0 - (w \div 2) =< l - a /\ l - a < w \div 2
      BY <1>3, <2>1
    <3> QED BY <1>2, <1>3, <3>1, MiddleIs
  <2> QED BY <1>1, <2>1 DEF Saved
<1>5. ASSUME NEW x \in Int, NEW y \in Int, column \in ByKey,
             KeyOf(column, variation, r) = <<IF variation.shift THEN 65535 - r.depth ELSE 0, x>>,
             KeyOf(column, variation, s) = <<IF variation.shift THEN 65535 - s.depth ELSE 0, y>>,
             Value(column, variation, r) \in Int, Value(column, variation, s) \in Int,
             x =< y <=> Value(column, variation, r) =< Value(column, variation, s)
      PROVE  /\ KeyOf(column, variation, r)[1] \in Int /\ KeyOf(column, variation, r)[2] \in Int
             /\ KeyOf(column, variation, r) =
                  <<KeyOf(column, variation, r)[1], KeyOf(column, variation, r)[2]>>
             /\ Value(column, variation, r) \in Int
             /\ KeyOf(column, variation, r)[2] =< KeyOf(column, variation, s)[2] <=>
                  Value(column, variation, r) =< Value(column, variation, s)
             /\ KeyOf(column, variation, r)[1] =
                  IF column \in ByKey /\ variation.shift THEN 65535 - r.depth ELSE 0
  BY <1>1, <1>5
<1>11. CASE column = "name"
  <2>1. /\ KeyOf(column, variation, r) = <<0, File(r).name>>
        /\ Value(column, variation, r) = File(r).name
        /\ KeyOf(column, variation, s) = <<0, File(s).name>>
        /\ Value(column, variation, s) = File(s).name
    BY <1>11 DEF KeyOf, ByName, Value
  <2>2. column \notin ByKey
    BY <1>11 DEF ByKey
  <2> QED BY <1>1, <2>1, <2>2
<1>6. CASE column = "size" /\ variation.alt
  <2>1. /\ KeyOf(column, variation, r) =
             <<IF variation.shift THEN 65535 - r.depth ELSE 0, Saved(r) - w \div 2 + w>>
        /\ Value(column, variation, r) = Saved(r)
    <3>1. KeyOf(column, variation, r) =
            <<IF variation.shift THEN 65535 - r.depth ELSE 0,
              (File(r).length - File(r).allocated - w \div 2) % w>>
      BY <1>6 DEF KeyOf, ByName, Key, w
    <3>2. Value(column, variation, r) = Saved(r)
      BY <1>6 DEF Value
    <3>3. (File(r).length - File(r).allocated - w \div 2) % w = Saved(r) - w \div 2 + w
      BY <1>4
    <3> QED BY <3>1, <3>2, <3>3
  <2>2. /\ KeyOf(column, variation, s) =
             <<IF variation.shift THEN 65535 - s.depth ELSE 0, Saved(s) - w \div 2 + w>>
        /\ Value(column, variation, s) = Saved(s)
    <3>1. KeyOf(column, variation, s) =
            <<IF variation.shift THEN 65535 - s.depth ELSE 0,
              (File(s).length - File(s).allocated - w \div 2) % w>>
      BY <1>6 DEF KeyOf, ByName, Key, w
    <3>2. Value(column, variation, s) = Saved(s)
      BY <1>6 DEF Value
    <3>3. (File(s).length - File(s).allocated - w \div 2) % w = Saved(s) - w \div 2 + w
      BY <1>4
    <3> QED BY <3>1, <3>2, <3>3
  <2>3. column \in ByKey
    BY <1>6 DEF ByKey
  <2>4. /\ Saved(r) - w \div 2 + w \in Int /\ Saved(s) - w \div 2 + w \in Int
        /\ Saved(r) - w \div 2 + w =< Saved(s) - w \div 2 + w <=> Saved(r) =< Saved(s)
        /\ Saved(r) \in Int /\ Saved(s) \in Int
    BY <1>2, <1>3, <1>4
  <2> HIDE DEF w
  <2> QED BY <1>5, <2>1, <2>2, <2>3, <2>4
<1>7. CASE column = "size" /\ ~variation.alt
  <2>1. \A t : /\ KeyOf(column, variation, t) =
                     <<IF variation.shift THEN 65535 - t.depth ELSE 0, File(t).length>>
              /\ Value(column, variation, t) = File(t).length
    BY <1>7 DEF KeyOf, ByName, Key, Value, w
  <2>2. /\ KeyOf(column, variation, r) =
             <<IF variation.shift THEN 65535 - r.depth ELSE 0, File(r).length>>
        /\ Value(column, variation, r) = File(r).length
    BY <2>1
  <2>3. /\ KeyOf(column, variation, s) =
             <<IF variation.shift THEN 65535 - s.depth ELSE 0, File(s).length>>
        /\ Value(column, variation, s) = File(s).length
    BY <2>1
  <2>4. column \in ByKey
    BY <1>7 DEF ByKey
  <2> QED BY <1>1, <1>3, <1>4, <1>5, <2>2, <2>3, <2>4
<1>8. CASE column = "allocated" /\ variation.alt
  <2>1. \A t : /\ KeyOf(column, variation, t) =
                     <<IF variation.shift THEN 65535 - t.depth ELSE 0, File(t).bulkiness>>
              /\ Value(column, variation, t) = File(t).bulkiness
    BY <1>8 DEF KeyOf, ByName, Key, Value, w
  <2>2. /\ KeyOf(column, variation, r) =
             <<IF variation.shift THEN 65535 - r.depth ELSE 0, File(r).bulkiness>>
        /\ Value(column, variation, r) = File(r).bulkiness
    BY <2>1
  <2>3. /\ KeyOf(column, variation, s) =
             <<IF variation.shift THEN 65535 - s.depth ELSE 0, File(s).bulkiness>>
        /\ Value(column, variation, s) = File(s).bulkiness
    BY <2>1
  <2>4. column \in ByKey
    BY <1>8 DEF ByKey
  <2> QED BY <1>1, <1>3, <1>4, <1>5, <2>2, <2>3, <2>4
<1>9. CASE column = "allocated" /\ ~variation.alt
  <2>1. \A t : /\ KeyOf(column, variation, t) =
                     <<IF variation.shift THEN 65535 - t.depth ELSE 0, File(t).allocated>>
              /\ Value(column, variation, t) = File(t).allocated
    BY <1>9 DEF KeyOf, ByName, Key, Value, w
  <2>2. /\ KeyOf(column, variation, r) =
             <<IF variation.shift THEN 65535 - r.depth ELSE 0, File(r).allocated>>
        /\ Value(column, variation, r) = File(r).allocated
    BY <2>1
  <2>3. /\ KeyOf(column, variation, s) =
             <<IF variation.shift THEN 65535 - s.depth ELSE 0, File(s).allocated>>
        /\ Value(column, variation, s) = File(s).allocated
    BY <2>1
  <2>4. column \in ByKey
    BY <1>9 DEF ByKey
  <2> QED BY <1>1, <1>3, <1>4, <1>5, <2>2, <2>3, <2>4
<1>10. column \in {"name", "size", "allocated"}
  BY DEF ByName, ByKey
<1> QED BY <1>6, <1>7, <1>8, <1>9, <1>10, <1>11

\* Of two results that follow each other, what the arrow tells.
Follows(column, variation, a, b) ==
    \/ Deeper(variation, a, b)
    \/ ~Deeper(variation, b, a) /\ Value(column, variation, a) =< Value(column, variation, b)

LEMMA KeysFollow ==
  ASSUME NEW a \in AllResults, NEW b \in AllResults, NEW column \in ByName \cup ByKey,
         NEW variation \in Variations, column \in ByKey \/ ~variation.shift,
         ~KeyLess(KeyOf(column, variation, b), KeyOf(column, variation, a))
  PROVE  Follows(column, variation, a, b)
<1> DEFINE k == KeyOf(column, variation, a)
           l == KeyOf(column, variation, b)
<1>1. /\ k[1] \in Int /\ k[2] \in Int /\ l[1] \in Int /\ l[2] \in Int
      /\ k[2] =< l[2] <=> Value(column, variation, a) =< Value(column, variation, b)
      /\ k[1] = IF column \in ByKey /\ variation.shift THEN 65535 - a.depth ELSE 0
      /\ l[1] = IF column \in ByKey /\ variation.shift THEN 65535 - b.depth ELSE 0
  BY KeyIs
<1>2. k[1] < l[1] \/ (k[1] = l[1] /\ k[2] =< l[2])
  <2> HIDE DEF k, l
  <2>1. ~KeyLess(l, k)
    BY DEF k, l
  <2> QED BY <1>1, <2>1 DEF KeyLess
<1>3. a.depth \in Nat /\ b.depth \in Nat
  BY ResultKnows
<1> HIDE DEF k, l
<1>4. variation.shift => column \in ByKey
  OBVIOUS
<1> QED BY <1>1, <1>2, <1>3, <1>4 DEF Follows, Deeper

\* The order of the positions is a permutation, and in it each key is followed by one
\* that is not less.
LEMMA OrderIs ==
  ASSUME NEW list \in Seq(AllResults), NEW column \in ByName \cup ByKey, NEW variation \in Variations
  PROVE  /\ Permutes(Order(list, column, variation), Len(list))
         /\ \A k, l \in 1 .. Len(list) : k < l =>
              ~KeyLess(KeyOf(column, variation, list[Order(list, column, variation)[l]]),
                       KeyOf(column, variation, list[Order(list, column, variation)[k]]))
<1> DEFINE n == Len(list)
           key == [i \in 1 .. n |-> KeyOf(column, variation, list[i])]
           R == {p \in (1 .. n) \X (1 .. n) :
                    \/ KeyLess(key[p[1]], key[p[2]])
                    \/ ~KeyLess(key[p[2]], key[p[1]]) /\ p[1] < p[2]}
           o == Order(list, column, variation)
<1>1. o = Ranked(1 .. n, R) /\ DOMAIN list = 1 .. n /\ n \in Nat
  <2>1. DOMAIN list = 1 .. n /\ n \in Nat
    OBVIOUS
  <2>2. key = [i \in DOMAIN list |->
          IF column \in ByName THEN <<0, File(list[i]).name>> ELSE Key(column, variation, list[i])]
    BY <2>1 DEF KeyOf
  <2> HIDE DEF key
  <2>3. o = Ranked(DOMAIN list, {p \in (DOMAIN list) \X (DOMAIN list) :
                                  \/ KeyLess(key[p[1]], key[p[2]])
                                  \/ ~KeyLess(key[p[2]], key[p[1]]) /\ p[1] < p[2]})
    BY <2>2, Zenon DEF Order
  <2> QED BY <2>1, <2>3
<1>2. \A i \in 1 .. n : key[i][1] \in Int /\ key[i][2] \in Int
  <2>1. \A i \in 1 .. n : list[i] \in AllResults
    OBVIOUS
  <2> QED BY <2>1, KeyIs
<1>3. \A i, j \in 1 .. n : <<i, j>> \in R <=>
        \/ KeyLess(key[i], key[j])
        \/ ~KeyLess(key[j], key[i]) /\ i < j
  OBVIOUS
<1>4. \A k \in 1 .. n : key[k] = KeyOf(column, variation, list[k])
  OBVIOUS
<1> HIDE DEF key, R, o, n
<1>5. IsOrder(R, 1 .. n)
  <2>1. ASSUME NEW i \in 1 .. n PROVE <<i, i>> \notin R
    BY <1>1, <1>2, <1>3, <2>1 DEF KeyLess
  <2>2. ASSUME NEW i \in 1 .. n, NEW j \in 1 .. n, i # j PROVE <<i, j>> \in R \/ <<j, i>> \in R
    BY <1>1, <1>3, <2>2
  <2>3. ASSUME NEW i \in 1 .. n, NEW j \in 1 .. n, NEW k \in 1 .. n, <<i, j>> \in R, <<j, k>> \in R
        PROVE  <<i, k>> \in R
    <3> DEFINE a == key[i]
               b == key[j]
               c == key[k]
    <3>1. /\ a[1] \in Int /\ a[2] \in Int /\ b[1] \in Int /\ b[2] \in Int
          /\ c[1] \in Int /\ c[2] \in Int
      BY <1>2
    <3>2. /\ KeyLess(a, b) \/ (~KeyLess(b, a) /\ i < j)
          /\ KeyLess(b, c) \/ (~KeyLess(c, b) /\ j < k)
      BY <1>3, <2>3
    <3> HIDE DEF a, b, c
    <3>3. KeyLess(a, c) \/ (~KeyLess(c, a) /\ i < k)
      BY <1>1, <3>1, <3>2 DEF KeyLess
    <3> QED BY <1>3, <3>3 DEF a, c
  <2> QED BY <2>1, <2>2, <2>3 DEF IsOrder
<1>6. IsFiniteSet(1 .. n) /\ Cardinality(1 .. n) = n
  BY <1>1, FS_Interval
<1>7. /\ o \in [1 .. n -> 1 .. n]
      /\ \A k, l \in 1 .. n : k < l => <<o[k], o[l]>> \in R
      /\ \A i \in 1 .. n : \E k \in 1 .. n : o[k] = i
  <2> DEFINE S == 1 .. n
  <2>1. IsFiniteSet(S) /\ IsOrder(R, S) /\ Cardinality(S) = n
    BY <1>5, <1>6
  <2> HIDE DEF S
  <2>2. /\ Ranked(S, R) \in [1 .. n -> S]
        /\ \A k, l \in 1 .. n : k < l => <<Ranked(S, R)[k], Ranked(S, R)[l]>> \in R
        /\ \A i \in S : \E k \in 1 .. n : Ranked(S, R)[k] = i
    BY <2>1, RankedIs
  <2> QED BY <1>1, <2>2 DEF S
<1>8. ASSUME NEW k \in 1 .. n, NEW l \in 1 .. n, k < l
      PROVE  ~KeyLess(key[o[l]], key[o[k]]) /\ o[k] # o[l]
  <2>1. o[k] \in 1 .. n /\ o[l] \in 1 .. n /\ <<o[k], o[l]>> \in R
    BY <1>7, <1>8
  <2> DEFINE a == key[o[k]]
             b == key[o[l]]
  <2>2. KeyLess(a, b) \/ (~KeyLess(b, a) /\ o[k] < o[l])
    BY <1>3, <2>1
  <2>3. a[1] \in Int /\ a[2] \in Int /\ b[1] \in Int /\ b[2] \in Int
    BY <1>2, <2>1
  <2>4. o[k] # o[l]
    BY <1>5, <2>1 DEF IsOrder
  <2> HIDE DEF a, b
  <2>5. ~KeyLess(b, a)
    BY <2>2, <2>3 DEF KeyLess
  <2> QED BY <2>4, <2>5 DEF a, b
<1>9. Permutes(o, n)
  <2>1. \A k, l \in 1 .. n : o[k] = o[l] => k = l
    BY <1>1, <1>8
  <2> QED BY <1>7, <2>1 DEF Permutes
<1>10. \A k, l \in 1 .. n : k < l =>
         ~KeyLess(KeyOf(column, variation, list[o[l]]), KeyOf(column, variation, list[o[k]]))
  BY <1>4, <1>7, <1>8
<1> QED BY <1>9, <1>10 DEF o, n

InOrder(list, column, variation) ==
    \A i \in 1 .. Len(list) - 1 : Follows(column, variation, list[i], list[i + 1])

\* What a list is rearranged by moves no result away.
LEMMA SortedIs ==
  ASSUME NEW list \in Seq(AllResults), NEW column \in ByName \cup ByKey, NEW variation \in Variations
  PROVE  LET sorted == Arranged(list, Order(list, column, variation))
         IN /\ sorted \in Seq(AllResults) /\ Len(sorted) = Len(list)
            /\ column \in ByKey \/ ~variation.shift => InOrder(sorted, column, variation)
<1> DEFINE n == Len(list)
           o == Order(list, column, variation)
           sorted == Arranged(list, o)
<1>1. /\ o \in [1 .. n -> 1 .. n] /\ n \in Nat /\ DOMAIN list = 1 .. n
      /\ \A k, l \in 1 .. n : k < l =>
           ~KeyLess(KeyOf(column, variation, list[o[l]]), KeyOf(column, variation, list[o[k]]))
  BY OrderIs DEF Permutes
<1> HIDE DEF o
<1>2. /\ sorted \in Seq(AllResults) /\ Len(sorted) = n
      /\ \A k \in 1 .. n : sorted[k] = list[o[k]]
  BY <1>1, ArrangedIs
<1> HIDE DEF sorted, n
<1>3. ASSUME column \in ByKey \/ ~variation.shift, NEW i \in 1 .. n - 1
      PROVE  Follows(column, variation, sorted[i], sorted[i + 1])
  <2>1. i \in 1 .. n /\ i + 1 \in 1 .. n /\ i < i + 1
    BY <1>1
  <2>2. sorted[i] \in AllResults /\ sorted[i + 1] \in AllResults
    BY <1>2, <2>1
  <2>3. ~KeyLess(KeyOf(column, variation, sorted[i + 1]), KeyOf(column, variation, sorted[i]))
    BY <1>1, <1>2, <2>1
  <2> QED BY <1>3, <2>2, <2>3, KeysFollow
<1>4. column \in ByKey \/ ~variation.shift => InOrder(sorted, column, variation)
  BY <1>2, <1>3 DEF InOrder
<1> QED BY <1>2, <1>4 DEF sorted, o, n

\* Twice turned is not turned.
LEMMA TurnedIs ==
  ASSUME NEW list \in Seq(AllResults), NEW upwards
  PROVE  /\ Turned(list, upwards) \in Seq(AllResults) /\ Len(Turned(list, upwards)) = Len(list)
         /\ Turned(Turned(list, upwards), upwards) = list
BY ReverseIs DEF Turned

\* A list that is sorted the other way need only be turned.
LEMMA SortedAlready ==
  ASSUME NEW list \in Seq(AllResults), NEW column \in ByName \cup ByKey, NEW variation \in Variations,
         column \in ByKey \/ ~variation.shift, NEW upwards,
         IsSortedEx(list, column, variation, upwards)
  PROVE  InOrder(Turned(Reverse(list), upwards), column, variation)
<1> DEFINE n == Len(list)
           turned == Reverse(list)
<1>1. /\ turned \in Seq(AllResults) /\ Len(turned) = n /\ n \in Nat /\ Reverse(turned) = list
      /\ \A i \in 1 .. n : turned[i] = list[n - i + 1]
  BY ReverseIs
<1> HIDE DEF turned, n
<1>2. ASSUME NEW a \in AllResults, NEW b \in AllResults, ~Less(column, variation, b, a)
      PROVE  Follows(column, variation, a, b)
  <2>1. ~KeyLess(KeyOf(column, variation, b), KeyOf(column, variation, a))
    <3>1. CASE column \in ByName
      <4>1. ~(File(b).name < File(a).name)
        BY <1>2, <3>1 DEF Less
      <4>2. /\ KeyOf(column, variation, a) = <<0, File(a).name>>
            /\ KeyOf(column, variation, b) = <<0, File(b).name>>
        BY <3>1 DEF KeyOf
      <4> QED BY <4>1, <4>2 DEF KeyLess
    <3>2. CASE column \notin ByName
      BY <1>2, <3>2 DEF Less, KeyOf
    <3> QED BY <3>1, <3>2
  <2> QED BY <2>1, KeysFollow
<1>3. CASE upwards
  <2>1. ASSUME NEW i \in 1 .. n - 1 PROVE Follows(column, variation, turned[i], turned[i + 1])
    <3>1. n - i \in 1 .. n - 1 /\ i \in 1 .. n /\ i + 1 \in 1 .. n
          /\ n - i + 1 \in 1 .. n /\ n - i \in 1 .. n /\ n - (i + 1) + 1 = n - i
      BY <1>1
    <3>2. turned[i] = list[(n - i) + 1] /\ turned[i + 1] = list[n - i]
      BY <1>1, <3>1
    <3>3. ~Less(column, variation, list[n - i], list[(n - i) + 1])
      BY <1>3, <3>1 DEF IsSortedEx, n
    <3>4. turned[i] \in AllResults /\ turned[i + 1] \in AllResults
      BY <1>1, <3>1
    <3> QED BY <1>2, <3>2, <3>3, <3>4
  <2>2. Turned(turned, upwards) = turned
    BY <1>3 DEF Turned
  <2> QED BY <1>1, <2>1, <2>2 DEF InOrder, turned
<1>4. CASE ~upwards
  <2>1. ASSUME NEW i \in 1 .. n - 1 PROVE Follows(column, variation, list[i], list[i + 1])
    <3>1. ~Less(column, variation, list[i + 1], list[i])
      BY <1>4 DEF IsSortedEx, n
    <3>2. list[i] \in AllResults /\ list[i + 1] \in AllResults
      BY <1>1 DEF n
    <3> QED BY <1>2, <3>1, <3>2
  <2>2. Turned(turned, upwards) = list
    BY <1>1, <1>4 DEF Turned
  <2> QED BY <2>1, <2>2 DEF InOrder, turned, n
<1> QED BY <1>3, <1>4

-----------------------------------------------------------------------------
(***************************************************************************)
(* The list: it always has results, a sort under way is as it should be,   *)
(* and an arrow points at a list that is sorted.                           *)
(***************************************************************************)
SortUnderWay ==
    /\ DOMAIN sorting = {"column", "variation", "upwards", "from", "placing"}
    /\ sorting.column \in ByKey /\ sorting.variation \in Variations
    /\ sorting.from \in Seq(AllResults)
    /\ results = Reverse(sorting.placing.list)
    /\ \E M : Placing(sorting.from, Order(sorting.from, sorting.column, sorting.variation),
                      sorting.placing, M)

ArrowInv ==
    arrow.up # 0 /\ (arrow.column \in ByKey \/ ~lastSort.variation.shift) =>
        InOrder(Turned(List, arrow.up = 1), arrow.column, lastSort.variation)

SortInv ==
    /\ results \in Seq(AllResults)
    /\ pc = "sorting" => SortUnderWay
    /\ pc # "sorting" => ArrowInv
    /\ pc \in {"collect"} \cup SearchPcs => arrow.up = 0

LEMMA QuietSort ==
  ASSUME SortInv, results' = results, UNCHANGED sortVars, pc = "sorting" <=> pc' = "sorting",
         pc' \in {"collect"} \cup SearchPcs => pc \in {"collect"} \cup SearchPcs
  PROVE  SortInv'
<1>1. SortUnderWay => SortUnderWay'
  BY DEF SortUnderWay, sortVars
<1>2. ArrowInv => ArrowInv'
  BY DEF ArrowInv, sortVars, List
<1> QED BY <1>1, <1>2 DEF SortInv, sortVars

\* Without an arrow there is nothing to tell.
LEMMA NoArrowSort ==
  ASSUME results' \in Seq(AllResults), pc' # "sorting", arrow'.up = 0
  PROVE  SortInv'
BY DEF SortInv, ArrowInv

\* Every step that puts up an arrow.
LEMMA CompletedSort ==
  ASSUME NEW sorted \in Seq(AllResults), NEW upwards, NEW column \in ByName \cup ByKey,
         NEW variation \in Variations, results' = Reverse(Turned(sorted, upwards)),
         column \in ByKey \/ ~variation.shift => InOrder(sorted, column, variation),
         Completed(column, variation, Direction(upwards)), pc' = "idle"
  PROVE  SortInv'
<1>1. results' \in Seq(AllResults) /\ List' = Turned(sorted, upwards)
  BY TurnedIs, ReverseIs DEF List
<1>2. arrow' = [column |-> column, up |-> Direction(upwards)] /\ lastSort'.variation = variation
  BY DEF Completed
<1>3. arrow'.column = column /\ (arrow'.up = 1 <=> upwards)
  BY <1>2 DEF Direction
<1>4. Turned(List', arrow'.up = 1) = sorted
  <2>1. Turned(List', arrow'.up = 1) = Turned(List', upwards)
    BY <1>3 DEF Turned
  <2> QED BY <1>1, <2>1, TurnedIs
<1>5. ArrowInv'
  BY <1>2, <1>3, <1>4 DEF ArrowInv
<1> QED BY <1>1, <1>5 DEF SortInv, SearchPcs

LEMMA ClickKeepsSort ==
  ASSUME SortInv, NEW column \in Columns, NEW variation \in Variations, Click(column, variation)
  PROVE  SortInv'
<1>1. /\ results \in Seq(AllResults) /\ List \in Seq(AllResults) /\ Len(List) = Len(results)
      /\ Reverse(List) = results /\ Reverse(results) = List
  BY ReverseIs DEF SortInv, List
<1>2. CASE ClickTurns(column, variation)
  <2> DEFINE u == Upwards(column, variation)
             sorted == Turned(Reverse(List), u)
  <2>1. /\ results' = List /\ column \in ByName \cup ByKey /\ pc' = "idle"
        /\ IsSortedEx(List, column, variation, u) /\ Completed(column, variation, Direction(u))
    BY <1>1, <1>2 DEF ClickTurns, searchVars
  <2>2. sorted \in Seq(AllResults) /\ Turned(sorted, u) = results
    BY <1>1, TurnedIs
  <2>3. column \in ByKey \/ ~variation.shift => InOrder(sorted, column, variation)
    BY <1>1, <2>1, SortedAlready
  <2>4. results' = Reverse(Turned(sorted, u))
    BY <1>1, <2>1, <2>2
  <2> HIDE DEF u, sorted
  <2> QED BY <2>1, <2>2, <2>3, <2>4, CompletedSort
<1>3. CASE ClickSorts(column, variation)
  <2> DEFINE u == Upwards(column, variation)
  <2>1. /\ column \in ByName /\ pc' = "idle" /\ Completed(column, variation, Direction(u))
        /\ \E order \in IF variation.shift THEN Bijection(DOMAIN results, DOMAIN results)
                        ELSE {Order(List, column, variation)} :
              results' = Reverse(Turned(Arranged(List, order), u))
    BY <1>3 DEF ClickSorts, searchVars
  <2> HIDE DEF u
  <2>2. CASE variation.shift
    <3>1. PICK order \in Bijection(DOMAIN results, DOMAIN results) :
                 results' = Reverse(Turned(Arranged(List, order), u))
      BY <2>1, <2>2
    <3>2. order \in [1 .. Len(List) -> DOMAIN List]
      <4>1. order \in [DOMAIN results -> DOMAIN results]
        BY <3>1 DEF Bijection, Injection
      <4> QED BY <1>1, <4>1
    <3>3. Arranged(List, order) \in Seq(AllResults)
      BY <1>1, <3>2, ArrangedIs
    <3>4. column \notin ByKey
      BY <2>1 DEF ByName, ByKey
    <3> QED BY <2>1, <2>2, <3>1, <3>3, <3>4, CompletedSort
  <2>3. CASE ~variation.shift
    <3> DEFINE sorted == Arranged(List, Order(List, column, variation))
    <3>1. results' = Reverse(Turned(sorted, u))
      BY <2>1, <2>3
    <3>2. /\ sorted \in Seq(AllResults)
          /\ column \in ByKey \/ ~variation.shift => InOrder(sorted, column, variation)
      BY <1>1, <2>1, SortedIs
    <3> HIDE DEF sorted
    <3> QED BY <2>1, <3>1, <3>2, CompletedSort
  <2> QED BY <2>2, <2>3
<1>4. CASE ClickPlaces(column, variation)
  <2> DEFINE o == Order(List, column, variation)
  <2>1. /\ column \in ByKey /\ pc' = "sorting" /\ results' = results
        /\ sorting' = [column |-> column, variation |-> variation, from |-> List,
                       upwards |-> Upwards(column, variation), placing |-> PlacingBegun(List, o)]
    BY <1>4 DEF ClickPlaces
  <2>2. Permutes(o, Len(List))
    BY <1>1, <2>1, OrderIs
  <2> HIDE DEF o
  <2>3. Placing(List, o, PlacingBegun(List, o), {})
    BY <1>1, <2>2, PlacingBegins
  <2>4. /\ DOMAIN sorting' = {"column", "variation", "upwards", "from", "placing"}
        /\ sorting'.column = column /\ sorting'.variation = variation /\ sorting'.from = List
        /\ sorting'.placing = PlacingBegun(List, o)
    BY <2>1
  <2>5. sorting'.placing.list = List
    BY <2>4 DEF PlacingBegun
  <2>6. SortUnderWay'
    BY <1>1, <2>1, <2>3, <2>4, <2>5 DEF SortUnderWay, o
  <2> QED BY <1>1, <2>1, <2>6 DEF SortInv, SearchPcs
<1>5. CASE ClickNothing(column, variation)
  <2>1. /\ results' = results /\ pc' = "idle"
        /\ arrow' = [column |-> column, up |-> 0]
    BY <1>5 DEF ClickNothing, searchVars, Completed
  <2> QED BY <1>1, <2>1, NoArrowSort
<1>6. CASE ClickStopped(column, variation)
  <2>1. /\ results' = results \/ results' \in [DOMAIN results -> Range(results)]
        /\ pc' = "idle" /\ arrow' = [column |-> column, up |-> 0]
    BY <1>6 DEF ClickStopped, searchVars
  <2>2. Range(results) \subseteq AllResults /\ DOMAIN results = 1 .. Len(results) /\ Len(results) \in Nat
    BY <1>1 DEF Range
  <2>3. results' \in Seq(AllResults)
    <3>1. CASE results' = results
      BY <1>1, <3>1
    <3>2. CASE results' \in [DOMAIN results -> Range(results)]
      <4>1. results' \in [1 .. Len(results) -> AllResults]
        BY <2>2, <3>2
      <4> QED BY <2>2, <4>1
    <3> QED BY <2>1, <3>1, <3>2
  <2> QED BY <2>1, <2>3, NoArrowSort
<1> QED BY <1>2, <1>3, <1>4, <1>5, <1>6 DEF Click

\* The permutation a sort under way follows.
LEMMA SortUnderWayIs ==
  ASSUME SortUnderWay
  PROVE  /\ Permutes(Order(sorting.from, sorting.column, sorting.variation), Len(sorting.from))
         /\ sorting.placing.list \in Seq(AllResults)
         /\ List = sorting.placing.list
<1>1. Permutes(Order(sorting.from, sorting.column, sorting.variation), Len(sorting.from))
  BY OrderIs DEF SortUnderWay
<1>2. sorting.placing.list \in Seq(AllResults)
  BY DEF SortUnderWay, Placing, SameResults
<1> QED BY <1>1, <1>2, ReverseIs DEF SortUnderWay, List

LEMMA PlaceKeepsSort == ASSUME SortInv, Place PROVE SortInv'
<1> DEFINE o == Order(sorting.from, sorting.column, sorting.variation)
           p == sorting.placing
<1>1. /\ pc = "sorting" /\ pc' = "sorting" /\ ~Placed(p)
      /\ sorting' = [sorting EXCEPT !.placing = PlaceNext(@)]
      /\ results' = Reverse(sorting'.placing.list) /\ SortUnderWay
  BY DEF Place, searchVars, SortInv
<1>2. /\ DOMAIN sorting = {"column", "variation", "upwards", "from", "placing"}
      /\ sorting.column \in ByKey /\ sorting.variation \in Variations
      /\ sorting.from \in Seq(AllResults) /\ Permutes(o, Len(sorting.from))
      /\ \E M : Placing(sorting.from, o, p, M)
  BY <1>1, SortUnderWayIs DEF SortUnderWay
<1>3. /\ DOMAIN sorting' = DOMAIN sorting /\ sorting'.column = sorting.column
      /\ sorting'.variation = sorting.variation /\ sorting'.from = sorting.from
      /\ sorting'.placing = PlaceNext(p)
  BY <1>1, <1>2
<1> HIDE DEF o, p
<1>4. PICK M : Placing(sorting.from, o, p, M)
  BY <1>2
<1>5. Placing(sorting.from, o, PlaceNext(p), M \cup {p.j})
  BY <1>1, <1>2, <1>4, PlacingGoesOn
<1>6. \E N : Placing(sorting.from, o, PlaceNext(p), N)
  BY <1>5
<1>7. SortUnderWay'
  <2>1. o = Order(sorting'.from, sorting'.column, sorting'.variation)
    BY <1>3 DEF o
  <2> QED BY <1>1, <1>2, <1>3, <1>6, <2>1 DEF SortUnderWay
<1>8. results' \in Seq(AllResults)
  BY <1>1, <1>7, SortUnderWayIs, ReverseIs, <1>3, <1>5 DEF Placing, SameResults
<1> QED BY <1>1, <1>7, <1>8 DEF SortInv, SearchPcs

LEMMA PlaceEndsKeepsSort == ASSUME SortInv, PlaceEnds PROVE SortInv'
<1> DEFINE from == sorting.from
           column == sorting.column
           variation == sorting.variation
           p == sorting.placing
           o == Order(from, column, variation)
           u == sorting.upwards
<1>1. /\ Placed(p) /\ pc' = "idle" /\ results' = Reverse(Turned(List, u))
      /\ Completed(column, variation, Direction(u)) /\ SortUnderWay
  BY DEF PlaceEnds, SortInv
<1>2. /\ column \in ByKey /\ variation \in Variations /\ from \in Seq(AllResults)
      /\ Permutes(o, Len(from)) /\ List = p.list
      /\ \E M : Placing(from, o, p, M)
  BY <1>1, SortUnderWayIs DEF SortUnderWay
<1>3. /\ Arranged(from, o) \in Seq(AllResults)
      /\ column \in ByKey \/ ~variation.shift => InOrder(Arranged(from, o), column, variation)
  <2> HIDE DEF from, column, variation
  <2> QED BY <1>2, SortedIs DEF o
<1> HIDE DEF from, column, variation, p, o, u
<1>4. PICK M : Placing(from, o, p, M)
  BY <1>2
<1>5. List = Arranged(from, o)
  BY <1>1, <1>2, <1>4, PlacingIsDone
<1> QED BY <1>1, <1>2, <1>3, <1>5, CompletedSort

LEMMA VisitKeepsSort ==
  ASSUME DialogInv, SortInv, NEW looks, Visit(looks), arrow' = arrow
  PROVE  SortInv'
<1> DEFINE v == search.current + 1
           visit == Tree[Current][v]
           row == [drive |-> Current, visit |-> v, depth |-> visit.depth]
<1>1. /\ pc = "search" /\ pc' = pc /\ search.current < index[Current].names
      /\ results' = IF visit.match THEN Append(results, row) ELSE results
  BY DEF Visit
<1>2. Current \in Drives /\ v \in 1 .. Len(Tree[Current])
  <2>1. /\ search.signaled \in DOMAIN search.indices /\ search.indices \in Seq(Drives)
        /\ search.current \in 0 .. index[Current].names
    BY <1>1 DEF DialogInv, ListInv
  <2>2. Current \in Drives
    BY <2>1 DEF Current
  <2>3. index[Current].names \in 0 .. Len(Tree[Current]) /\ Len(Tree[Current]) \in Nat
    BY <2>2, DrivesAssumption DEF DialogInv, DrivesInv
  <2> QED BY <1>1, <2>1, <2>2, <2>3
<1>3. row \in AllResults
  BY <1>2, ResultIs DEF ResultOf
<1> HIDE DEF row
<1>4. results' \in Seq(AllResults)
  BY <1>1, <1>3 DEF SortInv
<1> QED BY <1>1, <1>4 DEF SortInv, ArrowInv, SearchPcs

\* The results come from the deepest level to the root's.
LEMMA ByLevelIs ==
  ASSUME NEW found \in Seq(AllResults)
  PROVE  ByLevel(found) \in Seq(AllResults)
<1> DEFINE n == Len(found)
           depth == [i \in 1 .. n |-> found[i].depth]
           R == {p \in (1 .. n) \X (1 .. n) :
                    \/ depth[p[1]] > depth[p[2]]
                    \/ depth[p[1]] = depth[p[2]] /\ p[1] > p[2]}
<1>1. DOMAIN found = 1 .. n /\ n \in Nat
  OBVIOUS
<1>2. \A i \in 1 .. n : depth[i] \in Nat /\ depth[i] = found[i].depth
  <2>1. \A i \in 1 .. n : found[i] \in AllResults
    OBVIOUS
  <2> QED BY <2>1, ResultKnows
<1>3. ByLevel(found) = Arranged(found, Ranked(1 .. n, R))
  <2>1. R = {p \in (DOMAIN found) \X (DOMAIN found) :
               \/ found[p[1]].depth > found[p[2]].depth
               \/ found[p[1]].depth = found[p[2]].depth /\ p[1] > p[2]}
    BY <1>1, <1>2
  <2> HIDE DEF R
  <2> QED BY <1>1, <2>1, Zenon DEF ByLevel
<1>4. \A i, j \in 1 .. n : <<i, j>> \in R <=>
        depth[i] > depth[j] \/ (depth[i] = depth[j] /\ i > j)
  OBVIOUS
<1> HIDE DEF depth, R, n
<1>5. IsOrder(R, 1 .. n)
  <2>1. ASSUME NEW i \in 1 .. n PROVE <<i, i>> \notin R
    BY <1>1, <1>2, <1>4
  <2>2. ASSUME NEW i \in 1 .. n, NEW j \in 1 .. n, i # j PROVE <<i, j>> \in R \/ <<j, i>> \in R
    BY <1>1, <1>2, <1>4, <2>2
  <2>3. ASSUME NEW i \in 1 .. n, NEW j \in 1 .. n, NEW k \in 1 .. n, <<i, j>> \in R, <<j, k>> \in R
        PROVE  <<i, k>> \in R
    <3>1. depth[i] \in Nat /\ depth[j] \in Nat /\ depth[k] \in Nat
      BY <1>2
    <3>2. /\ depth[i] > depth[j] \/ (depth[i] = depth[j] /\ i > j)
          /\ depth[j] > depth[k] \/ (depth[j] = depth[k] /\ j > k)
      BY <1>4, <2>3
    <3> QED BY <1>1, <1>4, <3>1, <3>2
  <2> QED BY <2>1, <2>2, <2>3 DEF IsOrder
<1>6. IsFiniteSet(1 .. n) /\ Cardinality(1 .. n) = n
  BY <1>1, FS_Interval
<1>7. Ranked(1 .. n, R) \in [1 .. n -> DOMAIN found]
  <2> DEFINE S == 1 .. n
  <2>1. IsFiniteSet(S) /\ IsOrder(R, S) /\ Cardinality(S) = n
    BY <1>5, <1>6
  <2> HIDE DEF S
  <2>2. Ranked(S, R) \in [1 .. n -> S]
    BY <2>1, RankedIs
  <2> QED BY <1>1, <2>2 DEF S
<1> QED BY <1>1, <1>3, <1>7, ArrangedIs

LEMMA SortInvNext == DialogInv /\ SortInv /\ [Next]_vars => SortInv'
<1> SUFFICES ASSUME DialogInv, SortInv, [Next]_vars PROVE SortInv'
  OBVIOUS
<1>1. results \in Seq(AllResults) /\ <<>> \in Seq(AllResults)
  BY DEF SortInv
<1>2. ASSUME NEW selected, NEW byLevel, Search(selected, byLevel) PROVE SortInv'
  <2>1. results' = <<>> /\ pc' = "collect" /\ arrow' = NoArrow
    BY <1>2 DEF Search, Begin, Cleared
  <2> QED BY <1>1, <2>1, NoArrowSort DEF NoArrow
<1>3. ASSUME NEW selected, Refresh(selected) PROVE SortInv'
  <2>1. results' = <<>> /\ pc' = "idle" /\ arrow' = NoArrow
    BY <1>3 DEF Refresh, Cleared, searchVars
  <2> QED BY <1>1, <2>1, NoArrowSort DEF NoArrow
<1>4. ASSUME NEW column \in Columns, NEW variation \in Variations, Click(column, variation)
      PROVE  SortInv'
  BY <1>4, ClickKeepsSort
<1>5. ASSUME NEW mode, NEW selection, BeginExport(mode, selection) PROVE SortInv'
  BY <1>5, QuietSort DEF BeginExport, SearchPcs
<1>6. CASE PlaceStopped
  <2>1. results' = results /\ pc' = "idle" /\ arrow' = [column |-> sorting.column, up |-> 0]
    BY <1>6 DEF PlaceStopped
  <2> QED BY <1>1, <2>1, NoArrowSort
<1>7. CASE Stop /\ UNCHANGED listVars
  BY <1>7, QuietSort DEF Stop, listVars
<1>8. CASE Place
  BY <1>8, PlaceKeepsSort
<1>9. CASE PlaceEnds
  BY <1>9, PlaceEndsKeepsSort
<1>10. CASE SearchStep /\ UNCHANGED listVars
  <2>1. UNCHANGED sortVars
    BY <1>10 DEF listVars
  <2>2. CASE Collect \/ Lower
    <3>1. results' = results /\ pc = "collect" /\ pc' \in {"collect", "loop"}
      BY <2>2 DEF Collect, Lower
    <3> QED BY <2>1, <3>1, QuietSort DEF SearchPcs
  <2>3. CASE Raise \/ TimeOut \/ Wake \/ NoneLeft
    <3>1. results' = results /\ pc \in SearchPcs /\ pc' \in SearchPcs
      BY <2>3 DEF Raise, TimeOut, Wake, NoneLeft, SearchPcs
    <3> QED BY <2>1, <3>1, QuietSort DEF SearchPcs
  <2>4. ASSUME NEW looks, Visit(looks) PROVE SortInv'
    <3>1. arrow' = arrow
      BY <2>1 DEF sortVars
    <3> QED BY <2>4, <3>1, VisitKeepsSort
  <2>5. ASSUME NEW looks, Searched(looks) PROVE SortInv'
    BY <2>1, <2>5, QuietSort DEF Searched, SearchPcs
  <2>6. CASE End
    <3>1. /\ pc = "end" /\ pc' = "idle"
          /\ results' = IF search.byLevel THEN ByLevel(results) ELSE results
      BY <2>6 DEF End
    <3>2. results' \in Seq(AllResults)
      BY <1>1, <3>1, ByLevelIs
    <3>3. arrow'.up = 0
      BY <2>1, <3>1 DEF sortVars, SortInv, SearchPcs
    <3> QED BY <3>1, <3>2, <3>3, NoArrowSort
  <2> QED BY <1>10, <2>2, <2>3, <2>4, <2>5, <2>6 DEF SearchStep
<1>11. ASSUME NEW looks, NEW large, NEW stored, ExportRow(looks, large, stored) PROVE SortInv'
  BY <1>11, QuietSort DEF ExportRow, searchVars
<1>12. ASSUME NEW looks, ExportStops(looks) PROVE SortInv'
  BY <1>12, QuietSort DEF ExportStops, SearchPcs
<1>13. CASE ExportEnds \/ ExportClosed
  BY <1>13, QuietSort DEF ExportEnds, ExportClosed, SearchPcs
<1>14. ASSUME NEW d \in Drives, Drive(d) /\ UNCHANGED listVars PROVE SortInv'
  BY <1>14, QuietSort DEF Drive, searchVars, listVars
<1>15. CASE UNCHANGED vars
  BY <1>15, QuietSort DEF vars, searchVars, listVars
<1> QED BY <1>2, <1>3, <1>4, <1>5, <1>6, <1>7, <1>8, <1>9, <1>10, <1>11, <1>12, <1>13, <1>14, <1>15
        DEF Next, User, Thread

LEMMA SortInvariant == Spec => []SortInv
<1>1. Init => SortInv
  <2>1. ASSUME Init PROVE results = <<>> /\ pc = "idle" /\ arrow.up = 0
    BY <2>1 DEF Init, SearchInit, NoArrow
  <2> QED BY <2>1 DEF SortInv, ArrowInv, SearchPcs
<1>2. DialogInv /\ SortInv /\ [Next]_vars => SortInv'
  BY SortInvNext
<1> QED BY <1>1, <1>2, DialogInvariant, PTL DEF Spec

\* MainDialog!ArrowTells: whichever way the list came to be sorted - turned round
\* because it was sorted already, by the library, or in place - it is in the order
\* of what the column shows, also where sizes saved are negative.
THEOREM ArrowIsTrue == Spec => []ArrowTells
<1>1. SortInv => ArrowTells
  BY DEF SortInv, ArrowInv, ArrowTells, InOrder, Follows, Deeper
<1> QED BY <1>1, SortInvariant, PTL

\* MainDialog!PlacedStably: at any moment of a sort in place no result is lost or
\* doubled, and the positions passed have the results they shall have.
THEOREM SortLosesNothing == Spec => []PlacedStably
<1>1. SortInv => PlacedStably
  <2> DEFINE from == sorting.from
             p == sorting.placing
             o == Order(from, sorting.column, sorting.variation)
  <2> SUFFICES ASSUME SortUnderWay
               PROVE  /\ \A k \in 1 .. p.i - 1 : List[k] = from[o[k]]
                      /\ IsInjective(from) => IsInjective(List) /\ Range(List) = Range(from)
    BY DEF SortInv, PlacedStably
  <2>1. (\E M : Placing(from, o, p, M)) /\ List = p.list
    BY SortUnderWayIs DEF SortUnderWay
  <2> HIDE DEF from, p, o
  <2>2. PICK M : Placing(from, o, p, M)
    BY <2>1
  <2>3. ASSUME NEW k \in 1 .. p.i - 1 PROVE List[k] = from[o[k]]
    <3>1. k \in M /\ k # p.i /\ k \in 1 .. Len(from)
      BY <2>2 DEF Placing
    <3> QED BY <2>1, <2>2, <3>1 DEF Placing, BetweenCycles, InCycle
  <2> QED BY <2>1, <2>2, <2>3 DEF Placing, SameResults
<1> QED BY <1>1, SortInvariant, PTL

-----------------------------------------------------------------------------
(***************************************************************************)
(* Exporting: the file and line_buffer together hold the rows passed.      *)
(***************************************************************************)
ExportFields == {"mode", "rows", "next", "descriptor", "buffer", "file", "opened",
                 "clipboard", "lost", "end"}

ExportInv ==
    /\ DOMAIN export = ExportFields
    /\ export.mode = "save" =>
          /\ export.descriptor = 3
          /\ export.rows \in Seq(AllResults)
          /\ export.file \in Seq(AllResults) /\ export.buffer \in Seq(AllResults)
          /\ export.next \in 1 .. Len(export.rows) + 1
          /\ export.next > Len(export.rows) => export.buffer = <<>>
          /\ export.end = "whole" => export.next > Len(export.rows)
          /\ ~export.lost => export.file \o export.buffer = SubSeq(export.rows, 1, export.next - 1)

LEMMA NextRow ==
  ASSUME NEW T, NEW s \in Seq(T), NEW a \in Seq(T), NEW b \in Seq(T), NEW n \in 1 .. Len(s),
         a \o b = SubSeq(s, 1, n - 1)
  PROVE  a \o Append(b, s[n]) = SubSeq(s, 1, n) /\ Append(b, s[n]) \in Seq(T)
<1> DEFINE l == Append(b, s[n])
           t == SubSeq(s, 1, n)
           u == SubSeq(s, 1, n - 1)
<1>1. Len(s) \in Nat /\ n - 1 \in Nat /\ Len(a) \in Nat /\ Len(b) \in Nat /\ s[n] \in T
  OBVIOUS
<1>2. Len(u) = n - 1 /\ \A i \in 1 .. n - 1 : u[i] = s[i]
  BY <1>1
<1>3. t \in Seq(T) /\ Len(t) = n /\ \A i \in 1 .. n : t[i] = s[i]
  BY <1>1
<1>4. l \in Seq(T) /\ Len(l) = Len(b) + 1 /\ l[Len(b) + 1] = s[n] /\ \A i \in 1 .. Len(b) : l[i] = b[i]
  BY <1>1
<1>5. Len(a \o b) = Len(a) + Len(b)
      /\ \A i \in 1 .. Len(a) + Len(b) : (a \o b)[i] = IF i =< Len(a) THEN a[i] ELSE b[i - Len(a)]
  OBVIOUS
<1>6. Len(a) + Len(b) = n - 1 /\ a \o b = u
  BY <1>2, <1>5
<1> HIDE DEF l, t, u
<1>7. /\ a \o l \in Seq(T) /\ Len(a \o l) = n
      /\ \A i \in 1 .. n : (a \o l)[i] = IF i =< Len(a) THEN a[i] ELSE l[i - Len(a)]
  BY <1>1, <1>4, <1>6
<1>8. ASSUME NEW i \in 1 .. n PROVE (a \o l)[i] = t[i]
  <2>1. CASE i = n
    <3>1. ~(i =< Len(a)) /\ i - Len(a) = Len(b) + 1
      BY <1>1, <1>6, <2>1
    <3> QED BY <1>3, <1>4, <1>7, <2>1, <3>1
  <2>2. CASE i # n /\ i =< Len(a)
    <3>1. i \in 1 .. n - 1 /\ i \in 1 .. Len(a) + Len(b)
      BY <1>1, <1>6, <2>2
    <3>2. a[i] = s[i]
      BY <1>2, <1>5, <1>6, <2>2, <3>1
    <3> QED BY <1>3, <1>7, <2>2, <3>2
  <2>3. CASE i # n /\ ~(i =< Len(a))
    <3>1. i \in 1 .. n - 1 /\ i \in 1 .. Len(a) + Len(b) /\ i - Len(a) \in 1 .. Len(b)
      BY <1>1, <1>6, <2>3
    <3>2. b[i - Len(a)] = s[i]
      BY <1>2, <1>5, <1>6, <2>3, <3>1
    <3>3. l[i - Len(a)] = s[i]
      BY <1>4, <3>1, <3>2
    <3> QED BY <1>3, <1>7, <2>3, <3>3
  <2> QED BY <2>1, <2>2, <2>3
<1>9. a \o l = t
  <2>1. ASSUME NEW c \in Seq(T), Len(c) = n PROVE c = [i \in 1 .. n |-> c[i]]
    BY <2>1
  <2> DEFINE c == a \o l
  <2>2. c \in Seq(T) /\ Len(c) = n /\ \A i \in 1 .. n : c[i] = t[i]
    BY <1>7, <1>8
  <2> HIDE DEF c
  <2>3. c = [i \in 1 .. n |-> c[i]] /\ t = [i \in 1 .. n |-> t[i]]
    BY <1>3, <2>1, <2>2
  <2>4. c = t
    BY <2>2, <2>3
  <2> QED BY <2>4 DEF c
<1> QED BY <1>4, <1>9 DEF l, t

LEMMA NoExportIs ==
  DOMAIN NoExport = ExportFields /\ NoExport.mode = "none"
BY DEF NoExport, ExportFields

\* The rows are results of the list.
LEMMA ChosenIs ==
  ASSUME SortInv, NEW selection \in SUBSET DOMAIN List
  PROVE  Chosen(selection) \in Seq(AllResults)
<1>1. List \in Seq(AllResults)
  BY ReverseIs DEF SortInv, List
<1> DEFINE s == List
<1> HIDE DEF s
<1>2. s \in Seq(AllResults) /\ DOMAIN s = 1 .. Len(s) /\ Len(s) \in Nat
  BY <1>1 DEF s
<1>3. selection \in SUBSET (1 .. Len(s))
  BY <1>2 DEF s
<1>4. /\ Cardinality(selection) \in Nat
      /\ Ascending(selection) \in [1 .. Cardinality(selection) -> selection]
  BY <1>2, <1>3, AscendingIs
<1>5. Ascending(selection) \in [1 .. Cardinality(selection) -> DOMAIN s]
  BY <1>2, <1>3, <1>4
<1>6. Arranged(s, Ascending(selection)) \in Seq(AllResults)
  BY <1>2, <1>4, <1>5, ArrangedIs
<1> QED BY <1>6 DEF Chosen, s

LEMMA BeginKeepsExport ==
  ASSUME SortInv, NEW mode \in Modes, NEW selection \in SUBSET DOMAIN List,
         BeginExport(mode, selection)
  PROVE  ExportInv'
<1> DEFINE rows == Chosen(selection)
<1>1. rows \in Seq(AllResults) /\ export' = ExportBegun(mode, rows)
  BY ChosenIs DEF BeginExport
<1> HIDE DEF rows
<1>2. /\ DOMAIN export' = ExportFields /\ export'.mode = mode /\ export'.rows = rows
      /\ export'.next = 1 /\ export'.descriptor = Descriptor(mode)
      /\ export'.buffer = <<>> /\ export'.file = <<>> /\ export'.end = "none"
  BY <1>1 DEF ExportBegun, NoExport, ExportFields
<1>3. SubSeq(rows, 1, 0) = <<>> /\ <<>> \o <<>> = <<>> /\ <<>> \in Seq(AllResults)
  BY <1>1
<1>4. 1 \in 1 .. Len(rows) + 1 /\ 1 - 1 = 0
  BY <1>1
<1> QED BY <1>1, <1>2, <1>3, <1>4 DEF ExportInv, Descriptor

LEMMA RowKeepsExport ==
  ASSUME ExportInv, NEW looks \in BOOLEAN, NEW large \in BOOLEAN, NEW stored \in BOOLEAN,
         ExportRow(looks, large, stored)
  PROVE  ExportInv'
<1> DEFINE e == export
           flush == looks \/ IsLast(e) \/ large
           buffer == WithRow(e)
<1>1. /\ DOMAIN e = ExportFields /\ e.next =< Len(e.rows)
      /\ export' = RowExported(e, flush, stored)
  BY DEF ExportRow, MoreRows, ExportInv
<1>2. /\ DOMAIN export' = ExportFields /\ export'.mode = e.mode /\ export'.rows = e.rows
      /\ export'.next = e.next + 1 /\ export'.descriptor = e.descriptor /\ export'.end = e.end
      /\ ~(flush /\ Holds(e.descriptor)) =>
            export'.buffer = buffer /\ export'.file = e.file /\ export'.lost = e.lost
      /\ flush /\ Holds(e.descriptor) =>
            /\ export'.buffer = <<>>
            /\ stored /\ e.descriptor > 0 => export'.file = e.file \o buffer
            /\ ~(stored /\ e.descriptor > 0) => export'.file = e.file /\ export'.lost
            /\ ~export'.lost => stored /\ e.descriptor > 0 /\ ~e.lost
  <2> HIDE DEF flush, buffer
  <2> QED BY <1>1 DEF RowExported, Flushed, ExportFields, buffer
<1>3. CASE e.mode = "save"
  <2>1. /\ e.descriptor = 3 /\ e.rows \in Seq(AllResults)
        /\ e.file \in Seq(AllResults) /\ e.buffer \in Seq(AllResults)
        /\ e.next \in 1 .. Len(e.rows) + 1
        /\ e.end = "whole" => e.next > Len(e.rows)
        /\ ~e.lost => e.file \o e.buffer = SubSeq(e.rows, 1, e.next - 1)
    BY <1>3 DEF ExportInv
  <2>8. e.end # "whole"
    BY <1>1, <2>1
  <2>2. /\ e.next \in 1 .. Len(e.rows) /\ e.rows[e.next] \in AllResults
        /\ buffer = Append(e.buffer, e.rows[e.next]) /\ buffer \in Seq(AllResults)
        /\ Holds(e.descriptor) /\ e.descriptor > 0
        /\ e.file \o buffer \in Seq(AllResults) /\ <<>> \in Seq(AllResults)
        /\ (e.file \o buffer) \o <<>> = e.file \o buffer
    BY <1>1, <1>3, <2>1 DEF WithRow, Holds
  <2>3. ~e.lost => e.file \o buffer = SubSeq(e.rows, 1, e.next)
    <3> HIDE DEF e, buffer
    <3>1. SUFFICES ASSUME ~e.lost PROVE e.file \o buffer = SubSeq(e.rows, 1, e.next)
      OBVIOUS
    <3>2. e.file \o e.buffer = SubSeq(e.rows, 1, e.next - 1)
      BY <2>1, <3>1
    <3>3. e.file \o Append(e.buffer, e.rows[e.next]) = SubSeq(e.rows, 1, e.next)
      <4>1. /\ e.rows \in Seq(AllResults) /\ e.file \in Seq(AllResults)
            /\ e.buffer \in Seq(AllResults) /\ e.next \in 1 .. Len(e.rows)
        BY <2>1, <2>2
      <4> DEFINE s == e.rows
                 a == e.file
                 b == e.buffer
                 n == e.next
      <4>2. /\ s \in Seq(AllResults) /\ a \in Seq(AllResults)
            /\ b \in Seq(AllResults) /\ n \in 1 .. Len(s)
            /\ a \o b = SubSeq(s, 1, n - 1)
        BY <3>2, <4>1
      <4> HIDE DEF s, a, b, n
      <4>3. a \o Append(b, s[n]) = SubSeq(s, 1, n)
        BY <4>2, NextRow
      <4> QED BY <4>3 DEF s, a, b, n
    <3> QED BY <2>2, <3>3
  <2>4. e.next + 1 > Len(e.rows) => flush
    BY <2>1, <2>2 DEF IsLast
  <2>5. e.next + 1 \in 1 .. Len(e.rows) + 1 /\ (e.next + 1) - 1 = e.next
    BY <2>1, <2>2
  <2> HIDE DEF e, flush, buffer
  <2>6. CASE flush
    <3>1. export'.file \in Seq(AllResults) /\ export'.buffer = <<>>
      BY <1>2, <2>1, <2>2, <2>6
    <3>2. ~export'.lost => export'.file \o export'.buffer = SubSeq(e.rows, 1, e.next)
      BY <1>2, <2>2, <2>3, <2>6
    <3> QED BY <1>2, <1>3, <2>1, <2>2, <2>5, <2>8, <3>1, <3>2 DEF ExportInv
  <2>7. CASE ~flush
    BY <1>2, <1>3, <2>1, <2>2, <2>3, <2>4, <2>5, <2>7, <2>8 DEF ExportInv
  <2> QED BY <2>6, <2>7
<1>4. CASE e.mode # "save"
  BY <1>2, <1>4 DEF ExportInv
<1> QED BY <1>3, <1>4

LEMMA ExportInvNext == SortInv /\ ExportInv /\ [Next]_vars => ExportInv'
<1> SUFFICES ASSUME SortInv, ExportInv, [Next]_vars PROVE ExportInv'
  OBVIOUS
<1>1. ASSUME export' = export PROVE ExportInv'
  BY <1>1 DEF ExportInv
<1>2. ASSUME export' = NoExport PROVE ExportInv'
  BY <1>2, NoExportIs DEF ExportInv
<1>3. ASSUME NEW selected, NEW byLevel, Search(selected, byLevel) PROVE ExportInv'
  BY <1>1, <1>3 DEF Search, Cleared
<1>4. ASSUME NEW selected, Refresh(selected) PROVE ExportInv'
  BY <1>1, <1>4 DEF Refresh, Cleared
<1>5. ASSUME NEW column, NEW variation, Click(column, variation) PROVE ExportInv'
  BY <1>1, <1>5 DEF Click, ClickTurns, ClickSorts, ClickPlaces, ClickNothing, ClickStopped
<1>6. ASSUME NEW mode \in Modes, NEW selection \in SUBSET DOMAIN List, BeginExport(mode, selection)
      PROVE  ExportInv'
  BY <1>6, BeginKeepsExport
<1>7. CASE PlaceStopped \/ Place \/ PlaceEnds
  BY <1>1, <1>7 DEF PlaceStopped, Place, PlaceEnds
<1>8. CASE UNCHANGED listVars \/ UNCHANGED vars
  BY <1>1, <1>8 DEF listVars, vars
<1>9. ASSUME NEW looks \in BOOLEAN, NEW large \in BOOLEAN, NEW stored \in BOOLEAN,
             ExportRow(looks, large, stored)
      PROVE  ExportInv'
  BY <1>9, RowKeepsExport
<1>10. ASSUME NEW looks, ExportStops(looks) PROVE ExportInv'
  <2>1. export' = [export EXCEPT !.end = "stopped"]
    BY <1>10 DEF ExportStops, ExportCancelled
  <2>2. DOMAIN export = ExportFields
    BY DEF ExportInv
  <2>3. /\ DOMAIN export' = ExportFields /\ export'.end = "stopped"
        /\ \A f \in ExportFields : f # "end" => export'[f] = export[f]
    BY <2>1, <2>2 DEF ExportFields
  <2>4. /\ export'.mode = export.mode /\ export'.rows = export.rows /\ export'.next = export.next
        /\ export'.descriptor = export.descriptor /\ export'.buffer = export.buffer
        /\ export'.file = export.file /\ export'.lost = export.lost
    BY <2>3 DEF ExportFields
  <2> QED BY <2>3, <2>4 DEF ExportInv
<1>11. CASE ExportEnds
  <2>1. export' = ExportDone(export) /\ ~(export.next =< Len(export.rows))
    BY <1>11 DEF ExportEnds, MoreRows
  <2>2. DOMAIN export = ExportFields
    BY DEF ExportInv
  <2>3. /\ DOMAIN export' = ExportFields
        /\ export'.mode = export.mode /\ export'.rows = export.rows /\ export'.next = export.next
        /\ export'.descriptor = export.descriptor /\ export'.buffer = export.buffer
        /\ export'.file = export.file /\ export'.lost = export.lost
    BY <2>1, <2>2 DEF ExportFields, ExportDone
  <2>4. export.mode = "save" => export.next > Len(export.rows)
    BY <2>1 DEF ExportInv
  <2> QED BY <2>3, <2>4 DEF ExportInv
<1>12. CASE ExportClosed
  BY <1>2, <1>12 DEF ExportClosed
<1> QED BY <1>3, <1>4, <1>5, <1>6, <1>7, <1>8, <1>9, <1>10, <1>11, <1>12
        DEF Next, User, Thread, listVars

LEMMA ExportInvariant == Spec => []ExportInv
<1>1. Init => ExportInv
  BY NoExportIs DEF Init, ExportInv
<1>2. SortInv /\ ExportInv /\ [Next]_vars => ExportInv'
  BY ExportInvNext
<1> QED BY <1>1, <1>2, SortInvariant, PTL DEF Spec

\* MainDialog!ExportFaithful: the file holds a beginning of the rows in the order of
\* the list at any moment, and all of them when the export ends by itself.
THEOREM FileHoldsTheRows == Spec => []ExportFaithful
<1>1. ExportInv => ExportFaithful
  <2> SUFFICES ASSUME ExportInv, export.mode = "save", ~export.lost
               PROVE  /\ IsPrefix(export.file \o export.buffer, export.rows)
                      /\ export.end = "whole" => export.file = export.rows
    BY DEF ExportFaithful
  <2> DEFINE s == export.rows
             f == export.file
             b == export.buffer
             k == export.next - 1
  <2>1. /\ s \in Seq(AllResults) /\ f \in Seq(AllResults) /\ b \in Seq(AllResults)
        /\ k \in 0 .. Len(s)
        /\ k >= Len(s) => b = <<>>
        /\ f \o b = SubSeq(s, 1, k)
    <3>1. /\ s \in Seq(AllResults) /\ f \in Seq(AllResults) /\ b \in Seq(AllResults)
          /\ export.next \in 1 .. Len(s) + 1
          /\ export.next > Len(s) => b = <<>>
          /\ f \o b = SubSeq(s, 1, k)
      BY DEF ExportInv
    <3> HIDE DEF s, f, b
    <3>2. k \in 0 .. Len(s) /\ (k >= Len(s) => b = <<>>)
      BY <3>1
    <3> QED BY <3>1, <3>2
  <2>2. export.end = "whole" => k >= Len(s)
    BY DEF ExportInv
  <2> HIDE DEF s, f, b, k
  <2>3. Len(SubSeq(s, 1, k)) = k
    BY <2>1
  <2>4. IsPrefix(f \o b, s)
    BY <2>1, <2>3 DEF IsPrefix
  <2>5. ASSUME k >= Len(s) PROVE f = s
    <3>1. k = Len(s) /\ b = <<>>
      BY <2>1, <2>5
    <3>2. f \o b = f /\ SubSeq(s, 1, k) = s
      BY <2>1, <3>1
    <3> QED BY <2>1, <3>2
  <2> QED BY <2>2, <2>4, <2>5 DEF s, f, b
<1> QED BY <1>1, ExportInvariant, PTL

-----------------------------------------------------------------------------
(***************************************************************************)
(* The command line: the drives it searches, and which it has searched.    *)
(***************************************************************************)
\* The drive at a position that has left the list of those waited for.
Done(d) == \E i \in 1 .. posted : indices[i] = d /\ i - 1 \notin Range(pending)

PlanInv ==
    /\ DrivesInv
    /\ command \in Commands
    /\ indices \in Seq(Drives) /\ IsInjective(indices)
    /\ posted \in 0 .. Len(indices)
    /\ pending \in Seq(Nat) /\ IsInjective(pending) /\ Range(pending) \subseteq 0 .. posted - 1
    /\ stage = "options" => indices = <<>>
    /\ stage \in {"posting", "loop", "waiting", "searching"} => Range(indices) = Asked
    /\ stage \in {"options", "posting"} => Range(pending) = 0 .. posted - 1
    /\ stage \in {"loop", "waiting", "searching"} => posted = Len(indices)
    /\ \A d \in Drives : Done(d) => Finished(d)
    /\ DOMAIN current = {"drive", "visits"}
    /\ stage = "searching" =>
          /\ current.drive \in Drives /\ Done(current.drive)
          /\ current.visits \in 0 .. index[current.drive].names
    /\ stage # "searching" => current = NoDrive
    /\ status = "done" => /\ stage = "ended" /\ pending = <<>> /\ posted = Len(indices)
                          /\ Range(indices) = Asked

LEMMA DrivesOfIs ==
  ASSUME NEW c, IsCommand(c), ~IsRefused(c)
  PROVE  DrivesOf(c) \in Seq(Drives) /\ IsInjective(DrivesOf(c))
<1>1. DriveCount \in Nat /\ Drives = 1 .. DriveCount
  BY DrivesAssumption DEF Drives
<1>2. CASE c.path # 0
  <2>1. DrivesOf(c) = <<c.path>> /\ c.path \in Drives
    BY <1>2 DEF DrivesOf, IsCommand
  <2> QED BY <2>1 DEF IsInjective
<1>3. CASE c.path = 0 /\ c.drives # <<>> /\ AllDrives \notin Range(c.drives)
  <2> DEFINE s == c.drives
  <2>1. /\ DrivesOf(c) = s /\ s \in Seq(0 .. NoSuchDrive) /\ IsInjective(s)
        /\ 0 \notin Range(s) /\ DriveCount + 1 \notin Range(s) /\ NoSuchDrive = DriveCount + 1
    BY <1>3 DEF DrivesOf, IsCommand, IsRefused, AllDrives, NoSuchDrive
  <2> HIDE DEF s
  <2>2. \A i \in 1 .. Len(s) : s[i] \in 0 .. DriveCount + 1 /\ s[i] # 0 /\ s[i] # DriveCount + 1
    BY <2>1 DEF Range
  <2>3. \A i \in 1 .. Len(s) : s[i] \in Drives
    BY <1>1, <2>2
  <2> QED BY <2>1, <2>3
<1>4. CASE c.path = 0 /\ (c.drives = <<>> \/ AllDrives \in Range(c.drives))
  <2>1. DrivesOf(c) = [d \in Drives |-> d]
    BY <1>4 DEF DrivesOf
  <2> QED BY <1>1, <2>1 DEF IsInjective
<1> QED BY <1>2, <1>3, <1>4

LEMMA CreateIs ==
  ASSUME NEW s \in Seq(Drives), IsInjective(s), NEW allowed \in SUBSET Drives
  PROVE  LET t == Arranged(s, Ascending({i \in DOMAIN s : s[i] \in allowed}))
         IN t \in Seq(Drives) /\ IsInjective(t) /\ Range(t) = Range(s) \cap allowed
<1> DEFINE S == {i \in DOMAIN s : s[i] \in allowed}
           n == Cardinality(S)
           a == Ascending(S)
           t == Arranged(s, a)
<1>1. S \in SUBSET (1 .. Len(s)) /\ Len(s) \in Nat /\ DOMAIN s = 1 .. Len(s)
      /\ \A i : i \in S <=> i \in 1 .. Len(s) /\ s[i] \in allowed
  OBVIOUS
<1> HIDE DEF S
<1>2. /\ n \in Nat /\ a \in [1 .. n -> S]
      /\ \A k, l \in 1 .. n : k < l => a[k] < a[l]
      /\ \A i \in S : \E k \in 1 .. n : a[k] = i
  BY <1>1, AscendingIs
<1> HIDE DEF n, a
<1>3. a \in [1 .. n -> DOMAIN s]
  BY <1>1, <1>2
<1>4. t \in Seq(Drives) /\ Len(t) = n /\ \A k \in 1 .. n : t[k] = s[a[k]]
  BY <1>2, <1>3, ArrangedIs
<1> HIDE DEF t
<1>5. DOMAIN t = 1 .. n
  BY <1>4
<1>6. \A k \in 1 .. n : a[k] \in 1 .. Len(s) /\ t[k] \in allowed
  BY <1>1, <1>2, <1>4
<1>7. IsInjective(t)
  <2>1. ASSUME NEW k \in 1 .. n, NEW l \in 1 .. n, t[k] = t[l] PROVE k = l
    <3>1. a[k] = a[l]
      BY <1>1, <1>4, <1>6, <2>1 DEF IsInjective
    <3>2. ~(k < l) /\ ~(l < k)
      BY <1>2, <1>6, <3>1
    <3> QED BY <1>2, <3>2
  <2> QED BY <1>5, <2>1 DEF IsInjective
<1>8. Range(t) \subseteq Range(s) \cap allowed
  BY <1>1, <1>4, <1>5, <1>6 DEF Range
<1>9. ASSUME NEW i \in 1 .. Len(s), s[i] \in allowed PROVE s[i] \in Range(t)
  <2>1. PICK k \in 1 .. n : a[k] = i
    BY <1>1, <1>2, <1>9
  <2> QED BY <1>4, <1>5, <2>1 DEF Range
<1>10. Range(s) \cap allowed \subseteq Range(t)
  BY <1>1, <1>9 DEF Range
<1> QED BY <1>4, <1>7, <1>8, <1>10 DEF t, a, S

LEMMA SetPriorityDomain ==
  ASSUME NEW p, NEW number, NEW hint
  PROVE  DOMAIN SetPriority(p, number, hint) = DOMAIN p
BY DEF SetPriority

\* Steps that leave the plan alone.
LEMMA QuietPlan ==
  ASSUME PlanInv, DrivesInv',
         \A d \in Drives : Finished(d) => Finished(d)' /\ index'[d].names = index[d].names,
         UNCHANGED <<command, indices, posted, pending, current>>,
         \/ stage' = stage /\ status' = status
         \/ stage = "options" /\ stage' = "ended" /\ status' = "refused"
         \/ stage = "posting" /\ stage' = "loop" /\ posted = Len(indices) /\ status' = status
         \/ stage = "loop" /\ stage' = "waiting" /\ status' = status
         \/ stage = "loop" /\ stage' = "ended" /\ pending = <<>> /\ status' = "done"
  PROVE  PlanInv' /\ \A d : Done(d)' <=> Done(d)
<1>1. Asked' = Asked /\ \A d : Done(d)' <=> Done(d)
  BY DEF Asked, Done
<1>2. ASSUME stage = "searching" PROVE current.visits \in 0 .. index'[current.drive].names
  BY <1>2 DEF PlanInv
<1> QED BY <1>1, <1>2 DEF PlanInv

\* How many visits of a drive have been made.
MadeOf(d) ==
    IF d = current.drive THEN current.visits
    ELSE IF Done(d) THEN index[d].names
    ELSE 0

\* No visit is made, and a drive whose search begins has none yet.
NoneMade ==
    \A d \in Drives :
        /\ MadeOf(d)' = MadeOf(d)
        /\ current'.drive = d => current.drive = d \/ MadeOf(d) = 0

LEMMA NoneMadeWhen ==
  ASSUME PlanInv, current' = current,
         \A d \in Drives : Done(d)' <=> Done(d),
         \A d \in Drives : Done(d) => index'[d].names = index[d].names
  PROVE  NoneMade
BY DEF NoneMade, MadeOf

LEMMA DrivesAside ==
  ASSUME DrivesInv, index' = index, DOMAIN priority' = DOMAIN priority
  PROVE  DrivesInv' /\ \A d \in Drives : (Finished(d)' <=> Finished(d)) /\ index'[d].names = index[d].names
BY DEF DrivesInv, Finished

LEMMA CreateKeepsPlan == ASSUME PlanInv, Create PROVE PlanInv' /\ NoneMade
<1> DEFINE s == DrivesOf(command)
           t == Arranged(s, Ascending({i \in DOMAIN s : s[i] \in command.allowed}))
<1>1. /\ stage = "options" /\ ~IsRefused(command) /\ indices' = t /\ stage' = "posting"
      /\ index' = index /\ priority' = priority /\ command' = command /\ posted' = posted
      /\ pending' = pending /\ current' = current /\ status' = status
  BY DEF Create, indexVars
<1>2. command \in Commands /\ IsCommand(command) /\ command.allowed \in SUBSET Drives
  BY CommandsAssumption DEF PlanInv, IsCommand
<1>3. s \in Seq(Drives) /\ IsInjective(s)
  BY <1>1, <1>2, DrivesOfIs
<1>4. Asked' = Asked /\ Asked = Range(s) \cap command.allowed
  BY <1>1 DEF Asked
<1> HIDE DEF s
<1>5. t \in Seq(Drives) /\ IsInjective(t) /\ Range(t) = Asked
  BY <1>2, <1>3, <1>4, CreateIs
<1> HIDE DEF t
<1>6. posted = 0 /\ status # "done" /\ Range(pending) = 0 .. posted - 1
  BY <1>1 DEF PlanInv
<1>7. (\A d : ~Done(d)) /\ (\A d : ~Done(d)')
  BY <1>1, <1>6 DEF Done
<1>8. DrivesInv'
  BY <1>1, DrivesAside DEF PlanInv
<1>9. Len(t) \in Nat
  BY <1>5
<1>10. PlanInv'
  BY <1>1, <1>4, <1>5, <1>6, <1>7, <1>8, <1>9 DEF PlanInv
<1> QED BY <1>1, <1>7, <1>10, NoneMadeWhen

LEMMA PostKeepsPlan == ASSUME PlanInv, Post PROVE PlanInv' /\ NoneMade
<1>1. /\ stage = "posting" /\ stage' = stage /\ posted < Len(indices) /\ posted' = posted + 1
      /\ pending' = Append(pending, posted)
      /\ index' = index /\ priority' = priority /\ command' = command /\ indices' = indices
      /\ current' = current /\ status' = status
  BY DEF Post, indexVars
<1>2. /\ posted \in 0 .. Len(indices) /\ Len(indices) \in Nat
      /\ pending \in Seq(Nat) /\ IsInjective(pending) /\ Range(pending) = 0 .. posted - 1
  BY <1>1 DEF PlanInv
<1>3. /\ pending' \in Seq(Nat) /\ IsInjective(pending')
      /\ Range(pending') = Range(pending) \cup {posted}
  <2>1. posted \in Nat /\ posted \notin Range(pending)
    BY <1>2
  <2> DEFINE q == pending
  <2>2. q \in Seq(Nat) /\ IsInjective(q) /\ pending' = Append(q, posted) /\ posted \notin Range(q)
    BY <1>1, <1>2, <2>1
  <2> HIDE DEF q
  <2>3. pending' \in Seq(Nat) /\ IsInjective(pending') /\ Range(pending') = Range(q) \cup {posted}
    BY <2>1, <2>2, AppendedOnce
  <2> QED BY <2>3 DEF q
<1>4. Range(pending') = 0 .. posted' - 1
  BY <1>1, <1>2, <1>3
<1>5. (\A d : ~Done(d)) /\ (\A d : ~Done(d)')
  BY <1>1, <1>2, <1>4 DEF Done
<1>6. DrivesInv' /\ Asked' = Asked
  BY <1>1, DrivesAside DEF PlanInv, Asked
<1>7. posted' \in 0 .. Len(indices')
  BY <1>1, <1>2
<1>8. PlanInv'
  BY <1>1, <1>3, <1>4, <1>5, <1>6, <1>7 DEF PlanInv
<1> QED BY <1>1, <1>5, <1>8, NoneMadeWhen

\* Which positions are still waited for.
LEMMA WaitedKeepsPlan == ASSUME PlanInv, Waited PROVE PlanInv' /\ NoneMade
<1>1. /\ stage = "waiting" /\ stage' = "searching" /\ index' = index
      /\ priority' = GivenBack(priority, raised) /\ command' = command /\ indices' = indices
      /\ posted' = posted /\ status' = status
  BY DEF Waited
<1>2. PICK k \in DOMAIN pending :
        /\ Finished(indices[pending[k] + 1])
        /\ current' = [drive |-> indices[pending[k] + 1], visits |-> 0]
        /\ pending' = RemoveAt(pending, k)
  BY DEF Waited, IsFinished, Erased
<1>3. /\ pending \in Seq(Nat) /\ IsInjective(pending) /\ Range(pending) \subseteq 0 .. posted - 1
      /\ posted = Len(indices) /\ indices \in Seq(Drives) /\ IsInjective(indices)
      /\ current = NoDrive /\ status # "done" /\ Len(indices) \in Nat
  BY <1>1 DEF PlanInv
<1> DEFINE p == pending[k]
           d == indices[p + 1]
<1>4. p \in Range(pending)
  BY <1>3 DEF Range
<1>5. p \in 0 .. posted - 1 /\ p + 1 \in 1 .. posted /\ d \in Drives /\ k \in 1 .. Len(pending)
  <2>1. p \in 0 .. posted - 1 /\ k \in 1 .. Len(pending)
    BY <1>3, <1>4
  <2> HIDE DEF p
  <2> QED BY <1>3, <2>1
<1>6. /\ pending' \in Seq(Nat) /\ IsInjective(pending') /\ Range(pending') = Range(pending) \ {p}
  BY <1>2, <1>3, <1>5, ErasedOnce
<1> HIDE DEF p, d
<1>7. \A i \in 1 .. posted : indices[i] = d <=> i = p + 1
  BY <1>3, <1>5 DEF IsInjective, d
<1>8. ~Done(d)
  BY <1>4, <1>5, <1>7 DEF Done
<1>9. \A e : Done(e)' <=> Done(e) \/ e = d
  <2>1. \A i \in 1 .. posted : i - 1 = p <=> i = p + 1
    BY <1>5
  <2>2. \A e : Done(e)' <=> \E i \in 1 .. posted : indices[i] = e /\ (i - 1 \notin Range(pending) \/ i - 1 = p)
    BY <1>1, <1>6 DEF Done
  <2>3. indices[p + 1] = d
    BY DEF d
  <2> QED BY <1>5, <1>7, <2>1, <2>2, <2>3 DEF Done
<1>10. /\ DrivesInv' /\ \A e \in Drives : (Finished(e)' <=> Finished(e)) /\ index'[e].names = index[e].names
  <2>1. DOMAIN priority' = DOMAIN priority
    BY <1>1, SetPriorityDomain DEF GivenBack
  <2> QED BY <1>1, <2>1, DrivesAside DEF PlanInv
<1>11. current' = [drive |-> d, visits |-> 0] /\ Finished(d)
  BY <1>2 DEF d, p
<1>12. /\ DOMAIN current' = {"drive", "visits"} /\ current'.drive = d /\ current'.visits = 0
  BY <1>11
<1>13. 0 \in 0 .. index[d].names
  BY <1>5 DEF PlanInv, DrivesInv
<1>14. PlanInv'
  <2>1. Asked' = Asked /\ Range(pending') \subseteq 0 .. posted' - 1
    BY <1>1, <1>3, <1>6 DEF Asked
  <2>2. \A e \in Drives : Done(e)' => Finished(e)'
    BY <1>9, <1>10, <1>11 DEF PlanInv
  <2>3. current'.drive \in Drives /\ Done(current.drive)'
        /\ current'.visits \in 0 .. index'[current'.drive].names
    <3>1. \A e : e = d => Done(e)'
      BY <1>9
    <3> QED BY <1>1, <1>5, <1>12, <1>13, <3>1
  <2> QED BY <1>1, <1>3, <1>6, <1>10, <1>12, <2>1, <2>2, <2>3 DEF PlanInv
<1>15. NoneMade
  <2>1. current.drive = 0 /\ 0 \notin Drives
    BY <1>3 DEF NoDrive, Drives
  <2>2. ASSUME NEW e \in Drives
        PROVE  MadeOf(e)' = MadeOf(e) /\ (current'.drive = e => MadeOf(e) = 0)
    BY <1>1, <1>8, <1>9, <1>12, <2>1, <2>2 DEF MadeOf
  <2> QED BY <2>2 DEF NoneMade
<1> QED BY <1>14, <1>15

LEMMA SearchedKeepsPlan == ASSUME PlanInv, DriveSearched PROVE PlanInv' /\ NoneMade
<1>1. /\ stage = "searching" /\ stage' = "loop" /\ current' = NoDrive
      /\ current.visits = index[current.drive].names
      /\ index' = index /\ priority' = priority /\ command' = command /\ indices' = indices
      /\ posted' = posted /\ pending' = pending /\ status' = status
  BY DEF DriveSearched, indexVars
<1>2. \A d : Done(d)' <=> Done(d)
  BY <1>1 DEF Done
<1>3. DrivesInv' /\ (\A d \in Drives : Finished(d)' <=> Finished(d)) /\ Asked' = Asked
  BY <1>1, DrivesAside DEF PlanInv, Asked
<1>4. PlanInv'
  BY <1>1, <1>2, <1>3 DEF PlanInv, NoDrive
<1>5. current'.drive = 0 /\ 0 \notin Drives /\ Done(current.drive)
  BY <1>1 DEF NoDrive, Drives, PlanInv
<1>6. NoneMade
  BY <1>1, <1>2, <1>5 DEF NoneMade, MadeOf
<1> QED BY <1>4, <1>6

LEMMA VisitKeepsPlan ==
  ASSUME PlanInv, VisitNext
  PROVE  /\ PlanInv'
         /\ current'.drive = current.drive /\ current.drive \in Drives
         /\ MadeOf(current.drive) = current.visits /\ current.visits + 1 \in 1 .. Len(Tree[current.drive])
         /\ \A d \in Drives :
              MadeOf(d)' = IF d = current.drive THEN current.visits + 1 ELSE MadeOf(d)
<1> DEFINE d == current.drive
           n == current.visits
<1>1. /\ stage = "searching" /\ stage' = stage /\ n < index[d].names
      /\ current' = [current EXCEPT !.visits = @ + 1]
      /\ index' = index /\ priority' = priority /\ command' = command /\ indices' = indices
      /\ posted' = posted /\ pending' = pending /\ status' = status
  BY DEF VisitNext, indexVars
<1>2. /\ d \in Drives /\ Done(d) /\ n \in 0 .. index[d].names /\ DOMAIN current = {"drive", "visits"}
  BY <1>1 DEF PlanInv
<1>3. DOMAIN current' = {"drive", "visits"} /\ current'.drive = d /\ current'.visits = n + 1
  BY <1>1, <1>2
<1>4. index[d].names \in 0 .. Len(Tree[d]) /\ Len(Tree[d]) \in Nat
  BY <1>2, DrivesAssumption DEF PlanInv, DrivesInv
<1>5. n + 1 \in 0 .. index[d].names /\ n + 1 \in 1 .. Len(Tree[d])
  BY <1>1, <1>2, <1>4
<1>6. \A e : Done(e)' <=> Done(e)
  BY <1>1 DEF Done
<1>7. DrivesInv' /\ (\A e \in Drives : Finished(e)' <=> Finished(e)) /\ Asked' = Asked
  BY <1>1, DrivesAside DEF PlanInv, Asked
<1> HIDE DEF d, n
<1>8. PlanInv'
  BY <1>1, <1>2, <1>3, <1>5, <1>6, <1>7 DEF PlanInv
<1>9. MadeOf(d) = n /\ \A e : MadeOf(e)' = IF e = d THEN n + 1 ELSE MadeOf(e)
  BY <1>1, <1>3, <1>6 DEF MadeOf, d, n
<1> QED BY <1>2, <1>3, <1>5, <1>8, <1>9 DEF d, n

LEMMA PayloadKeepsPlan == ASSUME PlanInv, NEW d \in Drives, Payload(d) PROVE PlanInv' /\ NoneMade
<1>1. /\ DriveStep(d) /\ command' = command /\ stage' = stage /\ indices' = indices
      /\ posted' = posted /\ pending' = pending /\ current' = current /\ status' = status
  BY DEF Payload, commandVars
<1>2. /\ DrivesInv'
      /\ \A e \in Drives : Finished(e) => Finished(e)' /\ index'[e].names = index[e].names
  BY <1>1, DriveStepEffect DEF PlanInv
<1>3. ASSUME NEW e \in Drives, Done(e) PROVE Finished(e)
  BY <1>3 DEF PlanInv
<1>4. \A e : Done(e)' <=> Done(e)
  BY <1>1 DEF Done
<1>5. current.visits \in 0 .. index'[current.drive].names \/ stage # "searching"
  BY <1>2, <1>3 DEF PlanInv
<1>6. Asked' = Asked
  BY <1>1 DEF Asked
<1>7. PlanInv'
  BY <1>1, <1>2, <1>3, <1>4, <1>5, <1>6 DEF PlanInv
<1> QED BY <1>1, <1>2, <1>3, <1>4, <1>7, NoneMadeWhen

\* The steps between.
LEMMA OtherKeepsPlan ==
  ASSUME PlanInv, Refuse \/ AllPosted \/ RaiseFirst \/ Finish \/ UNCHANGED <<indexVars, commandVars>>
  PROVE  PlanInv' /\ NoneMade
<1>1. /\ index' = index /\ DOMAIN priority' = DOMAIN priority /\ command' = command
      /\ indices' = indices /\ posted' = posted /\ pending' = pending /\ current' = current
  BY SetPriorityDomain DEF Refuse, AllPosted, RaiseFirst, Finish, indexVars, commandVars
<1>2. DrivesInv' /\ (\A d \in Drives : (Finished(d)' <=> Finished(d)) /\ index'[d].names = index[d].names)
      /\ Asked' = Asked
  BY <1>1, DrivesAside DEF PlanInv, Asked
<1>3. \A d : Done(d)' <=> Done(d)
  BY <1>1 DEF Done
<1>4. /\ \A d \in Drives : Finished(d) => Finished(d)' /\ index'[d].names = index[d].names
      /\ UNCHANGED <<command, indices, posted, pending, current>>
  BY <1>1, <1>2
<1>5. \/ stage' = stage /\ status' = status
      \/ stage = "options" /\ stage' = "ended" /\ status' = "refused"
      \/ stage = "posting" /\ stage' = "loop" /\ posted = Len(indices) /\ status' = status
      \/ stage = "loop" /\ stage' = "waiting" /\ status' = status
      \/ stage = "loop" /\ stage' = "ended" /\ pending = <<>> /\ status' = "done"
  BY DEF Refuse, AllPosted, RaiseFirst, Finish, commandVars
<1>6. PlanInv'
  BY <1>2, <1>4, <1>5, QuietPlan
<1>8. NoneMade
  BY <1>1, <1>2, <1>3, NoneMadeWhen
<1> QED BY <1>6, <1>8

-----------------------------------------------------------------------------
(***************************************************************************)
(* What the command line has written.                                      *)
(***************************************************************************)
LineOf(d, v) == [drive |-> d, visit |-> v]
AllLines == UNION {{LineOf(d, v) : v \in 1 .. Len(Tree[d])} : d \in Drives}

LEMMA LineOfIs ==
  ASSUME NEW d \in Drives, NEW v \in 1 .. Len(Tree[d])
  PROVE  /\ LineOf(d, v) \in AllLines /\ LineOf(d, v).drive = d /\ LineOf(d, v).visit = v
         /\ \A l \in AllLines : l.drive = d /\ l.visit = v => l = LineOf(d, v)
BY DEF AllLines, LineOf

LEMMA LinesAre ==
  \A l \in AllLines : /\ l.drive \in Drives /\ l.visit \in Nat /\ l # Header
                      /\ l = LineOf(l.drive, l.visit)
<1>1. 0 \notin Drives /\ Header.drive = 0
  BY DEF Drives, Header
<1> QED BY <1>1 DEF AllLines, LineOf

\* The line of a visit that was made and found a match.
IsWritten(l) == l.visit \in 1 .. MadeOf(l.drive) /\ Tree[l.drive][l.visit].match

\* The lines below the header: one for each match, and those of a drive together.
Written(rows) ==
    /\ rows \in Seq(AllLines) /\ IsInjective(rows)
    /\ \A l \in AllLines : l \in Range(rows) <=> IsWritten(l)
    /\ \A i, j \in 1 .. Len(rows) :
          i < j /\ rows[i].drive = rows[j].drive =>
              /\ rows[i].visit < rows[j].visit
              /\ \A k \in i .. j : rows[k].drive = rows[i].drive
    /\ \A i, j \in 1 .. Len(rows) :
          i < j /\ rows[i].drive = current.drive => rows[j].drive = current.drive

LEMMA WrittenStays ==
  ASSUME NoneMade, NEW rows, Written(rows)
  PROVE  Written(rows)'
<1>1. rows \in Seq(AllLines) /\ Len(rows) \in Nat /\ DOMAIN rows = 1 .. Len(rows)
  BY DEF Written
<1>2. ASSUME NEW l \in AllLines PROVE IsWritten(l)' <=> IsWritten(l)
  BY LinesAre DEF IsWritten, NoneMade
<1>3. ASSUME NEW i \in 1 .. Len(rows), NEW j \in 1 .. Len(rows), i < j,
             rows[i].drive = current'.drive
      PROVE  rows[j].drive = current'.drive
  <2>1. rows[i] \in AllLines /\ rows[i] \in Range(rows) /\ rows[i].drive \in Drives
    BY <1>1, LinesAre DEF Range
  <2>2. rows[i].visit \in 1 .. MadeOf(rows[i].drive)
    BY <2>1 DEF Written, IsWritten
  <2>3. MadeOf(rows[i].drive) # 0
    BY <2>2
  <2>4. current.drive = rows[i].drive
    BY <1>3, <2>1, <2>3 DEF NoneMade
  <2> QED BY <1>3, <2>4 DEF Written
<1> QED BY <1>2, <1>3 DEF Written

\* A visit without a match, and one with.
LEMMA WrittenSkips ==
  ASSUME PlanInv, VisitNext, NEW rows, Written(rows),
         ~Tree[current.drive][current.visits + 1].match
  PROVE  Written(rows)'
<1> DEFINE d == current.drive
           n == current.visits
<1>1. /\ current'.drive = d /\ d \in Drives /\ MadeOf(d) = n /\ n + 1 \in 1 .. Len(Tree[d])
      /\ \A e \in Drives : MadeOf(e)' = IF e = d THEN n + 1 ELSE MadeOf(e)
      /\ ~Tree[d][n + 1].match
  BY VisitKeepsPlan
<1> HIDE DEF d, n
<1>2. n \in Nat
  BY VisitKeepsPlan DEF PlanInv, n, VisitNext
<1>3. ASSUME NEW l \in AllLines PROVE IsWritten(l)' <=> IsWritten(l)
  <2>1. l.drive \in Drives /\ l.visit \in Nat
    BY LinesAre
  <2>2. l.visit \in 1 .. n + 1 <=> l.visit \in 1 .. n \/ l.visit = n + 1
    BY <1>2, <2>1
  <2> QED BY <1>1, <2>1, <2>2 DEF IsWritten
<1>4. current'.drive = current.drive
  BY <1>1 DEF d
<1> QED BY <1>3, <1>4 DEF Written

LEMMA WrittenGrows ==
  ASSUME PlanInv, VisitNext, NEW rows, Written(rows),
         Tree[current.drive][current.visits + 1].match,
         NEW line, line = LineOf(current.drive, current.visits + 1)
  PROVE  line \in AllLines /\ Written(Append(rows, line))'
<1> DEFINE d == current.drive
           n == current.visits
           all == Append(rows, line)
<1>1. /\ current'.drive = d /\ d \in Drives /\ MadeOf(d) = n /\ n + 1 \in 1 .. Len(Tree[d])
      /\ \A e \in Drives : MadeOf(e)' = IF e = d THEN n + 1 ELSE MadeOf(e)
      /\ Tree[d][n + 1].match
  BY VisitKeepsPlan
<1>2. n \in Nat
  BY VisitKeepsPlan DEF PlanInv, VisitNext
<1>3. line \in AllLines /\ line.drive = d /\ line.visit = n + 1
      /\ \A l \in AllLines : l.drive = d /\ l.visit = n + 1 => l = line
  BY <1>1, LineOfIs
<1> SUFFICES line \in AllLines /\ Written(all)'
  OBVIOUS
<1>0. current.drive = d
  OBVIOUS
<1> HIDE DEF d, n, all
<1>4. ASSUME NEW l \in AllLines PROVE IsWritten(l)' <=> IsWritten(l) \/ l = line
  <2>1. l.drive \in Drives /\ l.visit \in Nat
    BY LinesAre
  <2>2. l.visit \in 1 .. n + 1 <=> l.visit \in 1 .. n \/ l.visit = n + 1
    BY <1>2, <2>1
  <2> QED BY <1>1, <1>3, <2>1, <2>2 DEF IsWritten
<1>5. /\ rows \in Seq(AllLines) /\ IsInjective(rows) /\ line \notin Range(rows)
      /\ \A i \in 1 .. Len(rows) : rows[i] \in AllLines /\ rows[i] \in Range(rows)
  <2>1. rows \in Seq(AllLines) /\ IsInjective(rows)
    BY DEF Written
  <2>2. ~IsWritten(line)
    BY <1>1, <1>2, <1>3 DEF IsWritten
  <2> QED BY <1>3, <2>1, <2>2 DEF Written, Range
<1>6. all \in Seq(AllLines) /\ IsInjective(all) /\ Range(all) = Range(rows) \cup {line}
  BY <1>3, <1>5, AppendedOnce DEF all
<1>7. /\ Len(rows) \in Nat /\ Len(all) = Len(rows) + 1 /\ all[Len(rows) + 1] = line
      /\ \A i \in 1 .. Len(rows) : all[i] = rows[i]
  BY <1>5 DEF all
<1>8. \A l \in AllLines : l \in Range(all) <=> IsWritten(l)'
  BY <1>4, <1>6 DEF Written
\* Lines of the drive have been the last ones, and of earlier visits.
<1>9. \A i \in 1 .. Len(rows) : rows[i].drive = d => rows[i].visit \in Nat /\ rows[i].visit < n + 1
  <2>1. ASSUME NEW i \in 1 .. Len(rows), rows[i].drive = d
        PROVE  rows[i].visit \in Nat /\ rows[i].visit < n + 1
    <3>1. IsWritten(rows[i]) /\ rows[i].visit \in Nat
      BY <1>5, <2>1, LinesAre DEF Written
    <3> QED BY <1>1, <1>2, <2>1, <3>1 DEF IsWritten
  <2> QED BY <2>1
<1>10. /\ \A i, j \in 1 .. Len(rows) :
            i < j /\ rows[i].drive = rows[j].drive =>
              /\ rows[i].visit < rows[j].visit
              /\ \A k \in i .. j : rows[k].drive = rows[i].drive
       /\ \A i, j \in 1 .. Len(rows) : i < j /\ rows[i].drive = d => rows[j].drive = d
  BY <1>0 DEF Written
<1>11. ASSUME NEW i \in 1 .. Len(all), NEW j \in 1 .. Len(all), i < j, all[i].drive = all[j].drive
       PROVE  all[i].visit < all[j].visit /\ \A k \in i .. j : all[k].drive = all[i].drive
  <2>1. i \in 1 .. Len(rows) /\ (j \in 1 .. Len(rows) \/ j = Len(rows) + 1)
    BY <1>7, <1>11
  <2>2. CASE j \in 1 .. Len(rows)
    <3>1. \A k \in i .. j : k \in 1 .. Len(rows)
      BY <1>7, <2>1, <2>2
    <3> QED BY <1>7, <1>10, <1>11, <2>1, <2>2, <3>1
  <2>3. CASE j = Len(rows) + 1
    <3>1. rows[i].drive = d /\ all[i] = rows[i] /\ all[j] = line
      BY <1>3, <1>7, <1>11, <2>1, <2>3
    <3>2. rows[i].visit < n + 1
      BY <1>9, <2>1, <3>1
    <3>3. ASSUME NEW k \in i .. j PROVE all[k].drive = d
      <4>1. k = i \/ k = j \/ (k \in 1 .. Len(rows) /\ i < k)
        BY <1>7, <2>1, <2>3
      <4> QED BY <1>3, <1>7, <1>10, <2>1, <3>1, <4>1
    <3> QED BY <1>3, <3>1, <3>2, <3>3
  <2> QED BY <2>1, <2>2, <2>3
<1>12. ASSUME NEW i \in 1 .. Len(all), NEW j \in 1 .. Len(all), i < j, all[i].drive = d
       PROVE  all[j].drive = d
  <2>1. i \in 1 .. Len(rows) /\ (j \in 1 .. Len(rows) \/ j = Len(rows) + 1)
    BY <1>7, <1>12
  <2> QED BY <1>3, <1>7, <1>10, <1>12, <2>1
<1>13. current'.drive = d
  BY <1>1
<1>14. Written(all)'
  BY <1>6, <1>8, <1>11, <1>12, <1>13 DEF Written
<1> QED BY <1>3, <1>14

\* Everything written, whether it is still in line_buffer or not.
AllOutput == writer.output \o writer.buffer
Above == IF command.header /\ ~writer.header THEN <<Header>> ELSE <<>>
WriterFields == {"header", "buffer", "output"}
AnyLine == AllLines \cup {Header}

OutputInv ==
    /\ DOMAIN writer = WriterFields
    /\ writer.header \in BOOLEAN /\ (writer.header => command.header)
    /\ writer.output \in Seq(AnyLine) /\ writer.buffer \in Seq(AnyLine)
    /\ stage # "searching" => writer.buffer = <<>>
    /\ \E rows : /\ Written(rows) /\ AllOutput = Above \o rows
                 /\ command.header => (writer.header <=> rows = <<>>)

\* Putting sequences together.
LEMMA SeqFacts ==
  ASSUME NEW T, NEW a \in Seq(T), NEW b \in Seq(T), NEW e \in T
  PROVE  /\ a \o b \in Seq(T) /\ <<e>> \in Seq(T) /\ Append(b, e) \in Seq(T) /\ <<>> \in Seq(T)
         /\ a \o Append(b, e) = Append(a \o b, e)
         /\ (a \o b) \o <<e>> = Append(a \o b, e)
         /\ a \o <<>> = a /\ <<>> \o a = a
         /\ Append(a, e) # <<>>
OBVIOUS

LEMMA LineIs ==
  ASSUME NEW w, DOMAIN w = WriterFields, NEW T, w.output \in Seq(T), w.buffer \in Seq(T),
         NEW line \in T, NEW flush
  PROVE  LET u == Line(w, line, flush)
         IN /\ DOMAIN u = WriterFields /\ u.header = w.header
            /\ u.output \in Seq(T) /\ u.buffer \in Seq(T)
            /\ u.output \o u.buffer = Append(w.output \o w.buffer, line)
<1> DEFINE u == Line(w, line, flush)
           a == w.output
           b == w.buffer
<1>1. CASE flush
  <2>1. /\ DOMAIN u = WriterFields /\ u.header = w.header
        /\ u.output = (a \o b) \o <<line>> /\ u.buffer = <<>>
    BY <1>1 DEF Line, WriterFields
  <2>2. a \in Seq(T) /\ b \in Seq(T)
    OBVIOUS
  <2> HIDE DEF u, a, b
  <2>3. /\ u.output = Append(a \o b, line) /\ u.output \in Seq(T) /\ u.buffer \in Seq(T)
        /\ u.output \o <<>> = u.output
    <3>1. a \o b \in Seq(T) /\ (a \o b) \o <<line>> = Append(a \o b, line) /\ <<>> \in Seq(T)
      BY <2>2, SeqFacts
    <3> DEFINE c == a \o b
    <3>2. c \in Seq(T)
      BY <3>1
    <3> HIDE DEF c
    <3>3. Append(c, line) \in Seq(T) /\ Append(c, line) \o <<>> = Append(c, line)
      BY <3>2
    <3> QED BY <2>1, <3>1, <3>3 DEF c
  <2> QED BY <2>1, <2>3 DEF u, a, b
<1>2. CASE ~flush
  <2>1. /\ DOMAIN u = WriterFields /\ u.header = w.header
        /\ u.output = a /\ u.buffer = Append(b, line)
    BY <1>2 DEF Line, WriterFields
  <2>2. a \in Seq(T) /\ b \in Seq(T)
    OBVIOUS
  <2> HIDE DEF u, a, b
  <2>3. a \o Append(b, line) = Append(a \o b, line) /\ Append(b, line) \in Seq(T)
    BY <2>2, SeqFacts
  <2> QED BY <2>1, <2>2, <2>3 DEF u, a, b
<1> QED BY <1>1, <1>2

LEMMA HeadedIs ==
  ASSUME NEW w, DOMAIN w = WriterFields, w.output \in Seq(AnyLine), w.buffer \in Seq(AnyLine),
         NEW flush
  PROVE  LET u == Headed(w, flush)
         IN /\ DOMAIN u = WriterFields
            /\ w.header => u.header = FALSE
            /\ ~w.header => u = w
            /\ u.output \in Seq(AnyLine) /\ u.buffer \in Seq(AnyLine)
            /\ w.header => u.output \o u.buffer = Append(w.output \o w.buffer, Header)
<1>1. CASE w.header
  <2> DEFINE l == Line(w, Header, flush)
             u == [l EXCEPT !.header = FALSE]
  <2>1. /\ DOMAIN l = WriterFields
        /\ l.output \in Seq(AnyLine) /\ l.buffer \in Seq(AnyLine)
        /\ l.output \o l.buffer = Append(w.output \o w.buffer, Header)
    <3>1. Header \in AnyLine
      BY DEF AnyLine
    <3> QED BY <3>1, LineIs
  <2> HIDE DEF l
  <2>2. /\ DOMAIN u = WriterFields /\ u.header = FALSE
        /\ u.output = l.output /\ u.buffer = l.buffer
    BY <2>1 DEF WriterFields
  <2>3. Headed(w, flush) = u
    BY <1>1 DEF Headed, l
  <2> HIDE DEF u
  <2> QED BY <1>1, <2>1, <2>2, <2>3
<1>2. CASE ~w.header
  BY <1>2 DEF Headed
<1> QED BY <1>1, <1>2

LEMMA VisitKeepsOutput == ASSUME PlanInv, OutputInv, VisitNext PROVE OutputInv'
<1>1. /\ stage = "searching" /\ stage' = stage /\ command' = command
      /\ Above' = IF command.header /\ ~writer'.header THEN <<Header>> ELSE <<>>
  BY DEF VisitNext, Above
<1>2. PICK rows : /\ Written(rows) /\ AllOutput = Above \o rows
                  /\ command.header => (writer.header <=> rows = <<>>)
  BY DEF OutputInv
<1>3. /\ DOMAIN writer = WriterFields /\ writer.header \in BOOLEAN /\ (writer.header => command.header)
      /\ writer.output \in Seq(AnyLine) /\ writer.buffer \in Seq(AnyLine)
  BY DEF OutputInv
<1>4. CASE ~Tree[current.drive][current.visits + 1].match
  <2>1. writer' = writer
    BY <1>4 DEF VisitNext
  <2>2. Written(rows)'
    BY <1>2, <1>4, WrittenSkips
  <2>3. AllOutput' = AllOutput /\ Above' = Above
    BY <1>1, <2>1 DEF AllOutput, Above
  <2> QED BY <1>1, <1>2, <1>3, <2>1, <2>2, <2>3 DEF OutputInv
<1>5. CASE Tree[current.drive][current.visits + 1].match
  <2>1. PICK line : line = LineOf(current.drive, current.visits + 1)
    OBVIOUS
  <2>2. line \in AllLines /\ Written(Append(rows, line))'
    BY <1>2, <1>5, <2>1, WrittenGrows
  <2>3. PICK first, second \in BOOLEAN : writer' = Line(Headed(writer, first), line, second)
    BY <1>5, <2>1 DEF VisitNext, LineOf
  <2> DEFINE h == Headed(writer, first)
             w == Line(h, line, second)
  <2>4. /\ DOMAIN h = WriterFields
        /\ writer.header => h.header = FALSE
        /\ ~writer.header => h = writer
        /\ h.output \in Seq(AnyLine) /\ h.buffer \in Seq(AnyLine)
        /\ writer.header => h.output \o h.buffer = Append(AllOutput, Header)
    BY <1>3, HeadedIs DEF AllOutput
  <2>5. line \in AnyLine
    BY <2>2 DEF AnyLine
  <2> HIDE DEF h
  <2>6. /\ DOMAIN w = WriterFields /\ w.header = h.header
        /\ w.output \in Seq(AnyLine) /\ w.buffer \in Seq(AnyLine)
        /\ w.output \o w.buffer = Append(h.output \o h.buffer, line)
    <3> DEFINE T == AnyLine
    <3>1. /\ DOMAIN h = WriterFields /\ h.output \in Seq(T) /\ h.buffer \in Seq(T)
          /\ line \in T
      BY <2>4, <2>5
    <3> HIDE DEF T
    <3>2. /\ DOMAIN w = WriterFields /\ w.header = h.header
          /\ w.output \in Seq(T) /\ w.buffer \in Seq(T)
          /\ w.output \o w.buffer = Append(h.output \o h.buffer, line)
      BY <3>1, LineIs
    <3> QED BY <3>2 DEF T
  <2>7. writer' = w
    BY <2>3 DEF h
  <2> HIDE DEF w
  <2>8. ~writer'.header /\ writer'.header \in BOOLEAN
    BY <1>3, <2>4, <2>6, <2>7
  <2>9. rows \in Seq(AnyLine) /\ Above \in Seq(AnyLine)
    <3>1. AllLines \subseteq AnyLine /\ Header \in AnyLine /\ rows \in Seq(AllLines)
      BY <1>2 DEF Written, AnyLine
    <3>2. rows \in Seq(AnyLine)
      BY <3>1
    <3> QED BY <3>1, <3>2 DEF Above
  <2>10. h.output \o h.buffer = Above' \o rows
    <3>1. CASE writer.header
      <4>1. rows = <<>> /\ Above = <<>> /\ Above' = <<Header>> /\ Above \o rows = <<>>
        BY <1>1, <1>2, <1>3, <2>8, <3>1 DEF Above
      <4>2. h.output \o h.buffer = Append(<<>>, Header)
        BY <1>2, <2>4, <3>1, <4>1
      <4> QED BY <4>1, <4>2
    <3>2. CASE ~writer.header
      BY <1>1, <1>2, <2>4, <2>8, <3>2 DEF AllOutput, Above
    <3> QED BY <3>1, <3>2
  <2>11. Above' \in Seq(AnyLine)
    <3>1. Header \in AnyLine
      BY DEF AnyLine
    <3> QED BY <1>1, <3>1
  <2>12. AllOutput' = Above' \o Append(rows, line)
    <3> DEFINE a == Above'
    <3>1. a \in Seq(AnyLine) /\ AllOutput' = Append(a \o rows, line)
      BY <2>6, <2>7, <2>10, <2>11 DEF AllOutput
    <3> HIDE DEF a
    <3>2. a \o Append(rows, line) = Append(a \o rows, line)
      BY <2>5, <2>9, <3>1, SeqFacts
    <3> QED BY <3>1, <3>2 DEF a
  <2>13. Append(rows, line) # <<>>
    BY <2>5, <2>9
  <2>14. \E all : /\ Written(all)' /\ AllOutput' = Above' \o all
                  /\ command'.header => (writer'.header <=> all = <<>>)
    BY <2>2, <2>8, <2>12, <2>13
  <2> QED BY <1>1, <2>6, <2>7, <2>8, <2>14 DEF OutputInv
<1> QED BY <1>4, <1>5

LEMMA SearchedKeepsOutput == ASSUME PlanInv, OutputInv, DriveSearched PROVE OutputInv'
<1>1. /\ stage' = "loop" /\ command' = command
      /\ writer' = [writer EXCEPT !.output = @ \o writer.buffer, !.buffer = <<>>]
  BY DEF DriveSearched
<1>2. /\ DOMAIN writer = WriterFields /\ writer.header \in BOOLEAN /\ (writer.header => command.header)
      /\ writer.output \in Seq(AnyLine) /\ writer.buffer \in Seq(AnyLine)
  BY DEF OutputInv
<1>3. /\ DOMAIN writer' = WriterFields /\ writer'.header = writer.header
      /\ writer'.output = AllOutput /\ writer'.buffer = <<>>
  BY <1>1, <1>2 DEF WriterFields, AllOutput
<1>4. AllOutput \in Seq(AnyLine)
  BY <1>2 DEF AllOutput
<1>5. AllOutput' = AllOutput /\ Above' = Above /\ <<>> \in Seq(AnyLine)
  <2> DEFINE a == AllOutput
  <2>1. a \in Seq(AnyLine) /\ AllOutput' = a \o <<>>
    BY <1>3, <1>4 DEF AllOutput
  <2> HIDE DEF a
  <2>2. a \o <<>> = a
    BY <2>1
  <2> QED BY <1>1, <1>3, <2>1, <2>2 DEF a, Above
<1>6. PICK rows : /\ Written(rows) /\ AllOutput = Above \o rows
                  /\ command.header => (writer.header <=> rows = <<>>)
  BY DEF OutputInv
<1>7. Written(rows)'
  BY <1>6, SearchedKeepsPlan, WrittenStays
<1> QED BY <1>1, <1>2, <1>3, <1>4, <1>5, <1>6, <1>7 DEF OutputInv

\* Every other step writes nothing.
LEMMA QuietOutput ==
  ASSUME OutputInv, NoneMade, writer' = writer, command' = command,
         stage # "searching" \/ stage' = "searching"
  PROVE  OutputInv'
<1>1. PICK rows : /\ Written(rows) /\ AllOutput = Above \o rows
                  /\ command.header => (writer.header <=> rows = <<>>)
  BY DEF OutputInv
<1>2. Written(rows)'
  BY <1>1, WrittenStays
<1>3. AllOutput' = AllOutput /\ Above' = Above
  BY DEF AllOutput, Above
<1> QED BY <1>1, <1>2, <1>3 DEF OutputInv

CommandInv == PlanInv /\ OutputInv

LEMMA CommandInvInit ==
  ASSUME DrivesInit, NEW c \in Commands, CommandInit(c)
  PROVE  CommandInv
<1>1. /\ command = c /\ stage = "options" /\ indices = <<>> /\ posted = 0 /\ pending = <<>>
      /\ current = NoDrive /\ status = "none"
      /\ writer = [header |-> c.header, buffer |-> <<>>, output |-> <<>>]
  BY DEF CommandInit
<1>2. Range(pending) = {} /\ 0 .. posted - 1 = {}
  BY <1>1 DEF Range
<1>3. \A d : ~Done(d)
  BY <1>1 DEF Done
<1>4. DrivesInv
  BY NewIndexIs DEF DrivesInit, DrivesInv
<1>5. PlanInv
  BY <1>1, <1>2, <1>3, <1>4 DEF PlanInv, NoDrive, IsInjective
<1>6. c.header \in BOOLEAN
  BY CommandsAssumption DEF IsCommand
<1>7. current.drive = 0 /\ 0 \notin Drives
  BY <1>1 DEF NoDrive, Drives
<1>8. \A d \in Drives : MadeOf(d) = 0
  BY <1>3, <1>7 DEF MadeOf
<1>9. Written(<<>>)
  <2>1. \A l \in AllLines : ~IsWritten(l)
    BY <1>8, LinesAre DEF IsWritten
  <2> QED BY <2>1 DEF Written, IsInjective, Range
<1>10. /\ AllOutput = <<>> \o <<>> /\ (command.header => Above = <<>>) /\ (~command.header => Above = <<>>)
  BY <1>1, <1>6 DEF AllOutput, Above
<1>11. OutputInv
  BY <1>1, <1>6, <1>9, <1>10 DEF OutputInv, WriterFields
<1> QED BY <1>5, <1>11 DEF CommandInv

LEMMA CommandInvNext ==
  CommandInv /\ [CommandNext]_<<indexVars, commandVars>> => CommandInv'
<1> SUFFICES ASSUME CommandInv, [CommandNext]_<<indexVars, commandVars>> PROVE CommandInv'
  OBVIOUS
<1>1. PlanInv /\ OutputInv
  BY DEF CommandInv
<1>2. ASSUME PlanInv' /\ NoneMade, writer' = writer, command' = command,
             stage # "searching" \/ stage' = "searching"
      PROVE  CommandInv'
  BY <1>1, <1>2, QuietOutput DEF CommandInv
<1>3. CASE Create
  BY <1>1, <1>2, <1>3, CreateKeepsPlan DEF Create
<1>4. CASE Post
  BY <1>1, <1>2, <1>4, PostKeepsPlan DEF Post
<1>5. CASE Waited
  BY <1>1, <1>2, <1>5, WaitedKeepsPlan DEF Waited
<1>6. CASE VisitNext
  BY <1>1, <1>6, VisitKeepsPlan, VisitKeepsOutput DEF CommandInv
<1>7. CASE DriveSearched
  BY <1>1, <1>7, SearchedKeepsPlan, SearchedKeepsOutput DEF CommandInv
<1>8. CASE Refuse \/ AllPosted \/ RaiseFirst \/ Finish \/ UNCHANGED <<indexVars, commandVars>>
  <2>1. /\ writer' = writer /\ command' = command
        /\ stage # "searching" \/ stage' = "searching"
    BY <1>8 DEF Refuse, AllPosted, RaiseFirst, Finish, commandVars
  <2> QED BY <1>1, <1>2, <1>8, <2>1, OtherKeepsPlan
<1>9. ASSUME NEW d \in Drives, Payload(d) PROVE CommandInv'
  <2>1. writer' = writer /\ command' = command /\ stage' = stage
    BY <1>9 DEF Payload, commandVars
  <2> QED BY <1>1, <1>2, <1>9, <2>1, PayloadKeepsPlan
<1> QED BY <1>3, <1>4, <1>5, <1>6, <1>7, <1>8, <1>9 DEF CommandNext, Main

THEOREM CommandInvariant == CommandSpec => []CommandInv
<1>1. DrivesInit /\ (\E c \in Commands : CommandInit(c)) => CommandInv
  BY CommandInvInit
<1> QED BY <1>1, CommandInvNext, PTL DEF CommandSpec

\* CommandLine!OutputComplete: a command that ends has written every match of every
\* drive it was asked for once, drive after drive and under one header, in whatever
\* order the drives finish and whenever the buffer is written.
THEOREM EverythingIsWritten == CommandSpec => []OutputComplete
<1>1. CommandInv => OutputComplete
  <2> SUFFICES ASSUME PlanInv, OutputInv, status = "done"
               PROVE  /\ writer.output = (IF command.header /\ Rows # <<>> THEN <<Header>> ELSE <<>>) \o Rows
                      /\ IsInjective(Rows)
                      /\ Range(Rows) = UNION {{[drive |-> d, visit |-> v] :
                              v \in {w \in 1 .. index[d].names : Tree[d][w].match}} : d \in Asked}
                      /\ \A i, j \in DOMAIN Rows :
                            i < j /\ Rows[i].drive = Rows[j].drive =>
                                /\ Rows[i].visit < Rows[j].visit
                                /\ \A k \in i .. j : Rows[k].drive = Rows[i].drive
    BY DEF CommandInv, OutputComplete
  <2>1. /\ stage = "ended" /\ pending = <<>> /\ posted = Len(indices) /\ Range(indices) = Asked
        /\ indices \in Seq(Drives) /\ current = NoDrive
    BY DEF PlanInv
  <2>2. PICK rows : /\ Written(rows) /\ AllOutput = Above \o rows
                    /\ command.header => (writer.header <=> rows = <<>>)
    BY DEF OutputInv
  <2>3. /\ rows \in Seq(AllLines) /\ DOMAIN rows = 1 .. Len(rows)
        /\ \A i \in 1 .. Len(rows) : rows[i] \in AllLines
    BY <2>2 DEF Written
  <2>4. writer.output = Above \o rows
    <3>1. writer.buffer = <<>> /\ writer.output \in Seq(AnyLine)
      BY <2>1 DEF OutputInv
    <3> DEFINE a == writer.output
    <3>2. a \in Seq(AnyLine) /\ AllOutput = a \o <<>>
      BY <3>1 DEF AllOutput
    <3> HIDE DEF a
    <3>3. a \o <<>> = a
      BY <3>2
    <3> QED BY <2>2, <3>2, <3>3 DEF a
  <2>5. Rows = rows
    <3>1. CASE Above = <<Header>>
      <4>1. <<Header>> \o rows # <<>> /\ Head(<<Header>> \o rows) = Header /\ Tail(<<Header>> \o rows) = rows
        BY <2>3
      <4> QED BY <2>4, <3>1, <4>1 DEF Rows
    <3>2. CASE Above = <<>>
      <4>1. <<>> \o rows = rows /\ (rows # <<>> => Head(rows) \in AllLines)
        BY <2>3
      <4>2. rows # <<>> => Head(rows) # Header
        BY <4>1, LinesAre
      <4> QED BY <2>4, <3>2, <4>1, <4>2 DEF Rows
    <3> QED BY <3>1, <3>2 DEF Above
  <2>6. Above = IF command.header /\ Rows # <<>> THEN <<Header>> ELSE <<>>
    BY <2>2, <2>5 DEF Above
  <2>7. IsInjective(Rows)
    BY <2>2, <2>5 DEF Written
  <2>8. Asked \subseteq Drives
    BY CommandsAssumption DEF Asked, PlanInv, IsCommand
  <2>9. ASSUME NEW d \in Drives
        PROVE  MadeOf(d) = IF d \in Asked THEN index[d].names ELSE 0
    <3>1. d # current.drive
      BY <2>1 DEF NoDrive, Drives
    <3>2. Done(d) <=> d \in Asked
      <4>1. Range(pending) = {} /\ DOMAIN indices = 1 .. posted
        BY <2>1 DEF Range
      <4> QED BY <2>1, <4>1 DEF Done, Range
    <3> QED BY <3>1, <3>2 DEF MadeOf
  <2>10. ASSUME NEW l \in Range(Rows)
         PROVE  /\ l.drive \in Asked /\ l = [drive |-> l.drive, visit |-> l.visit]
                /\ l.visit \in {w \in 1 .. index[l.drive].names : Tree[l.drive][w].match}
    <3>1. l \in AllLines
      BY <2>3, <2>5 DEF Range
    <3>2. IsWritten(l) /\ l.drive \in Drives /\ l = [drive |-> l.drive, visit |-> l.visit]
      BY <2>2, <2>5, <3>1, LinesAre DEF Written, LineOf
    <3> QED BY <2>9, <3>2 DEF IsWritten
  <2>11. ASSUME NEW d \in Asked, NEW v \in {w \in 1 .. index[d].names : Tree[d][w].match}
         PROVE  [drive |-> d, visit |-> v] \in Range(Rows)
    <3>1. d \in Drives /\ v \in 1 .. Len(Tree[d])
      <4>1. d \in Drives
        BY <2>8
      <4>2. index[d].names \in 0 .. Len(Tree[d]) /\ Len(Tree[d]) \in Nat
        BY <4>1, DrivesAssumption DEF PlanInv, DrivesInv
      <4> QED BY <4>1, <4>2
    <3>2. LineOf(d, v) \in AllLines /\ LineOf(d, v).drive = d /\ LineOf(d, v).visit = v
      BY <3>1, LineOfIs
    <3>3. IsWritten(LineOf(d, v))
      BY <2>9, <3>1, <3>2 DEF IsWritten
    <3>4. LineOf(d, v) \in Range(Rows)
      BY <2>2, <2>5, <3>2, <3>3 DEF Written
    <3> QED BY <3>4 DEF LineOf
  <2>12. Range(Rows) = UNION {{[drive |-> d, visit |-> v] :
              v \in {w \in 1 .. index[d].names : Tree[d][w].match}} : d \in Asked}
    BY <2>10, <2>11
  <2>13. \A i, j \in DOMAIN Rows :
            i < j /\ Rows[i].drive = Rows[j].drive =>
                /\ Rows[i].visit < Rows[j].visit
                /\ \A k \in i .. j : Rows[k].drive = Rows[i].drive
    BY <2>2, <2>3, <2>5 DEF Written
  <2> QED BY <2>4, <2>5, <2>6, <2>7, <2>12, <2>13
<1> QED BY <1>1, CommandInvariant, PTL
=============================================================================
