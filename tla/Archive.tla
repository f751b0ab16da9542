------------------------------ MODULE Archive ------------------------------
(***************************************************************************)
(* The archive of settled markets (event_archive.rs): which are archived   *)
(* and since when, the index of them in order of time, and pruning page by *)
(* page.  Market identifiers are ordered; here they are numbers.           *)
(***************************************************************************)
EXTENDS Clock, Sequences

CONSTANTS
  Settled,       \* markets, in their order; Resolved or Cancelled for good
  NotArchived,   \* no time is stored
  MaxArchive,    \* MAX_ARCHIVE_SIZE
  MaxPage,       \* MAX_QUERY_LIMIT
  Pages,         \* how many entries a prune asks for
  MaxPrunes      \* bound on the prunes

(* Time 0 in a cursor reads as the beginning: ledger times are positive.   *)
ASSUME ArchiveAssumption ==
  /\ StartTime > 0
  /\ Settled \subseteq Nat
  /\ NotArchived \notin Nat
  /\ MaxArchive \in Nat
  /\ MaxPage \in Nat
  /\ Pages \subseteq Nat
  /\ MaxPrunes \in Nat

VARIABLES
  archived,  \* evt_archived
  index,     \* evt_arch_ix
  cursors,   \* the cursors returned so far, any of which may be passed
  prunes     \* how many prunes there were

archiveVars == <<archived, index, cursors, prunes>>

Entries == [at : Nat, market : Settled]

Cursors == [at : Nat, market : Nat, done : BOOLEAN]

(* PruneCursor::new: passing none is passing this one.                     *)
FromStart == [at |-> 0, market |-> 0, done |-> FALSE]

ArchiveTypeOK ==
  /\ now \in StartTime..MaxTime
  /\ archived \in [Settled -> Nat \cup {NotArchived}]
  /\ index \in Seq(Entries)
  /\ cursors \subseteq Cursors
  /\ prunes \in 0..MaxPrunes

ArchiveInit ==
  /\ now = StartTime
  /\ archived = [m \in Settled |-> NotArchived]
  /\ index = <<>>
  /\ cursors = {FromStart}
  /\ prunes = 0

Archived == {m \in Settled : archived[m] # NotArchived}

Before(e, f) == e.at < f.at \/ (e.at = f.at /\ e.market < f.market)

(* insert_into_sorted_index: before the first entry it precedes.           *)
Inserted(e) ==
  LET later == {i \in 1..Len(index) : Before(e, index[i])}
      place == IF later = {} THEN Len(index) + 1
               ELSE CHOOSE i \in later : \A j \in later : i <= j
  IN  [i \in 1..(Len(index) + 1) |->
         IF i < place THEN index[i] ELSE IF i = place THEN e ELSE index[i - 1]]

ArchiveEvent(m) ==
  /\ m \notin Archived
  /\ Len(index) < MaxArchive
  /\ archived' = [archived EXCEPT ![m] = now]
  /\ index' = Inserted([at |-> now, market |-> m])
  /\ UNCHANGED <<now, cursors, prunes>>

(* The entries up to the cursor, which a prune leaves alone.               *)
Skipped(c) ==
  IF c.at = 0 THEN 0
  ELSE LET later == {i \in 1..Len(index) : Before(c, index[i])}
       IN  IF later = {} THEN Len(index)
           ELSE (CHOOSE i \in later : \A j \in later : i <= j) - 1

PageEnd(c, count) ==
  LET page == IF count < MaxPage THEN count ELSE MaxPage
      end == Skipped(c) + page
  IN  IF end < Len(index) THEN end ELSE Len(index)

(* Seeded fault: the entries leave the index alone.                        *)
PruneIndexOnly(c, count) ==
  /\ ~c.done /\ count > 0 /\ MaxPage > 0
  /\ prunes < MaxPrunes
  /\ Skipped(c) < Len(index)
  /\ index' = SubSeq(index, 1, Skipped(c))
                \o SubSeq(index, PageEnd(c, count) + 1, Len(index))
  /\ prunes' = prunes + 1
  /\ UNCHANGED <<now, archived, cursors>>

(* prune_archive, where something is left to prune; the next cursor is the *)
(* last entry pruned, and done when the page was not full or the index is  *)
(* empty.                                                                  *)
PruneArchive(c, count) ==
  /\ ~c.done /\ count > 0 /\ MaxPage > 0
  /\ prunes < MaxPrunes
  /\ Skipped(c) < Len(index)
  /\ LET end == PageEnd(c, count)
         gone == {index[i].market : i \in (Skipped(c) + 1)..end}
         left == SubSeq(index, 1, Skipped(c)) \o SubSeq(index, end + 1, Len(index))
     IN  /\ archived' = [m \in Settled |-> IF m \in gone THEN NotArchived
                                           ELSE archived[m]]
         /\ index' = left
         /\ cursors' = cursors \cup
              {[at |-> index[end].at, market |-> index[end].market,
                done |-> \/ left = <<>>
                         \/ end - Skipped(c) < IF count < MaxPage THEN count
                                               ELSE MaxPage]}
  /\ prunes' = prunes + 1
  /\ UNCHANGED now

(* prune_archive, where nothing is left: the cursor comes back done.       *)
PruneNothing(c, count) ==
  /\ ~c.done /\ count > 0 /\ MaxPage > 0
  /\ Skipped(c) >= Len(index)
  /\ cursors' = cursors \cup
       {IF index = <<>> THEN [FromStart EXCEPT !.done = TRUE]
        ELSE [c EXCEPT !.done = TRUE]}
  /\ UNCHANGED <<now, archived, index, prunes>>

ArchiveNext ==
  \/ \E m \in Settled : ArchiveEvent(m)
  \/ \E c \in cursors, count \in Pages :
       PruneArchive(c, count) \/ PruneNothing(c, count)
  \/ Tick /\ UNCHANGED archiveVars

ArchiveSpec == ArchiveInit /\ [][ArchiveNext]_<<now, archiveVars>>

-----------------------------------------------------------------------------
(* The index lists exactly the archived markets, each once and at its      *)
(* time, oldest first, through archiving, archiving again what was pruned, *)
(* and pruning with a cursor from long ago (archive_event, prune_archive   *)
(* keep the two in separate entries).                                      *)
IndexMatchesArchive ==
  /\ \A i \in 1..Len(index) : archived[index[i].market] = index[i].at
  /\ \A m \in Archived : \E i \in 1..Len(index) : index[i].market = m
  /\ \A i \in 1..(Len(index) - 1) : Before(index[i], index[i + 1])
  /\ Len(index) <= MaxArchive

=============================================================================
