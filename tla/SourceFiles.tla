---------------------------- MODULE SourceFiles -----------------------------
(***************************************************************************)
(* What the guest sees of its source files: the merge of the native source *)
(* partition, the legacy RedSea root and the archive bundled with the      *)
(* kernel (zc/runtime.c and the adapters of kernel_stub.c), the two caches *)
(* behind a listing, and the line editor of the shell.                     *)
(*                                                                         *)
(* The partition is its log of records; SourceStore shows that the sectors *)
(* below behave like one. A file is the sequence of its chunks. Every      *)
(* call is one step: the guest's tasks switch only between calls, and a    *)
(* call meets at most one device error.                                    *)
(***************************************************************************)
EXTENDS Naturals, Sequences, FiniteSets, SequencesExt, Lists

CONSTANTS
    Names,          \* path names
    RootNames,      \* the names without a directory
    Files,          \* file contents, sequences of chunks
    Bundled,        \* Bundled[n]: the archive's copy of n, or Absent
    LegacyRoots,    \* the RedSea roots a disk may have had before
    Absent,         \* no such file
    Deleted,        \* hidden by a tombstone
    Unknown,        \* not promised to anybody
    MaxRecords,     \* records the partition has room for
    Budgets,        \* bounds on the saves of tasks and shell, and on uploads
    MaxFaults       \* bound on device errors

ASSUME FilesAssumption ==
    /\ RootNames \subseteq Names
    /\ Bundled \in [Names -> Files \union {Absent}]
    /\ IsFiniteSet({n \in Names : Bundled[n] # Absent})
    /\ LegacyRoots \subseteq [RootNames -> Files \union {Absent}]
    /\ Files # {} /\ \A f \in Files : f # <<>> /\ f \in Seq(ToSet(f))
    /\ {Absent, Deleted, Unknown} \intersect Files = {}
    /\ Absent # Deleted /\ Absent # Unknown /\ Deleted # Unknown
    /\ MaxRecords \in Nat /\ MaxFaults \in Nat
    /\ Budgets \subseteq [saves : Nat, uploads : Nat]

VARIABLES
    budget,     \* the bounds of this behaviour
    part,       \* the disk has a native source partition
    log,        \* its records, oldest first
    legacy,     \* the files of the RedSea root
    revision,   \* g_zss_catalog_revision
    catalog,    \* g_zss_catalog and its valid flag
    cache,      \* source_list_cache; "whole" remembers that no error cut it
    edit,       \* g_zedit
    faults,     \* device errors so far
    acked,      \* history: what the last answer about a name promised
    landed      \* history: a record reached the disk though its write failed

fileVars == <<budget, part, log, legacy, revision, catalog, cache, edit, faults,
              acked, landed>>

Record == [name : Names, x : Files \union {Deleted}]

-----------------------------------------------------------------------------
(* The partition.                                                          *)

\* zss_find without an error: the last record of a name counts.
zss_find(n) ==
    LET mine == {i \in DOMAIN log : log[i].name = n}
    IN  IF mine = {} THEN Absent ELSE log[Max(mine)].x

\* zss_entry_at: the latest record of each name, in the order in which the
\* names first appear.
FirstOf(l, i) == \A j \in 1 .. i - 1 : l[j].name # l[i].name
CatalogOf(l) ==
    LET Latest(n) == l[Max({i \in DOMAIN l : l[i].name = n})]
        firsts == Only([i \in DOMAIN l |-> i], {i \in DOMAIN l : FirstOf(l, i)})
    IN  [k \in DOMAIN firsts |-> Latest(l[firsts[k]].name)]

\* How an append can end: saved; saved, but the last flush failed; failed;
\* failed for the caller although the device wrote the record later.
Endings == {"saved", "unflushed", "failed", "landed"}

FaultsOf(ending) == IF ending = "saved" THEN 0 ELSE 1

\* Mutant: an append that forgets the catalog.
KeepCatalog(n, x, ending) ==
    /\ Len(log) < MaxRecords
    /\ faults + FaultsOf(ending) <= MaxFaults
    /\ faults' = faults + FaultsOf(ending)
    /\ log' = IF ending = "failed" THEN log
              ELSE Append(log, [name |-> n, x |-> x])
    /\ revision' = IF ending \in {"saved", "unflushed"} THEN revision + 1
                   ELSE revision
    /\ landed' = (landed \/ ending = "landed")
    /\ acked' = [acked EXCEPT ![n] = IF ending = "saved" THEN x ELSE Unknown]
    /\ UNCHANGED catalog

\* What zss_put, zss_delete and zss_stream_finish leave behind.
append(n, x, ending) ==
    /\ Len(log) < MaxRecords
    /\ faults + FaultsOf(ending) <= MaxFaults
    /\ faults' = faults + FaultsOf(ending)
    /\ log' = IF ending = "failed" THEN log
              ELSE Append(log, [name |-> n, x |-> x])
    /\ IF ending \in {"saved", "unflushed"}
       THEN /\ revision' = revision + 1
            /\ catalog' = [catalog EXCEPT !.valid = FALSE]
            /\ landed' = FALSE
       ELSE /\ landed' = (landed \/ ending = "landed")
            /\ UNCHANGED <<revision, catalog>>
    /\ acked' = [acked EXCEPT ![n] =
                    CASE ending = "saved" -> x
                      [] ending = "failed" -> acked[n]
                      [] OTHER -> Unknown]

-----------------------------------------------------------------------------
(* Reading. An error of a lookup is "none", "super" (no superblock could   *)
(* be read: the partition looks absent) or "log" (a record or a block).    *)

legacy_of(n) == IF n \in RootNames THEN legacy[n] ELSE Absent

\* Mutant: a tombstone does not stop the search.
TombstoneIgnored(n, error) ==
    IF part /\ error = "none" /\ zss_find(n) \in Files THEN <<"ok", zss_find(n)>>
    ELSE IF legacy_of(n) = Absent THEN <<"missing", Absent>>
    ELSE <<"ok", legacy_of(n)>>

\* zc_read_redsea: <<status, file>>, with the legacy root behind the
\* partition.
zc_read_redsea(n, error) ==
    LET found == zss_find(n)
    IN  CASE ~part \/ error = "super" \/ (error = "none" /\ found = Absent) ->
                 IF legacy_of(n) = Absent THEN <<"missing", Absent>>
                 ELSE <<"ok", legacy_of(n)>>
          [] part /\ error = "log" -> <<"missing", Absent>>
          [] part /\ error = "none" /\ found = Deleted -> <<"deleted", Absent>>
          [] OTHER -> <<"ok", found>>

\* disk_copy asks for the size and then for the bytes.
disk_copy(n, e1, e2) ==
    LET size == zc_read_redsea(n, e1)
        bytes == zc_read_redsea(n, e2)
    IN  IF size[1] # "ok" THEN size
        ELSE IF bytes[1] = "ok" /\ Len(bytes[2]) = Len(size[2]) THEN bytes
        ELSE <<"missing", Absent>>

\* source_file_find, behind FileRead and #include: the disk first, then the
\* archive, unless a tombstone hides it.
source_file_find(n, e1, e2) ==
    LET d == disk_copy(n, e1, e2)
    IN  IF d[1] = "missing" THEN Bundled[n] ELSE d[2]

FileRead(n) == source_file_find(n, "none", "none")

-----------------------------------------------------------------------------
(* Listing.                                                                *)

\* The archive's files in their order.
ArchiveOrder == SetToSeq({n \in Names : Bundled[n] # Absent})

\* source_list_cache_build, from the first "cut" entries of the overlay: the
\* call takes an error of zss_entry_at for the end of the catalog.
ListOf(overlay) ==
    LET Over(n) == {r \in ToSet(overlay) : r.name = n}
        Hidden(n) == \E r \in Over(n) : r.x = Deleted
        Entry(n) == [name |-> n,
                     size |-> IF Over(n) = {} THEN Len(Bundled[n])
                              ELSE Len((CHOOSE r \in Over(n) : TRUE).x)]
        archive == Only(ArchiveOrder, {n \in Names : ~Hidden(n)})
        added == Only(overlay, {r \in ToSet(overlay) :
                                    r.x # Deleted /\ Bundled[r.name] = Absent})
    IN  [i \in DOMAIN archive |-> Entry(archive[i])]
        \o [i \in DOMAIN added |-> Entry(added[i].name)]

\* A listing: the catalog is read if it is not valid, and the overlay ends
\* at the first entry that could not be read.
source_list_cache_build(cut) ==
    LET items == IF ~part THEN <<>>
                 ELSE IF catalog.valid THEN catalog.items ELSE CatalogOf(log)
        unread == cut = 0 /\ ~catalog.valid
    IN  /\ cut \in 0 .. Len(items)
        /\ faults + (IF cut < Len(items) THEN 1 ELSE 0) <= MaxFaults
        /\ faults' = faults + (IF cut < Len(items) THEN 1 ELSE 0)
        /\ catalog' = IF part /\ (cut = Len(items) \/ ~unread)
                      THEN [valid |-> TRUE, items |-> items] ELSE catalog
        /\ cache' = [ready |-> TRUE, revision |-> revision,
                     list |-> ListOf(SubSeq(items, 1, cut)),
                     whole |-> cut = Len(items)]

\* FilesFind walks host_source_file_at from index 0, which rebuilds the list.
FilesFind ==
    /\ \E cut \in 0 .. MaxRecords : source_list_cache_build(cut)
    /\ UNCHANGED <<budget, part, log, legacy, revision, edit, acked, landed>>

\* source_dir_exists: source_list_cache_ensure, a list of this revision is used as it is.
DirExists ==
    /\ ~cache.ready \/ cache.revision # revision
    /\ \E cut \in 0 .. MaxRecords : source_list_cache_build(cut)
    /\ UNCHANGED <<budget, part, log, legacy, revision, edit, acked, landed>>

-----------------------------------------------------------------------------
(* Writing.                                                                *)

\* zc_write_source into the partition.
FileWrite(n, f) ==
    /\ part
    /\ revision < budget.saves
    /\ \E ending \in Endings : append(n, f, ending)
    /\ UNCHANGED <<budget, part, legacy, cache, edit>>

\* zc_write_source when zss_available says no: into the RedSea root. When
\* that answer came from an error and the partition has the name, the saved
\* file stays behind the partition's record.
FileWriteLegacy(n, f) ==
    /\ n \in RootNames
    /\ revision < budget.saves
    /\ part => faults < MaxFaults
    /\ faults' = IF part THEN faults + 1 ELSE faults
    /\ legacy' = [legacy EXCEPT ![n] = f]
    /\ acked' = [acked EXCEPT ![n] =
                    IF part /\ zss_find(n) # Absent THEN Unknown ELSE f]
    /\ UNCHANGED <<budget, part, log, revision, catalog, cache, edit, landed>>

\* The shell's zrm: only a live native file can be deleted.
Zrm(n) ==
    /\ ~edit.active
    /\ part /\ zss_find(n) \in Files
    /\ revision < budget.saves
    /\ \E ending \in Endings : append(n, Deleted, ending)
    /\ UNCHANGED <<budget, part, legacy, cache, edit>>

\* The shell's zgc: only the latest record of each name is copied, in the
\* order of the records. The catalog in memory stays as it is.
Zgc ==
    /\ ~edit.active
    /\ part
    /\ LET latest == {i \in DOMAIN log :
                         \A j \in i + 1 .. Len(log) : log[j].name # log[i].name}
       IN  \E m \in 0 .. Len(log) : \E kept \in [1 .. m -> latest] :
              /\ \A k, l \in 1 .. m : k < l => kept[k] < kept[l]
              /\ latest = {kept[k] : k \in 1 .. m}
              /\ log' = [k \in 1 .. m |-> log[kept[k]]]
    /\ UNCHANGED <<budget, part, legacy, revision, catalog, cache, edit, faults, acked,
                   landed>>

-----------------------------------------------------------------------------
(* The line editor. It is modal for the shell; the guest's tasks go on.    *)

\* zedit_start sets every field again.
Closed == [active |-> FALSE, name |-> CHOOSE n \in Names : TRUE, text |-> <<>>,
           dirty |-> FALSE, existed |-> FALSE]

zedit_start(n) ==
    /\ ~edit.active
    /\ part
    /\ edit' = [active |-> TRUE, name |-> n, dirty |-> FALSE,
                text |-> IF zss_find(n) \in Files THEN zss_find(n) ELSE <<>>,
                existed |-> zss_find(n) \in Files]
    /\ UNCHANGED <<budget, part, log, legacy, revision, catalog, cache, faults, acked,
                   landed>>

\* Any command that changes the text; deleting every line empties it.
zedit_change ==
    /\ edit.active
    /\ revision < budget.saves
    /\ \E t \in Files \union {<<>>} :
           edit' = [edit EXCEPT !.text = t, !.dirty = TRUE]
    /\ UNCHANGED <<budget, part, log, legacy, revision, catalog, cache, faults, acked,
                   landed>>

\* "w" and "wq": an unchanged file is not written, an empty one is refused,
\* and a save that failed leaves the editor open and the text modified.
zedit_save(quit) ==
    /\ edit.active
    /\ \/ /\ ~edit.dirty /\ edit.existed
          /\ quit
          /\ edit' = Closed
          /\ UNCHANGED <<log, revision, catalog, faults, acked, landed>>
       \/ /\ edit.dirty \/ ~edit.existed
          /\ edit.text # <<>>
          /\ revision < budget.saves
          /\ \E ending \in Endings :
                /\ append(edit.name, edit.text, ending)
                /\ edit' = IF ending # "saved" THEN edit
                           ELSE IF quit THEN Closed
                           ELSE [edit EXCEPT !.dirty = FALSE, !.existed = TRUE]
    /\ UNCHANGED <<budget, part, legacy, cache>>

\* "q" refuses to lose a modified text, "q!" does not.
zedit_quit(force) ==
    /\ edit.active
    /\ edit.dirty => force
    /\ edit' = Closed
    /\ UNCHANGED <<budget, part, log, legacy, revision, catalog, cache, faults, acked,
                   landed>>

-----------------------------------------------------------------------------
FilesInit ==
    /\ budget \in Budgets
    /\ part \in BOOLEAN
    /\ log = <<>>
    /\ legacy \in LegacyRoots
    /\ revision = 0
    /\ catalog = [valid |-> FALSE, items |-> <<>>]
    /\ cache = [ready |-> FALSE, revision |-> 0, list |-> <<>>, whole |-> TRUE]
    /\ edit = Closed
    /\ faults = 0
    /\ acked = [n \in Names |-> Absent]
    /\ landed = FALSE

\* The calls of the guest's tasks, and the commands of the shell.
TaskCall ==
    \/ FilesFind
    \/ DirExists
    \/ \E n \in Names, f \in Files : FileWrite(n, f) \/ FileWriteLegacy(n, f)

ShellCommand ==
    \/ \E n \in Names : Zrm(n) \/ zedit_start(n)
    \/ Zgc
    \/ zedit_change
    \/ \E b \in BOOLEAN : zedit_save(b) \/ zedit_quit(b)
=============================================================================
