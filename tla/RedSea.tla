------------------------------- MODULE RedSea -------------------------------
(***************************************************************************)
(* The legacy RedSea volume of src/kernel_stub.c (rs_fmt_host, rs_put_file, *)
(* rs_del_file, rs_rename_file, rs_seed_catalog and                        *)
(* rs_prepare_freeze_catalog): a boot sector, a bitmap sector, a root      *)
(* directory sector of a few slots, and files in contiguous clusters.      *)
(*                                                                         *)
(* Every sector write is a step: it may fail, and the guest may restart    *)
(* between two of them.  Names stand for names up to case (str_ieq).  The  *)
(* volume is never flushed, so a loss of power is outside what it promises *)
(* and outside this module; a restart of the guest keeps what was written. *)
(***************************************************************************)
EXTENDS Integers, Sequences, FiniteSets, FiniteSetsExt

CONSTANTS
    Names, Files,
    Blocks,            \* Blocks[f]: clusters of the file f
    Slots,             \* root directory slots (8)
    Sects,             \* sectors of the volume (at most 128)
    ProbeSector,       \* the sector that virtio_blk_probe_rw writes (15)
    Catalog,           \* g_rs_catalog: a sequence of names
    CatalogFile,       \* CatalogFile[n]: the built-in content of n
    Legacy,            \* the sequence of names that may be evicted
    Extra,             \* "Keep" and "Hi.ZC", which the freeze sequence needs
    Commands,          \* the operations that the shell invokes
    Interruptible,     \* operations in which an error or a restart may fall
    FailedWriteLands,  \* may a write that is reported failed be on the disk?
    MaxFaults,         \* bound on the number of I/O errors in a behaviour
    Absent, Torn

MaxTries == 4

ASSUME VolumeAssumption ==
    /\ Blocks \in [Files -> Nat \ {0}]
    /\ Slots \in Nat \ {0}
    /\ Sects \in Nat /\ Sects >= 4
    /\ ProbeSector \in Nat /\ ProbeSector >= 3
    /\ Catalog \in Seq(Names) /\ Legacy \in Seq(Names)
    /\ CatalogFile \in [Names -> Files]
    /\ Extra \subseteq Names
    /\ FailedWriteLands \subseteq BOOLEAN
    /\ MaxFaults \in Nat
    /\ {Absent, Torn} \intersect Files = {} /\ Absent # Torn

VARIABLES
    boot,      \* is there a valid boot sector?
    map,       \* the bitmap sector: the clusters of Cluster in use
    dir,       \* the root directory sector
    data,      \* the data clusters
    op,        \* the file operation in progress: where it is, its locals
    job,       \* the catalog routine in progress around it
    faults,    \* I/O errors so far
    cut,       \* history: has an operation been interrupted?
    allowed    \* history: what each name may contain

disk == <<boot, map, dir, data>>
vars == <<boot, map, dir, data, op, job, faults, cut, allowed>>

Slot == 1 .. Slots
Cluster == 3 .. Sects - 1
Free == [name |-> Absent]
Run(blk, len) == blk .. blk + len - 1

Zero == [t |-> "zero"]
Probe == [t |-> "probe"]
Block(f, i) == [t |-> "data", file |-> f, i |-> i]

-----------------------------------------------------------------------------
(* Lookups.                                                                *)

Used(d) == {s \in Slot : d[s] # Free}

\* rs_find_slot: the first slot of that name, 0 if there is none.
FindSlot(d, n) ==
    LET S == {s \in Used(d) : d[s].name = n} IN IF S = {} THEN 0 ELSE Min(S)

\* rs_file_exists; an entry always has a length.
Exists(n) == boot /\ FindSlot(dir, n) # 0

\* The bounds that rs_load_file and rs_put_file check.
InVolume(e) == e.blk >= 3 /\ e.blk + e.len <= Sects

\* rs_load_file: a file when all its clusters are that file's.
Content(n) ==
    LET s == FindSlot(dir, n) IN
    IF ~boot \/ s = 0 THEN Absent
    ELSE LET e == dir[s]
             F == {f \in Files :
                     /\ Blocks[f] = e.len
                     /\ \A i \in 0 .. e.len - 1 : data[e.blk + i] = Block(f, i)}
         IN  IF ~InVolume(e) \/ F = {} THEN Torn ELSE CHOOSE f \in F : TRUE

-----------------------------------------------------------------------------
(* Steps of an operation.                                                  *)

Done(kind, code) == [pc |-> "idle", kind |-> kind, code |-> code]

Fault == faults < MaxFaults /\ op.kind \in Interruptible /\ faults' = faults + 1

\* hc_builtin_blkwrite of one sector: Effect is what the write does to the
\* disk; it succeeds and the operation goes on at next, or it fails at fail.
Write(Effect, next, fail) ==
    \/ Effect /\ op' = next /\ UNCHANGED <<faults, cut>>
    \/ /\ Fault
       /\ cut' = TRUE
       /\ op' = fail
       /\ \E lands \in FailedWriteLands : IF lands THEN Effect ELSE UNCHANGED disk

WriteMap(m) == map' = m /\ UNCHANGED <<boot, dir, data>>
WriteDir(d) == dir' = d /\ UNCHANGED <<boot, map, data>>
WriteData(c, v) == data' = [data EXCEPT ![c] = v] /\ UNCHANGED <<boot, map, dir>>

\* An operation that was cut short: what a name contains now, if it may contain
\* that, is what it must contain from now on.
Settle == [n \in Names |-> IF Content(n)' \in allowed[n] THEN {Content(n)'} ELSE allowed[n]]

\* What the names may contain while op is under way and after it.
Outcome ==
    allowed' =
      CASE op' = Done("put", 0) -> [allowed EXCEPT ![op.name] = {op.file}]
        [] op' = Done("del", 0) -> [allowed EXCEPT ![op.name] = {Absent}]
        [] op' = Done("rename", 0) ->
             [allowed EXCEPT ![op.name] = {Absent},
                             ![op.to] = allowed[op.name] \ {Absent}]
        [] op'.pc = "idle" /\ op'.code # 0 -> Settle
        [] OTHER -> allowed

-----------------------------------------------------------------------------
(* rs_put_file.                                                            *)

\* Mutant: only the first cluster of a run is tested.
FreeRunsFirstOnly(m, len) == {b \in Cluster : b + len <= Sects /\ b \notin m}

FreeRuns(m, len) == {b \in Cluster : b + len <= Sects /\ Run(b, len) \intersect m = {}}

\* Up to the first write.  A file that is new or grows gets the first free run.
BeginPut(n, f) ==
    LET len == Blocks[f]
        s == FindSlot(dir, n)
        slots == Slot \ Used(dir)
        fresh == s = 0 \/ len > dir[s].len
        runs == FreeRuns(map, len)
        old == IF s = 0 THEN {} ELSE Run(dir[s].blk, dir[s].len)
    IN  IF ~boot THEN op' = Done("put", -2) /\ UNCHANGED allowed
        ELSE IF s # 0 /\ ~InVolume(dir[s])
             THEN op' = Done("put", -3) /\ UNCHANGED allowed
        ELSE IF s = 0 /\ slots = {} THEN op' = Done("put", -6) /\ UNCHANGED allowed
        ELSE IF fresh /\ runs = {} THEN op' = Done("put", -8) /\ UNCHANGED allowed
        ELSE LET blk == IF fresh THEN Min(runs) ELSE dir[s].blk
             IN  /\ op' = [pc |-> "data", kind |-> "put", name |-> n, file |-> f,
                           blk |-> blk, i |-> 0, fresh |-> fresh, old_map |-> map,
                           map |-> map \union Run(blk, len),
                           dir |-> [dir EXCEPT ![IF s = 0 THEN Min(slots) ELSE s] =
                                      [name |-> n, blk |-> blk, len |-> len]],
                           release |-> IF fresh THEN old ELSE old \ Run(blk, len)]
                 /\ allowed' = [allowed EXCEPT ![n] =
                                  @ \union IF fresh THEN {f} ELSE {f, Torn}]

PutData ==
    /\ op.pc = "data"
    /\ Write(WriteData(op.blk + op.i, Block(op.file, op.i)),
             [op EXCEPT !.i = @ + 1,
                        !.pc = IF op.i + 1 < Blocks[op.file] THEN "data"
                               ELSE IF op.fresh THEN "map" ELSE "dir"],
             Done("put", -12))
    /\ Outcome /\ UNCHANGED job

\* Mutant: the clusters of a new run are not marked.
NoPutMap ==
    /\ op.pc = "map"
    /\ op' = [op EXCEPT !.pc = "dir"]
    /\ UNCHANGED <<disk, job, faults, cut, allowed>>

PutMap ==
    /\ op.pc = "map"
    /\ Write(WriteMap(op.map), [op EXCEPT !.pc = "dir"], Done("put", -9))
    /\ Outcome /\ UNCHANGED job

\* The directory entry is switched; when that fails the old bitmap is restored.
PutDir ==
    /\ op.pc = "dir"
    /\ Write(WriteDir(op.dir),
             IF op.release = {} THEN Done("put", 0) ELSE [op EXCEPT !.pc = "release"],
             IF op.fresh THEN [op EXCEPT !.pc = "undo"] ELSE Done("put", -10))
    /\ Outcome /\ UNCHANGED job

PutUndo ==
    /\ op.pc = "undo"
    /\ Write(WriteMap(op.old_map), Done("put", -10), Done("put", -10))
    /\ Outcome /\ UNCHANGED job

\* The clusters that the file had and no longer has.
PutRelease ==
    /\ op.pc = "release"
    /\ Write(WriteMap(op.map \ op.release), Done("put", 0), Done("put", -13))
    /\ Outcome /\ UNCHANGED job

-----------------------------------------------------------------------------
(* rs_del_file, rs_rename_file and rs_fmt_host.                            *)

BeginDel(n) ==
    LET s == FindSlot(dir, n)
    IN  IF ~boot THEN op' = Done("del", -2) /\ UNCHANGED allowed
        ELSE IF s = 0 THEN op' = Done("del", -3) /\ UNCHANGED allowed
        ELSE /\ op' = [pc |-> "unmap", kind |-> "del", name |-> n,
                       map |-> map \ Run(dir[s].blk, dir[s].len),
                       dir |-> [dir EXCEPT ![s] = Free]]
             /\ allowed' = [allowed EXCEPT ![n] = @ \union {Absent}]

DelMap ==
    /\ op.pc = "unmap"
    /\ Write(WriteMap(op.map), [op EXCEPT !.pc = "clear"], Done("del", -5))
    /\ Outcome /\ UNCHANGED job

DelDir ==
    /\ op.pc = "clear"
    /\ Write(WriteDir(op.dir), Done("del", 0), Done("del", -6))
    /\ Outcome /\ UNCHANGED job

BeginRename(n, m) ==
    LET s == FindSlot(dir, n)
    IN  IF ~boot THEN op' = Done("rename", -2) /\ UNCHANGED allowed
        ELSE IF s = 0 THEN op' = Done("rename", -3) /\ UNCHANGED allowed
        ELSE IF FindSlot(dir, m) # 0
             THEN op' = Done("rename", -4) /\ UNCHANGED allowed
        ELSE /\ op' = [pc |-> "rename", kind |-> "rename", name |-> n, to |-> m,
                       dir |-> [dir EXCEPT ![s].name = m]]
             /\ allowed' = [allowed EXCEPT ![n] = @ \union {Absent},
                                           ![m] = @ \union allowed[n]]

RenameDir ==
    /\ op.pc = "rename"
    /\ Write(WriteDir(op.dir), Done("rename", 0), Done("rename", -5))
    /\ Outcome /\ UNCHANGED job

\* Formatting declares every file lost before its first write.
BeginFmt ==
    /\ op' = [pc |-> "fmtboot", kind |-> "fmt", i |-> 3]
    /\ allowed' = [n \in Names |-> Files \union {Absent, Torn}]

FmtBoot ==
    /\ op.pc = "fmtboot"
    /\ Write(boot' = TRUE /\ UNCHANGED <<map, dir, data>>,
             [op EXCEPT !.pc = "fmtmap"], Done("fmt", -2))
    /\ UNCHANGED <<job, allowed>>

FmtMap ==
    /\ op.pc = "fmtmap"
    /\ Write(WriteMap({}), [op EXCEPT !.pc = "fmtroot"], Done("fmt", -3))
    /\ UNCHANGED <<job, allowed>>

FmtRoot ==
    /\ op.pc = "fmtroot"
    /\ Write(WriteDir([s \in Slot |-> Free]), [op EXCEPT !.pc = "fmtdata"],
             Done("fmt", -4))
    /\ UNCHANGED <<job, allowed>>

FmtData ==
    /\ op.pc = "fmtdata"
    /\ Write(WriteData(op.i, Zero),
             IF op.i + 1 < Sects THEN [op EXCEPT !.i = @ + 1] ELSE Done("fmt", 0),
             Done("fmt", -5))
    /\ allowed' = IF op' = Done("fmt", 0) THEN [n \in Names |-> {Absent}] ELSE allowed
    /\ UNCHANGED job

-----------------------------------------------------------------------------
(* rs_prepare_freeze_catalog and rs_seed_catalog.                          *)

NoJob == [pc |-> "none", code |-> 0]
EndJob(code) == [pc |-> "none", code |-> code]

ToSetOf(s) == {s[i] : i \in DOMAIN s}

\* rs_freeze_missing
Missing == {n \in ToSetOf(Catalog) \union Extra : ~Exists(n)}

\* rs_evict_one_stale deletes the first of the legacy names that exists.
Evictable == {i \in DOMAIN Legacy : Exists(Legacy[i])}

\* Mutant: when no legacy name is left, any file goes.
EvictAny(next, none) ==
    LET stale == {n \in Names : Exists(n)} IN
    IF stale = {} THEN job' = none /\ UNCHANGED <<op, allowed>>
    ELSE BeginDel(CHOOSE n \in stale : TRUE) /\ job' = next

Evict(next, none) ==
    IF Evictable = {} THEN job' = none /\ UNCHANGED <<op, allowed>>
    ELSE BeginDel(Legacy[Min(Evictable)]) /\ job' = next

SeedFrom(i, freeze) == [pc |-> "seed", i |-> i, tries |-> 0, freeze |-> freeze]

\* One turn of the loop that makes room for the missing names.
PrepareTurn ==
    /\ job.pc = "prepare" /\ op.pc = "idle"
    /\ IF job.evicted /\ op.code # 0 THEN job' = EndJob(-1) /\ UNCHANGED <<op, allowed>>
       ELSE IF Cardinality(Used(dir)) + Cardinality(Missing) <= Slots
            THEN job' = SeedFrom(1, TRUE) /\ UNCHANGED <<op, allowed>>
       ELSE IF job.tries >= MaxTries THEN job' = EndJob(-1) /\ UNCHANGED <<op, allowed>>
       ELSE Evict([job EXCEPT !.tries = @ + 1, !.evicted = TRUE], EndJob(-1))
    /\ UNCHANGED <<disk, faults, cut>>

\* The next catalog name: skip it, or write it; the end of the list.
SeedTurn ==
    /\ job.pc = "seed" /\ op.pc = "idle"
    /\ IF job.i > Len(Catalog)
       THEN /\ job' = EndJob(IF job.freeze /\ \E n \in ToSetOf(Catalog) : ~Exists(n)
                             THEN -1 ELSE 0)
            /\ UNCHANGED <<op, allowed>>
       ELSE IF job.tries = 0 /\ Exists(Catalog[job.i])
            THEN job' = SeedFrom(job.i + 1, job.freeze) /\ UNCHANGED <<op, allowed>>
       ELSE IF job.tries >= MaxTries
            THEN job' = SeedFrom(job.i + 1, job.freeze) /\ UNCHANGED <<op, allowed>>
       ELSE /\ BeginPut(Catalog[job.i], CatalogFile[Catalog[job.i]])
            /\ job' = [job EXCEPT !.pc = "put", !.tries = @ + 1]
    /\ UNCHANGED <<disk, faults, cut>>

\* Mutant: a failed write is repeated without end.
SeedPutAgain ==
    /\ job.pc = "put" /\ op.pc = "idle"
    /\ job' = IF op.code = 0 THEN SeedFrom(job.i + 1, job.freeze)
              ELSE [job EXCEPT !.pc = "seed", !.tries = 1]
    /\ UNCHANGED <<disk, op, faults, cut, allowed>>

\* After the write: go on with the next name, or evict and try again.
SeedPut ==
    /\ job.pc = "put" /\ op.pc = "idle"
    /\ LET skip == SeedFrom(job.i + 1, job.freeze) IN
       IF op.code = 0 THEN job' = skip /\ UNCHANGED <<op, allowed>>
       ELSE Evict([job EXCEPT !.pc = "evict"], skip)
    /\ UNCHANGED <<disk, faults, cut>>

SeedEvicted ==
    /\ job.pc = "evict" /\ op.pc = "idle"
    /\ job' = IF op.code = 0 THEN [job EXCEPT !.pc = "seed"]
              ELSE SeedFrom(job.i + 1, job.freeze)
    /\ UNCHANGED <<disk, op, faults, cut, allowed>>

-----------------------------------------------------------------------------
Command ==
    /\ op.pc = "idle" /\ job.pc = "none"
    /\ UNCHANGED <<disk, faults, cut>>
    /\ \/ /\ "put" \in Commands /\ UNCHANGED job
          /\ \E n \in Names, f \in Files : BeginPut(n, f)
       \/ /\ "del" \in Commands /\ UNCHANGED job
          /\ \E n \in Names : BeginDel(n)
       \/ /\ "rename" \in Commands /\ UNCHANGED job
          /\ \E n \in Names : \E m \in Names \ {n} : BeginRename(n, m)
       \/ "fmt" \in Commands /\ UNCHANGED job /\ BeginFmt
       \/ /\ "seed" \in Commands /\ UNCHANGED <<op, allowed>>
          /\ job' = IF boot THEN SeedFrom(1, FALSE) ELSE EndJob(-1)
       \/ /\ "prepare" \in Commands /\ UNCHANGED <<op, allowed>>
          /\ job' = IF boot THEN [pc |-> "prepare", tries |-> 0, evicted |-> FALSE]
                    ELSE EndJob(1)

Step ==
    \/ PutData \/ PutMap \/ PutDir \/ PutUndo \/ PutRelease
    \/ DelMap \/ DelDir \/ RenameDir
    \/ FmtBoot \/ FmtMap \/ FmtRoot \/ FmtData
    \/ PrepareTurn \/ SeedTurn \/ SeedPut \/ SeedEvicted

\* The guest restarts.  virtio_blk_init proves that the disk can be written by
\* writing one sector of the volume (virtio_blk_probe_rw).
Restart ==
    /\ op.pc = "idle" \/ op.kind \in Interruptible
    /\ cut' = (cut \/ op.pc # "idle")
    /\ op' = Done("none", 0)
    /\ job' = NoJob
    /\ data' = IF ProbeSector \in Cluster
               THEN [data EXCEPT ![ProbeSector] = Probe] ELSE data
    /\ UNCHANGED <<boot, map, dir, faults>>
    /\ allowed' = Settle

Init ==
    /\ boot \in BOOLEAN
    /\ map = {}
    /\ dir = [s \in Slot |-> Free]
    /\ data = [c \in Cluster |-> Zero]
    /\ op = Done("none", 0)
    /\ job = NoJob
    /\ faults = 0
    /\ cut = FALSE
    /\ allowed = [n \in Names |-> {Absent}]

Next == Command \/ Step \/ Restart

\* The shell runs a command to its end before it reads the next line.
Spec == Init /\ [][Next]_vars /\ WF_vars(Step)

-----------------------------------------------------------------------------
(* Properties.                                                             *)

Value == {Zero, Probe} \union [t : {"data"}, file : Files, i : Nat]
Directory == [Slot -> {Free} \union [name : Names, blk : Cluster, len : Nat \ {0}]]

\* Every variable has its type.
TypeOK ==
    /\ boot \in BOOLEAN
    /\ map \subseteq Cluster
    /\ dir \in Directory
    /\ data \in [Cluster -> Value]
    /\ op.pc \in {"idle", "data", "map", "dir", "undo", "release", "unmap",
                  "clear", "rename", "fmtboot", "fmtmap", "fmtroot", "fmtdata"}
    /\ job.pc \in {"none", "prepare", "seed", "put", "evict"}
    /\ faults \in 0 .. MaxFaults
    /\ allowed \in [Names -> SUBSET (Files \union {Absent, Torn})]

\* Every name contains what the last completed rs_put_file, rs_del_file or
\* rs_rename_file gave it, whatever happens to other names.  An operation on
\* the name that is under way or was interrupted leaves the old or the new
\* content; only a rewrite in place, of a file that does not grow, may leave
\* a mixture.
FilesKeepContents == \A n \in Names : Content(n) \in allowed[n]

EntriesOwnClusters ==
    \A s \in Used(dir) :
        LET run == Run(dir[s].blk, dir[s].len) IN
        /\ \A t \in Used(dir) \ {s} :
             run \intersect Run(dir[t].blk, dir[t].len) = {}
        /\ \/ run \subseteq map
           \/ op.pc = "clear" /\ op.dir[s] = Free
           \/ op.pc = "fmtroot"

NoLeak ==
    op.pc = "idle" /\ ~cut =>
        map = UNION {Run(dir[s].blk, dir[s].len) : s \in Used(dir)}

\* The bitmap and the directory agree. Two entries never share a cluster and
\* no cluster of an entry is free for rs_put_file to take, except while
\* rs_del_file or rs_fmt_host is between its write of the bitmap and that of
\* the directory; and after operations that were not interrupted a cluster is
\* marked only if an entry uses it, so that none leaks.
ClustersAccounted == TypeOK /\ EntriesOwnClusters /\ NoLeak

\* Making room for the built-in catalog removes and changes no file but the
\* named demos (rs_evict_one_stale, rs_prepare_freeze_catalog).
UnknownFilesPreserved ==
    [][job.pc # "none" \/ job'.pc # "none" =>
         \A n \in Names \ ToSetOf(Legacy) :
            Content(n) # Absent => Content(n)' = Content(n)]_vars

\* The catalog routines end: the retries of rs_seed_catalog are bounded.
JobEnds == job.pc # "none" ~> job.pc = "none"
=============================================================================
