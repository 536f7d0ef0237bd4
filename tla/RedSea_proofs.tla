---------------------------- MODULE RedSea_proofs ----------------------------
(***************************************************************************)
(* Proofs about RedSea for every number of slots, sectors, names and files *)
(* and any sequence of operations and of restarts and errors within them,  *)
(* on a device that leaves a sector alone when it reports an error.        *)
(*                                                                         *)
(* rs_del_file and rs_fmt_host are taken to run to their end: they free    *)
(* clusters that a directory entry still has (README, section 4).          *)
(***************************************************************************)
EXTENDS RedSea, Induction

\* The assumptions of the theorems.
Careful == "del" \notin Interruptible /\ "fmt" \notin Interruptible
           /\ TRUE \notin FailedWriteLands
NoProbe == ProbeSector \notin Cluster

RunOf(e) == Run(e.blk, e.len)

\* No cluster belongs to two entries, and those of an entry are marked.
Owns(d, m) ==
    /\ \A s, u \in Used(d) : s # u => RunOf(d[s]) \intersect RunOf(d[u]) = {}
    /\ \A s \in Used(d) : RunOf(d[s]) \subseteq m

\* Every marked cluster belongs to an entry.
Tight(d, m) == \A c \in m : \E s \in Used(d) : c \in RunOf(d[s])

Unique(d) == \A s, u \in Used(d) : d[s].name = d[u].name => s = u

\* What rs_load_file makes of an entry e and the data dt.
EntryContent(e, dt) ==
    LET F == {f \in Files : /\ Blocks[f] = e.len
                            /\ \A i \in 0 .. e.len - 1 : dt[e.blk + i] = Block(f, i)}
    IN  IF ~InVolume(e) \/ F = {} THEN Torn ELSE CHOOSE f \in F : TRUE

ContentOf(b, d, dt, n) ==
    IF ~b \/ FindSlot(d, n) = 0 THEN Absent ELSE EntryContent(d[FindSlot(d, n)], dt)

-----------------------------------------------------------------------------
(* The operation in progress.                                               *)

Marks == SUBSET Cluster
IdleOp == [pc : {"idle"}, kind : {"none", "put", "del", "rename", "fmt"}, code : Int]
PutOp ==
    [pc : {"data", "map", "dir", "undo", "release"}, kind : {"put"}, name : Names,
     file : Files, blk : Cluster, i : Nat, fresh : BOOLEAN, old_map : Marks,
     map : Marks, dir : Directory, release : Marks]
DelOp == [pc : {"unmap", "clear"}, kind : {"del"}, name : Names, map : Marks,
          dir : Directory]
RenameOp == [pc : {"rename"}, kind : {"rename"}, name : Names, to : Names,
             dir : Directory]
FmtOp == [pc : {"fmtboot", "fmtmap", "fmtroot", "fmtdata"}, kind : {"fmt"}, i : Cluster]

PutRun == Run(op.blk, Blocks[op.file])
PutEntry == [name |-> op.name, blk |-> op.blk, len |-> Blocks[op.file]]

\* rs_put_file has all its clusters, and has filled op.i of them.
PutFills ==
    /\ boot /\ op.i <= Blocks[op.file] /\ op.file \in allowed[op.name]
    /\ op.blk + Blocks[op.file] <= Sects
    /\ op.pc # "data" => op.i = Blocks[op.file]
    /\ op.pc = "data" => op.i < Blocks[op.file]
    /\ \A j \in 0 .. op.i - 1 : data[op.blk + j] = Block(op.file, j)

\* The entry q that it replaces or adds.
Replaces(q) ==
    /\ op.dir = [dir EXCEPT ![q] = PutEntry]
    /\ dir[q] # Free => dir[q].name = op.name
    /\ dir[q] = Free => \A s \in Used(dir) : dir[s].name # op.name
    /\ ~op.fresh => /\ dir[q] # Free /\ dir[q].blk = op.blk
                    /\ Blocks[op.file] <= dir[q].len
                    /\ Torn \in allowed[op.name]

\* What the bitmap and the directory will be.
PutPlans ==
    /\ Owns(op.dir, op.map \ op.release) /\ Unique(op.dir)
    /\ ~cut => Tight(op.dir, op.map \ op.release)

PutInv ==
    op.kind = "put" /\ op.pc # "idle" =>
        /\ PutFills /\ PutPlans
        /\ op.pc # "release" =>
             /\ map = (IF op.pc \in {"dir", "undo"} THEN op.map ELSE op.old_map)
             /\ op.map = op.old_map \union PutRun
             /\ Owns(dir, op.old_map)
             /\ op.fresh => PutRun \intersect op.old_map = {}
             /\ op.pc = "undo" => cut
             /\ \E q \in Slot : Replaces(q)
        /\ op.pc = "release" =>
             /\ dir = op.dir /\ map = op.map
             /\ \E q \in Slot : dir[q] = PutEntry

DelInv ==
    op.kind = "del" /\ op.pc # "idle" =>
        /\ boot /\ Absent \in allowed[op.name]
        /\ Owns(op.dir, op.map) /\ (~cut => Tight(op.dir, op.map))
        /\ op.pc = "clear" => map = op.map
        /\ \E q \in Used(dir) : dir[q].name = op.name /\ op.dir = [dir EXCEPT ![q] = Free]

RenameInv ==
    op.kind = "rename" /\ op.pc # "idle" =>
        /\ boot /\ op.name # op.to
        /\ Absent \in allowed[op.name] /\ allowed[op.name] \ {Absent} \subseteq allowed[op.to]
        /\ \A s \in Used(dir) : dir[s].name # op.to
        /\ \E q \in Used(dir) : dir[q].name = op.name
                                /\ op.dir = [dir EXCEPT ![q].name = op.to]

FmtInv ==
    op.kind = "fmt" /\ op.pc # "idle" =>
        /\ op.pc \in {"fmtroot", "fmtdata"} => map = {}
        /\ op.pc = "fmtdata" => Used(dir) = {}
        /\ \A n \in Names : allowed[n] = Files \union {Absent, Torn}

\* The disk, whatever is in progress.
DiskInv ==
    /\ Unique(dir)
    /\ op.pc \notin {"clear", "fmtroot"} => Owns(dir, map)
    /\ Owns(dir, Cluster)
    /\ ~cut /\ op.pc \in {"idle", "data", "map", "unmap", "rename"} => Tight(dir, map)

OpInv == op \in IdleOp \union PutOp \union DelOp \union RenameOp \union FmtOp

\* The catalog routine around it.
JobInv ==
    job \in [pc : {"none"}, code : Int]
           \union [pc : {"prepare"}, tries : Nat, evicted : BOOLEAN]
           \union [pc : {"seed", "put", "evict"}, i : Nat \ {0}, tries : Nat,
                   freeze : BOOLEAN]

\* rs_seed_catalog writes only names that do not exist, rs_evict_one_stale
\* deletes only names of its list.
SeedSafe ==
    /\ job.pc = "seed" => op.pc = "idle" /\ (job.tries # 0 => ~Exists(Catalog[job.i]))
    /\ job.pc = "put" /\ op.pc = "idle" /\ op.code # 0 => ~Exists(Catalog[job.i])
    /\ job.pc = "put" /\ op.pc # "idle" =>
         /\ op \in PutOp /\ op.fresh /\ op.release = {} /\ op.pc # "release"
         /\ op.name = Catalog[job.i] /\ ~Exists(Catalog[job.i])
    /\ job.pc = "evict" => ~Exists(Catalog[job.i])
    /\ job.pc \in {"evict", "prepare"} /\ op.pc # "idle" =>
         op \in DelOp /\ op.name \in ToSetOf(Legacy)

SafeInv ==
    /\ TypeOK /\ OpInv /\ JobInv /\ DiskInv
    /\ PutInv /\ DelInv /\ RenameInv /\ FmtInv

-----------------------------------------------------------------------------
(* Directories and bitmaps.                                                 *)

Entry == [name : Names, blk : Cluster, len : Nat \ {0}]

LEMMA EntryNotFree == ASSUME NEW e \in Entry PROVE e # Free
<1>1. DOMAIN e = {"name", "blk", "len"}
  BY DEF Entry
<1>2. DOMAIN Free = {"name"}
  BY DEF Free
<1>3. QED
  BY <1>1, <1>2

LEMMA UsedEntry ==
    ASSUME NEW d \in Directory
    PROVE  /\ \A s \in Used(d) : s \in Slot /\ d[s] \in Entry
           /\ \A s \in Slot \ Used(d) : d[s] = Free
  BY DEF Used, Directory, Entry

\* rs_find_slot finds the only entry of a name, if there is one.
LEMMA FindSlotIs ==
    ASSUME NEW d \in Directory, NEW n
    PROVE  /\ FindSlot(d, n) = 0 <=> \A s \in Used(d) : d[s].name # n
           /\ FindSlot(d, n) # 0 => FindSlot(d, n) \in Used(d) /\ d[FindSlot(d, n)].name = n
           /\ Unique(d) => \A s \in Used(d) : d[s].name = n => FindSlot(d, n) = s
<1> DEFINE S == {s \in Used(d) : d[s].name = n}
<1>1. S \subseteq Nat /\ 0 \notin S
  BY VolumeAssumption DEF Used, Slot
<1>2. S # {} => Min(S) \in S
  BY <1>1, MinIsLeast
<1>3. FindSlot(d, n) = IF S = {} THEN 0 ELSE Min(S)
  BY DEF FindSlot
<1>4. FindSlot(d, n) # 0 => FindSlot(d, n) \in S
  BY <1>2, <1>3
<1>5. FindSlot(d, n) = 0 <=> S = {}
  BY <1>1, <1>2, <1>3
<1>6. QED
  BY <1>4, <1>5 DEF Unique

\* Slot q of d gets the entry e of the clusters run, and gives up release.
Replacement(d, m, q, e, fresh, old, run, release, d2) ==
    /\ d \in Directory /\ m \in Marks /\ Owns(d, m) /\ Unique(d)
    /\ q \in Slot /\ e \in Entry /\ fresh \in BOOLEAN
    /\ d[q] # Free => d[q].name = e.name
    /\ d[q] = Free => \A s \in Used(d) : d[s].name # e.name
    /\ old = IF d[q] = Free THEN {} ELSE RunOf(d[q])
    /\ run = RunOf(e) /\ (fresh => run \intersect m = {}) /\ (~fresh => run \subseteq old)
    /\ release = IF fresh THEN old ELSE old \ run
    /\ d2 = [d EXCEPT ![q] = e]

LEMMA PlanPut ==
    ASSUME NEW d, NEW m, NEW q, NEW e, NEW fresh, NEW old, NEW run,
           NEW release, NEW d2,
           Replacement(d, m, q, e, fresh, old, run, release, d2)
    PROVE  /\ d2 \in Directory /\ Unique(d2)
           /\ Owns(d2, (m \union run) \ release)
           /\ Tight(d, m) => Tight(d2, (m \union run) \ release)
<1> USE DEF Replacement
<1>1. d2 \in Directory
  BY DEF Directory, Entry
<1>2. Used(d2) = Used(d) \union {q} /\ d2[q] = e /\ \A s \in Slot : s # q => d2[s] = d[s]
  <2>1. d2[q] = e /\ \A s \in Slot : s # q => d2[s] = d[s]
    BY DEF Directory
  <2>2. QED
    BY <2>1, EntryNotFree DEF Used
<1>3. \A s \in Used(d) : s \in Slot /\ d[s] # Free
  BY DEF Used
<1>4. Unique(d2)
  <2>1. \A s \in Used(d) : s # q => d[s].name # e.name
    BY <1>3 DEF Unique, Used
  <2>2. SUFFICES ASSUME NEW s \in Used(d2), NEW u \in Used(d2), d2[s].name = d2[u].name
                 PROVE  s = u
    BY DEF Unique
  <2>3. CASE s = q
    BY <1>2, <1>3, <2>1, <2>2, <2>3
  <2>4. CASE u = q
    BY <1>2, <1>3, <2>1, <2>2, <2>4
  <2>5. CASE s # q /\ u # q
    BY <1>2, <1>3, <2>2, <2>5 DEF Unique
  <2>6. QED
    BY <2>3, <2>4, <2>5
<1>5. \A s \in Used(d) : s # q => RunOf(d[s]) \intersect old = {} /\ RunOf(d[s]) \subseteq m
  BY <1>3 DEF Owns, Used
<1>6. \A s \in Used(d) : s # q => RunOf(d[s]) \intersect run = {}
  BY <1>5
<1>7. old \subseteq m
  BY DEF Owns, Used
<1>8. Owns(d2, (m \union run) \ release)
  <2>1. ASSUME NEW s \in Used(d2), NEW u \in Used(d2), s # u
        PROVE  RunOf(d2[s]) \intersect RunOf(d2[u]) = {}
    <3>1. CASE s = q
      BY <1>2, <1>3, <1>6, <2>1, <3>1
    <3>2. CASE u = q
      BY <1>2, <1>3, <1>6, <2>1, <3>2
    <3>3. CASE s # q /\ u # q
      BY <1>2, <1>3, <2>1, <3>3 DEF Owns
    <3>4. QED
      BY <3>1, <3>2, <3>3
  <2>2. ASSUME NEW s \in Used(d2)
        PROVE  RunOf(d2[s]) \subseteq (m \union run) \ release
    <3>1. run \intersect release = {}
      BY <1>7
    <3>2. release \subseteq old
      OBVIOUS
    <3>3. CASE s = q
      BY <1>2, <3>1, <3>3
    <3>4. CASE s # q
      BY <1>2, <1>3, <1>5, <3>2, <3>4
    <3>5. QED
      BY <3>3, <3>4
  <2>3. QED
    BY <2>1, <2>2 DEF Owns
<1>9. ASSUME Tight(d, m), NEW c \in (m \union run) \ release
      PROVE  \E s \in Used(d2) : c \in RunOf(d2[s])
  <2>1. CASE c \in run
    BY <1>2, <2>1
  <2>2. CASE c \notin run
    <3>1. PICK s \in Used(d) : c \in RunOf(d[s])
      BY <1>9, <2>2 DEF Tight
    <3>2. s # q
      BY <1>3, <1>9, <2>2, <3>1
    <3>3. QED
      BY <1>2, <1>3, <3>1, <3>2
  <2>3. QED
    BY <2>1, <2>2
<1>10. QED
  BY <1>1, <1>4, <1>7, <1>8, <1>9 DEF Tight

\* An entry is removed.
LEMMA PlanDel ==
    ASSUME NEW d \in Directory, NEW m \in Marks, Owns(d, m), Unique(d),
           NEW q \in Used(d), NEW d2, d2 = [d EXCEPT ![q] = Free]
    PROVE  /\ d2 \in Directory /\ Unique(d2) /\ Used(d2) = Used(d) \ {q}
           /\ \A s \in Used(d2) : d2[s] = d[s]
           /\ Owns(d2, m \ RunOf(d[q]))
           /\ Tight(d, m) => Tight(d2, m \ RunOf(d[q]))
<1>1. d2 \in Directory
  BY DEF Directory
<1>2. Used(d2) = Used(d) \ {q} /\ \A s \in Slot : s # q => d2[s] = d[s]
  BY DEF Directory, Used
<1>3. \A s \in Used(d) : s \in Slot
  BY DEF Used
<1>4. Unique(d2) /\ Owns(d2, m \ RunOf(d[q]))
  <2>1. \A s \in Used(d2) : s \in Used(d) /\ s # q /\ d2[s] = d[s]
    BY <1>2, <1>3
  <2>2. Unique(d2)
    BY <2>1 DEF Unique
  <2>3. \A s, u \in Used(d2) : s # u => RunOf(d2[s]) \intersect RunOf(d2[u]) = {}
    BY <2>1 DEF Owns
  <2>4. ASSUME NEW s \in Used(d2)
        PROVE  RunOf(d2[s]) \subseteq m \ RunOf(d[q])
    <3>1. RunOf(d[s]) \subseteq m /\ RunOf(d[s]) \intersect RunOf(d[q]) = {}
      BY <2>1 DEF Owns
    <3>2. QED
      BY <2>1, <3>1
  <2>5. QED
    BY <2>2, <2>3, <2>4 DEF Owns
<1>5. Tight(d, m) => Tight(d2, m \ RunOf(d[q]))
  BY <1>2, <1>3 DEF Tight
<1>6. QED
  BY <1>1, <1>2, <1>3, <1>4, <1>5

\* An entry gets a name that no other has.
Renaming(d, m, q, to, d2) ==
    /\ d \in Directory /\ m \in Marks /\ Owns(d, m) /\ Unique(d)
    /\ q \in Used(d) /\ to \in Names /\ \A s \in Used(d) : d[s].name # to
    /\ d2 = [d EXCEPT ![q].name = to]

LEMMA PlanRename ==
    ASSUME NEW d, NEW m, NEW q, NEW to, NEW d2, Renaming(d, m, q, to, d2)
    PROVE  /\ d2 \in Directory /\ Unique(d2) /\ Used(d2) = Used(d)
           /\ \A s \in Slot : s # q => d2[s] = d[s]
           /\ d2[q] \in Entry /\ d2[q].name = to
           /\ d2[q].blk = d[q].blk /\ d2[q].len = d[q].len
           /\ Owns(d2, m) /\ (Tight(d, m) => Tight(d2, m))
<1> USE DEF Renaming
<1>1. q \in Slot /\ d[q] \in Entry
  BY UsedEntry
<1>2. /\ d2[q] \in Entry /\ d2[q].name = to
      /\ d2[q].blk = d[q].blk /\ d2[q].len = d[q].len
      /\ \A s \in Slot : s # q => d2[s] = d[s]
  BY <1>1 DEF Directory, Entry
<1>3. d2 \in Directory
  <2>1. \A s \in Slot : d2[s] \in {Free} \union Entry
    BY <1>2 DEF Directory, Entry
  <2>2. DOMAIN d2 = Slot /\ d2 = [s \in DOMAIN d2 |-> d2[s]]
    BY <1>1 DEF Directory
  <2>3. QED
    BY <2>1, <2>2 DEF Directory, Entry
<1>4. Used(d2) = Used(d)
  BY <1>1, <1>2, EntryNotFree DEF Used
<1>5. Unique(d2)
  BY <1>1, <1>2, <1>4, UsedEntry DEF Unique
<1>6. \A s \in Used(d) : s \in Slot /\ RunOf(d2[s]) = RunOf(d[s])
  BY <1>2, UsedEntry DEF RunOf
<1>7. Owns(d2, m) /\ (Tight(d, m) => Tight(d2, m))
  BY <1>4, <1>6 DEF Owns, Tight
<1>8. QED
  BY <1>2, <1>3, <1>4, <1>5, <1>7

-----------------------------------------------------------------------------
(* Steps.                                                                   *)

Allow == [Names -> SUBSET (Files \union {Absent, Torn})]

LEMMA OpKinds ==
    ASSUME OpInv
    PROVE  /\ op.pc = "idle" <=> op \in IdleOp
           /\ op.pc \in {"data", "map", "dir", "undo", "release"} <=> op \in PutOp
           /\ op.pc \in {"unmap", "clear"} <=> op \in DelOp
           /\ op.pc = "rename" <=> op \in RenameOp
           /\ op.pc \in {"fmtboot", "fmtmap", "fmtroot", "fmtdata"} <=> op \in FmtOp
<1>1. /\ op \in IdleOp => op.pc = "idle"
      /\ op \in PutOp => op.pc \in {"data", "map", "dir", "undo", "release"}
      /\ op \in DelOp => op.pc \in {"unmap", "clear"}
      /\ op \in RenameOp => op.pc = "rename"
      /\ op \in FmtOp => op.pc \in {"fmtboot", "fmtmap", "fmtroot", "fmtdata"}
  BY DEF IdleOp, PutOp, DelOp, RenameOp, FmtOp
<1>2. op \in IdleOp \/ op \in PutOp \/ op \in DelOp \/ op \in RenameOp \/ op \in FmtOp
  BY DEF OpInv
<1>3. QED
  BY <1>1, <1>2

\* What the history allows after a step of an operation.
LEMMA Outcomes ==
    ASSUME Outcome, NEW k, NEW c
    PROVE  /\ op'.pc # "idle" => allowed' = allowed
           /\ op' = Done("put", 0) => allowed' = [allowed EXCEPT ![op.name] = {op.file}]
           /\ op' = Done("del", 0) => allowed' = [allowed EXCEPT ![op.name] = {Absent}]
           /\ op' = Done("rename", 0) =>
                allowed' = [allowed EXCEPT ![op.name] = {Absent},
                                           ![op.to] = allowed[op.name] \ {Absent}]
           /\ op' = Done(k, c) /\ c # 0 => allowed' = Settle
  BY DEF Outcome, Done

LEMMA SettleTyped ==
    ASSUME allowed \in Allow, allowed' = Settle PROVE allowed' \in Allow
  BY DEF Settle, Allow

LEMMA FaultCounted ==
    ASSUME faults \in 0 .. MaxFaults, Fault PROVE faults' \in 0 .. MaxFaults
  BY VolumeAssumption DEF Fault

LEMMA OwnsMore ==
    ASSUME NEW d, NEW m, NEW m2, Owns(d, m), m \subseteq m2 PROVE Owns(d, m2)
  BY DEF Owns

LEMMA OwnsSmaller ==
    ASSUME NEW d, NEW m, NEW m2, Owns(d, m2), Owns(d, m) PROVE Owns(d, m2 \intersect m)
  BY DEF Owns

\* An operation ends: only the disk is left to look at.
LEMMA Rest ==
    ASSUME op' \in IdleOp, boot' \in BOOLEAN, map' \subseteq Cluster, dir' \in Directory,
           data' \in [Cluster -> Value], faults' \in 0 .. MaxFaults, allowed' \in Allow,
           JobInv', Unique(dir'), Owns(dir', map'), ~cut' => Tight(dir', map')
    PROVE  SafeInv'
<1>1. op'.pc = "idle" /\ OpInv'
  BY DEF OpInv, IdleOp
<1>2. job'.pc \in {"none", "prepare", "seed", "put", "evict"}
  BY DEF JobInv
<1>3. Owns(dir', Cluster)
  BY OwnsMore
<1>4. DiskInv'
  BY <1>1, <1>3 DEF DiskInv
<1>5. TypeOK'
  BY <1>1, <1>2 DEF TypeOK, Allow
<1>6. QED
  BY <1>1, <1>4, <1>5 DEF SafeInv, PutInv, DelInv, RenameInv, FmtInv

\* The first free run is a run of free clusters.
LEMMA FreeRunIs ==
    ASSUME NEW m, NEW len \in Nat \ {0}, FreeRuns(m, len) # {},
           NEW b, b = Min(FreeRuns(m, len))
    PROVE  /\ b \in Cluster /\ b + len <= Sects /\ Run(b, len) \intersect m = {}
           /\ Run(b, len) \subseteq Cluster
<1>1. FreeRuns(m, len) \subseteq Nat
  BY VolumeAssumption DEF FreeRuns, Cluster
<1>2. b \in FreeRuns(m, len)
  BY <1>1, MinIsLeast
<1>3. b \in Cluster /\ b + len <= Sects /\ Run(b, len) \intersect m = {}
  BY <1>2 DEF FreeRuns
<1>4. QED
  BY <1>3, VolumeAssumption DEF Run, Cluster

LEMMA EntryRun ==
    ASSUME NEW e \in Entry, InVolume(e)
    PROVE  RunOf(e) \subseteq Cluster
  BY VolumeAssumption DEF Entry, RunOf, Run, Cluster, InVolume

LEMMA BeginPutSafe ==
    ASSUME SafeInv, op.pc = "idle", UNCHANGED <<disk, faults, cut>>, JobInv',
           NEW n \in Names, NEW f \in Files, BeginPut(n, f)
    PROVE  SafeInv'
<1> DEFINE len == Blocks[f]
           s == FindSlot(dir, n)
           slots == Slot \ Used(dir)
           fresh == s = 0 \/ len > dir[s].len
           runs == FreeRuns(map, len)
           old == IF s = 0 THEN {} ELSE Run(dir[s].blk, dir[s].len)
           blk == IF fresh THEN Min(runs) ELSE dir[s].blk
           q == IF s = 0 THEN Min(slots) ELSE s
           e == [name |-> n, blk |-> blk, len |-> len]
           release == IF fresh THEN old ELSE old \ Run(blk, len)
           d2 == [dir EXCEPT ![q] = e]
           m2 == map \union Run(blk, len)
<1>1. /\ UNCHANGED boot /\ UNCHANGED map /\ UNCHANGED dir /\ UNCHANGED data
      /\ UNCHANGED faults /\ UNCHANGED cut
  BY DEF disk
<1>2. /\ boot \in BOOLEAN /\ map \subseteq Cluster /\ dir \in Directory
      /\ data \in [Cluster -> Value] /\ faults \in 0 .. MaxFaults /\ allowed \in Allow
  BY DEF SafeInv, TypeOK, Allow
<1>3. Unique(dir) /\ Owns(dir, map) /\ (~cut => Tight(dir, map))
  BY DEF SafeInv, DiskInv
<1>4. CASE op' \in IdleOp /\ UNCHANGED allowed
  BY <1>1, <1>2, <1>3, <1>4, Rest
<1>5. CASE /\ boot /\ (s # 0 => InVolume(dir[s])) /\ (s = 0 => slots # {})
           /\ (fresh => runs # {})
           /\ op' = [pc |-> "data", kind |-> "put", name |-> n, file |-> f,
                     blk |-> blk, i |-> 0, fresh |-> fresh, old_map |-> map,
                     map |-> m2, dir |-> d2, release |-> release]
           /\ allowed' = [allowed EXCEPT ![n] = @ \union IF fresh THEN {f} ELSE {f, Torn}]
  <2>1. len \in Nat \ {0}
    BY VolumeAssumption
  <2>2. /\ s = 0 <=> \A u \in Used(dir) : dir[u].name # n
        /\ s # 0 => s \in Used(dir) /\ dir[s].name = n
    BY <1>2, FindSlotIs
  <2>3. q \in Slot /\ (s # 0 <=> q \in Used(dir)) /\ (s # 0 => q = s)
    <3>1. slots \subseteq Nat
      BY VolumeAssumption DEF Slot
    <3>2. slots # {} => Min(slots) \in slots
      BY <3>1, MinIsLeast
    <3>3. QED
      BY <1>5, <2>2, <3>2 DEF Used
  <2>4. s # 0 => dir[s] \in Entry
    BY <1>2, <2>2, UsedEntry
  <2>5. blk \in Cluster /\ blk + len <= Sects
    <3>1. CASE fresh
      BY <1>5, <2>1, <3>1, FreeRunIs
    <3>2. CASE ~fresh
      <4>1. s # 0 /\ dir[s] \in Entry /\ InVolume(dir[s]) /\ blk = dir[s].blk
        BY <1>5, <2>4, <3>2
      <4>2. dir[s].blk \in Cluster /\ dir[s].len \in Nat /\ Cluster \subseteq Nat
            /\ len <= dir[s].len
        BY <2>1, <3>2, <4>1, VolumeAssumption, SMTT(60) DEF Entry, Cluster
      <4>3. dir[s].blk + dir[s].len <= Sects
        BY <4>1 DEF InVolume
      <4>4. PICK b \in Nat, l \in Nat, w \in Nat : b = dir[s].blk /\ l = dir[s].len /\ w = len
        BY <2>1, <4>2
      <4>5. b + w <= Sects
        BY <4>2, <4>3, <4>4, VolumeAssumption, SMTT(60)
      <4>6. QED
        BY <4>1, <4>2, <4>4, <4>5
    <3>3. QED
      BY <3>1, <3>2
  <2>6. Run(blk, len) \subseteq Cluster
    BY <2>1, <2>5, VolumeAssumption, SMTT(60) DEF Run, Cluster
  <2>7. e \in Entry /\ RunOf(e) = Run(blk, len)
    BY <2>1, <2>5 DEF Entry, RunOf
  <2>8. old \subseteq Cluster /\ old = IF dir[q] = Free THEN {} ELSE RunOf(dir[q])
    <3>1. CASE s = 0
      BY <2>3, <3>1 DEF Used
    <3>2. CASE s # 0
      BY <1>5, <2>3, <2>4, <3>2, EntryRun, EntryNotFree DEF RunOf
    <3>3. QED
      BY <3>1, <3>2
  <2>9. fresh => Run(blk, len) \intersect map = {}
    BY <1>5, <2>1, FreeRunIs
  <2>10. ~fresh => Run(blk, len) \subseteq old /\ s # 0 /\ dir[q] # Free
                   /\ dir[q].blk = blk /\ len <= dir[q].len
    <3>1. SUFFICES ASSUME ~fresh PROVE Run(blk, len) \subseteq old /\ s # 0 /\ dir[q] # Free
                   /\ dir[q].blk = blk /\ len <= dir[q].len
      OBVIOUS
    <3>2. s # 0 /\ dir[s] \in Entry /\ q = s /\ blk = dir[s].blk /\ len <= dir[s].len
      BY <2>1, <2>3, <2>4, <3>1 DEF Entry
    <3>3. Run(blk, len) \subseteq Run(dir[s].blk, dir[s].len)
      BY <2>1, <3>2, VolumeAssumption, SMTT(60) DEF Run, Entry, Cluster
    <3>4. QED
      BY <3>2, <3>3, EntryNotFree
  <2>11. /\ dir[q] # Free => dir[q].name = n
         /\ dir[q] = Free => \A u \in Used(dir) : dir[u].name # n
    BY <2>2, <2>3 DEF Used
  <2>12. fresh \in BOOLEAN
    BY Zenon
  <2> HIDE DEF len, s, slots, fresh, runs, old, blk, q, e, release, d2, m2
  <2>13. /\ d2 \in Directory /\ Unique(d2) /\ Owns(d2, m2 \ release)
         /\ Tight(dir, map) => Tight(d2, m2 \ release)
    <3>1. map \in Marks
      BY <1>2 DEF Marks
    <3>2. PICK r : r = RunOf(e)
      OBVIOUS
    <3>3. d2 = [dir EXCEPT ![q] = e] /\ e.name = n
      BY DEF d2, e
    <3>8. PICK fr \in BOOLEAN : fr <=> fresh
      BY <2>12
    <3>4. release = IF fr THEN old ELSE old \ r
      BY <2>7, <3>2, <3>8 DEF release
    <3>5. m2 = map \union r /\ (fr => r \intersect map = {}) /\ (~fr => r \subseteq old)
      BY <2>7, <2>9, <2>10, <3>2, <3>8 DEF m2
    <3>6. /\ d2 \in Directory /\ Unique(d2) /\ Owns(d2, (map \union r) \ release)
          /\ Tight(dir, map) => Tight(d2, (map \union r) \ release)
      <4>1. Replacement(dir, map, q, e, fr, old, r, release, d2)
        BY <1>2, <1>3, <2>3, <2>7, <2>8, <2>11, <3>1, <3>2, <3>3, <3>4, <3>5 DEF Replacement
      <4>2. QED
        BY <4>1, PlanPut
    <3>7. QED
      BY <3>5, <3>6, <3>8
  <2>14. release \subseteq Cluster /\ m2 \subseteq Cluster
    BY <1>2, <2>6, <2>8 DEF release, m2
  <2>15. /\ op' \in PutOp /\ op'.pc = "data" /\ op'.kind = "put" /\ op'.name = n
         /\ op'.file = f /\ op'.blk = blk /\ op'.i = 0 /\ op'.fresh = fresh
         /\ op'.old_map = map /\ op'.map = m2 /\ op'.dir = d2 /\ op'.release = release
    BY <1>2, <1>5, <2>5, <2>12, <2>13, <2>14 DEF PutOp, Marks
  <2>16. /\ allowed' \in Allow /\ f \in allowed'[n] /\ (~fresh => Torn \in allowed'[n])
    BY <1>2, <1>5 DEF Allow
  <2>17. PutFills'
    BY <1>1, <1>5, <2>1, <2>5, <2>15, <2>16 DEF PutFills, len
  <2>18. PutPlans'
    BY <1>1, <1>3, <2>13, <2>15 DEF PutPlans
  <2>19. PutRun' = Run(blk, len) /\ PutEntry' = e
    BY <2>15 DEF PutRun, PutEntry, len, e
  <2>20. PICK q0 : q0 = q
    OBVIOUS
  <2>26. Replaces(q0)'
    BY <1>1, <2>10, <2>11, <2>15, <2>16, <2>19, <2>20 DEF Replaces, len, d2
  <2>21. PutInv'
    <3>1. op'.map = op'.old_map \union PutRun'
      BY <2>15, <2>19 DEF m2
    <3>2. op'.fresh => PutRun' \intersect op'.old_map = {}
      BY <2>9, <2>15, <2>19
    <3>3. map' = op'.old_map /\ Owns(dir', op'.old_map)
      BY <1>1, <1>3, <2>15
    <3>4. QED
      BY <2>3, <2>15, <2>17, <2>18, <2>20, <2>26, <3>1, <3>2, <3>3 DEF PutInv
  <2>22. DiskInv'
    BY <1>1, <1>2, <1>3, <2>15, OwnsMore DEF DiskInv
  <2>23. TypeOK'
    BY <1>1, <1>2, <2>15, <2>16 DEF TypeOK, Allow, JobInv
  <2>24. OpInv' /\ DelInv' /\ RenameInv' /\ FmtInv'
    BY <2>15 DEF OpInv, DelInv, RenameInv, FmtInv
  <2>25. QED
    BY <2>21, <2>22, <2>23, <2>24 DEF SafeInv
<1>6. QED
  <2>1. \A c \in {-2, -3, -6, -8} : Done("put", c) \in IdleOp
    BY DEF Done, IdleOp
  <2>2. (op' \in IdleOp /\ UNCHANGED allowed)
        \/ /\ boot /\ (s # 0 => InVolume(dir[s])) /\ (s = 0 => slots # {})
           /\ (fresh => runs # {})
           /\ op' = [pc |-> "data", kind |-> "put", name |-> n, file |-> f,
                     blk |-> blk, i |-> 0, fresh |-> fresh, old_map |-> map,
                     map |-> m2, dir |-> d2, release |-> release]
           /\ allowed' = [allowed EXCEPT ![n] = @ \union IF fresh THEN {f} ELSE {f, Torn}]
    BY <2>1 DEF BeginPut
  <2>3. QED
    BY <1>4, <1>5, <2>2

LEMMA BeginDelSafe ==
    ASSUME SafeInv, op.pc = "idle", UNCHANGED <<disk, faults, cut>>, JobInv',
           NEW n \in Names, BeginDel(n)
    PROVE  SafeInv'
<1> DEFINE s == FindSlot(dir, n)
           d2 == [dir EXCEPT ![s] = Free]
           m2 == map \ Run(dir[s].blk, dir[s].len)
<1>1. /\ UNCHANGED boot /\ UNCHANGED map /\ UNCHANGED dir /\ UNCHANGED data
      /\ UNCHANGED faults /\ UNCHANGED cut
  BY DEF disk
<1>2. /\ boot \in BOOLEAN /\ map \subseteq Cluster /\ dir \in Directory
      /\ data \in [Cluster -> Value] /\ faults \in 0 .. MaxFaults /\ allowed \in Allow
  BY DEF SafeInv, TypeOK, Allow
<1>3. Unique(dir) /\ Owns(dir, map) /\ (~cut => Tight(dir, map))
  BY DEF SafeInv, DiskInv
<1>4. CASE op' \in IdleOp /\ UNCHANGED allowed
  BY <1>1, <1>2, <1>3, <1>4, Rest
<1>5. CASE /\ boot /\ s # 0
           /\ op' = [pc |-> "unmap", kind |-> "del", name |-> n, map |-> m2, dir |-> d2]
           /\ allowed' = [allowed EXCEPT ![n] = @ \union {Absent}]
  <2>1. PICK q : q = s
    OBVIOUS
  <2>2. q \in Used(dir) /\ dir[q].name = n
    BY <1>2, <1>5, <2>1, FindSlotIs
  <2>3. m2 = map \ RunOf(dir[q]) /\ d2 = [dir EXCEPT ![q] = Free]
    BY <2>1 DEF RunOf
  <2> HIDE DEF s, d2, m2
  <2>4. d2 \in Directory /\ Owns(d2, m2) /\ (Tight(dir, map) => Tight(d2, m2))
    <3>1. map \in Marks
      BY <1>2 DEF Marks
    <3>2. QED
      BY <1>2, <1>3, <2>2, <2>3, <3>1, PlanDel
  <2>5. /\ op' \in DelOp /\ op'.pc = "unmap" /\ op'.kind = "del" /\ op'.name = n
        /\ op'.map = m2 /\ op'.dir = d2
    <3>1. m2 \in Marks
      BY <1>2, <2>3 DEF Marks
    <3>2. QED
      BY <1>5, <2>4, <3>1 DEF DelOp
  <2>6. allowed' \in Allow /\ Absent \in allowed'[n]
    BY <1>2, <1>5 DEF Allow
  <2>7. DelInv'
    <3>1. Owns(op'.dir, op'.map) /\ (~cut' => Tight(op'.dir, op'.map))
      BY <1>1, <1>3, <2>4, <2>5
    <3>2. q \in Used(dir') /\ dir'[q].name = op'.name /\ op'.dir = [dir' EXCEPT ![q] = Free]
      BY <1>1, <2>2, <2>3, <2>5
    <3>3. boot' /\ Absent \in allowed'[op'.name]
      BY <1>1, <1>5, <2>5, <2>6
    <3>4. QED
      BY <2>5, <3>1, <3>2, <3>3 DEF DelInv
  <2>8. DiskInv'
    BY <1>1, <1>2, <1>3, <2>5, OwnsMore DEF DiskInv
  <2>9. TypeOK'
    BY <1>1, <1>2, <2>5, <2>6 DEF TypeOK, Allow, JobInv
  <2>10. OpInv' /\ PutInv' /\ RenameInv' /\ FmtInv'
    BY <2>5 DEF OpInv, PutInv, RenameInv, FmtInv
  <2>11. QED
    BY <2>7, <2>8, <2>9, <2>10 DEF SafeInv
<1>6. QED
  <2>1. \A c \in {-2, -3} : Done("del", c) \in IdleOp
    BY DEF Done, IdleOp
  <2>2. QED
    BY <1>4, <1>5, <2>1 DEF BeginDel

LEMMA BeginRenameSafe ==
    ASSUME SafeInv, op.pc = "idle", UNCHANGED <<disk, faults, cut>>, JobInv',
           NEW n \in Names, NEW to \in Names, n # to, BeginRename(n, to)
    PROVE  SafeInv'
<1> DEFINE s == FindSlot(dir, n)
           d2 == [dir EXCEPT ![s].name = to]
<1>1. /\ UNCHANGED boot /\ UNCHANGED map /\ UNCHANGED dir /\ UNCHANGED data
      /\ UNCHANGED faults /\ UNCHANGED cut
  BY DEF disk
<1>2. /\ boot \in BOOLEAN /\ map \subseteq Cluster /\ dir \in Directory
      /\ data \in [Cluster -> Value] /\ faults \in 0 .. MaxFaults /\ allowed \in Allow
  BY DEF SafeInv, TypeOK, Allow
<1>3. Unique(dir) /\ Owns(dir, map) /\ (~cut => Tight(dir, map))
  BY DEF SafeInv, DiskInv
<1>4. CASE op' \in IdleOp /\ UNCHANGED allowed
  BY <1>1, <1>2, <1>3, <1>4, Rest
<1>5. CASE /\ boot /\ s # 0 /\ FindSlot(dir, to) = 0
           /\ op' = [pc |-> "rename", kind |-> "rename", name |-> n, to |-> to, dir |-> d2]
           /\ allowed' = [allowed EXCEPT ![n] = @ \union {Absent},
                                         ![to] = @ \union allowed[n]]
  <2>1. PICK q : q = s
    OBVIOUS
  <2>2. q \in Used(dir) /\ dir[q].name = n /\ \A u \in Used(dir) : dir[u].name # to
    BY <1>2, <1>5, <2>1, FindSlotIs
  <2>3. d2 = [dir EXCEPT ![q].name = to]
    BY <2>1
  <2> HIDE DEF s, d2
  <2>4. d2 \in Directory
    <3>1. map \in Marks
      BY <1>2 DEF Marks
    <3>2. QED
      <4>1. Renaming(dir, map, q, to, d2)
        BY <1>2, <1>3, <2>2, <2>3, <3>1 DEF Renaming
      <4>2. QED
        BY <4>1, PlanRename
  <2>5. /\ op' \in RenameOp /\ op'.pc = "rename" /\ op'.kind = "rename" /\ op'.name = n
        /\ op'.to = to /\ op'.dir = d2
    BY <1>5, <2>4 DEF RenameOp
  <2>6. /\ allowed' \in Allow /\ allowed'[n] = allowed[n] \union {Absent}
        /\ allowed'[to] = allowed[to] \union allowed[n]
    BY <1>2, <1>5 DEF Allow
  <2>7. RenameInv'
    BY <1>1, <1>5, <2>2, <2>3, <2>5, <2>6 DEF RenameInv
  <2>8. DiskInv'
    BY <1>1, <1>2, <1>3, <2>5, OwnsMore DEF DiskInv
  <2>9. TypeOK'
    BY <1>1, <1>2, <2>5, <2>6 DEF TypeOK, Allow, JobInv
  <2>10. OpInv' /\ PutInv' /\ DelInv' /\ FmtInv'
    BY <2>5 DEF OpInv, PutInv, DelInv, FmtInv
  <2>11. QED
    BY <2>7, <2>8, <2>9, <2>10 DEF SafeInv
<1>6. QED
  <2>1. \A c \in {-2, -3, -4} : Done("rename", c) \in IdleOp
    BY DEF Done, IdleOp
  <2>2. QED
    BY <1>4, <1>5, <2>1 DEF BeginRename

LEMMA BeginFmtSafe ==
    ASSUME SafeInv, op.pc = "idle", UNCHANGED <<disk, faults, cut>>, JobInv', BeginFmt
    PROVE  SafeInv'
<1>1. /\ UNCHANGED boot /\ UNCHANGED map /\ UNCHANGED dir /\ UNCHANGED data
      /\ UNCHANGED faults /\ UNCHANGED cut
  BY DEF disk
<1>2. /\ boot \in BOOLEAN /\ map \subseteq Cluster /\ dir \in Directory
      /\ data \in [Cluster -> Value] /\ faults \in 0 .. MaxFaults
  BY DEF SafeInv, TypeOK
<1>3. Unique(dir) /\ Owns(dir, map)
  BY DEF SafeInv, DiskInv
<1>4. op' \in FmtOp /\ op'.pc = "fmtboot" /\ op'.kind = "fmt"
  BY VolumeAssumption DEF BeginFmt, FmtOp, Cluster
<1>5. allowed' \in Allow /\ \A n \in Names : allowed'[n] = Files \union {Absent, Torn}
  BY DEF BeginFmt, Allow
<1>6. FmtInv'
  BY <1>4, <1>5 DEF FmtInv
<1>7. DiskInv'
  BY <1>1, <1>2, <1>3, <1>4, OwnsMore DEF DiskInv
<1>8. TypeOK'
  BY <1>1, <1>2, <1>4, <1>5 DEF TypeOK, Allow, JobInv
<1>9. OpInv' /\ PutInv' /\ DelInv' /\ RenameInv'
  BY <1>4 DEF OpInv, PutInv, DelInv, RenameInv
<1>10. QED
  BY <1>6, <1>7, <1>8, <1>9 DEF SafeInv

-----------------------------------------------------------------------------
(* rs_put_file preserves the invariant.                                     *)

LEMMA Facts ==
    ASSUME SafeInv
    PROVE  /\ boot \in BOOLEAN /\ map \subseteq Cluster /\ dir \in Directory
           /\ data \in [Cluster -> Value] /\ faults \in 0 .. MaxFaults /\ allowed \in Allow
           /\ job.pc \in {"none", "prepare", "seed", "put", "evict"}
           /\ Unique(dir) /\ Owns(dir, Cluster) /\ OpInv /\ JobInv
           /\ op.pc \notin {"clear", "fmtroot"} => Owns(dir, map)
  BY DEF SafeInv, TypeOK, DiskInv, Allow

LEMMA DoneIdle ==
    ASSUME NEW k \in {"none", "put", "del", "rename", "fmt"}, NEW c \in Int
    PROVE  Done(k, c) \in IdleOp /\ Done(k, c).pc = "idle"
  BY DEF Done, IdleOp

\* A write fails and the operation ends with an error.
LEMMA WriteFails ==
    ASSUME SafeInv, UNCHANGED disk, cut' = TRUE, faults' \in 0 .. MaxFaults,
           op.pc \notin {"clear", "fmtroot"}, UNCHANGED job, op' \in IdleOp,
           allowed' \in Allow
    PROVE  SafeInv'
<1>1. UNCHANGED boot /\ UNCHANGED map /\ UNCHANGED dir /\ UNCHANGED data
  BY DEF disk
<1>2. JobInv'
  BY Facts DEF JobInv
<1>3. QED
  BY <1>1, <1>2, Facts, Rest

LEMMA PutMoves ==
    ASSUME op \in PutOp, NEW p \in {"data", "map", "dir", "undo", "release"}, NEW j \in Nat,
           op' = [op EXCEPT !.i = j, !.pc = p]
    PROVE  /\ op' \in PutOp /\ op'.pc = p /\ op'.kind = "put" /\ op'.i = j
           /\ op'.name = op.name /\ op'.file = op.file /\ op'.blk = op.blk
           /\ op'.fresh = op.fresh /\ op'.old_map = op.old_map /\ op'.map = op.map
           /\ op'.dir = op.dir /\ op'.release = op.release
           /\ PutRun' = PutRun /\ PutEntry' = PutEntry
  BY DEF PutOp, PutRun, PutEntry

LEMMA PutTurns ==
    ASSUME op \in PutOp, NEW p \in {"data", "map", "dir", "undo", "release"},
           op' = [op EXCEPT !.pc = p]
    PROVE  /\ op' \in PutOp /\ op'.pc = p /\ op'.kind = "put" /\ op'.i = op.i
           /\ op'.name = op.name /\ op'.file = op.file /\ op'.blk = op.blk
           /\ op'.fresh = op.fresh /\ op'.old_map = op.old_map /\ op'.map = op.map
           /\ op'.dir = op.dir /\ op'.release = op.release
           /\ PutRun' = PutRun /\ PutEntry' = PutEntry
  BY DEF PutOp, PutRun, PutEntry

LEMMA PutTyped ==
    ASSUME op \in PutOp
    PROVE  /\ op.kind = "put" /\ op.pc # "idle" /\ op.name \in Names /\ op.file \in Files
           /\ op.blk \in Cluster /\ op.i \in Nat /\ op.fresh \in BOOLEAN
           /\ op.old_map \subseteq Cluster /\ op.map \subseteq Cluster
           /\ op.release \subseteq Cluster /\ op.dir \in Directory
           /\ Blocks[op.file] \in Nat \ {0}
  BY VolumeAssumption DEF PutOp, Marks

\* The new state is that of a put under way.
LEMMA PutGoesOn ==
    ASSUME op' \in PutOp, TypeOK', JobInv', DiskInv', PutInv' PROVE SafeInv'
<1>1. op'.kind = "put"
  BY DEF PutOp
<1>2. QED
  BY <1>1 DEF SafeInv, OpInv, DelInv, RenameInv, FmtInv

LEMMA RunGrows ==
    ASSUME NEW b \in Nat, NEW w \in Nat, NEW l \in Nat, w <= l
    PROVE  Run(b, w) \subseteq Run(b, l)
  BY DEF Run

LEMMA PutDataSafe == ASSUME SafeInv, Careful, PutData PROVE SafeInv'
<1>1. op \in PutOp /\ op.pc = "data" /\ UNCHANGED job /\ Outcome
  BY Facts, OpKinds DEF PutData
<1>2. PutFills /\ PutPlans /\ map = op.old_map /\ op.map = op.old_map \union PutRun
      /\ Owns(dir, op.old_map) /\ (op.fresh => PutRun \intersect op.old_map = {})
      /\ \E q \in Slot : Replaces(q)
  BY <1>1, PutTyped DEF SafeInv, PutInv
<1>3. JobInv'
  BY <1>1, Facts DEF JobInv
<1> DEFINE c == op.blk + op.i
           p == IF op.i + 1 < Blocks[op.file] THEN "data" ELSE IF op.fresh THEN "map" ELSE "dir"
<1>4. CASE /\ UNCHANGED disk /\ cut' = TRUE /\ Fault /\ op' = Done("put", -12)
  BY <1>1, <1>4, Facts, DoneIdle, Outcomes, SettleTyped, FaultCounted, WriteFails
<1>5. CASE /\ data' = [data EXCEPT ![c] = Block(op.file, op.i)]
           /\ UNCHANGED <<boot, map, dir>> /\ UNCHANGED <<faults, cut>>
           /\ op' = [op EXCEPT !.i = op.i + 1, !.pc = p]
  <2>1. c \in Cluster /\ op.i + 1 \in Nat /\ op.i + 1 <= Blocks[op.file]
    BY <1>1, <1>2, PutTyped, VolumeAssumption, SMTT(60) DEF PutFills, Cluster
  <2>2. p \in {"data", "map", "dir"}
    OBVIOUS
  <2>3. /\ op' \in PutOp /\ op'.pc = p /\ op'.kind = "put" /\ op'.i = op.i + 1
        /\ op'.name = op.name /\ op'.file = op.file /\ op'.blk = op.blk
        /\ op'.fresh = op.fresh /\ op'.old_map = op.old_map /\ op'.map = op.map
        /\ op'.dir = op.dir /\ op'.release = op.release
        /\ PutRun' = PutRun /\ PutEntry' = PutEntry
    <3> HIDE DEF p
    <3>1. QED
      BY <1>1, <1>5, <2>1, <2>2, PutMoves
  <2>4. allowed' = allowed
    BY <1>1, <2>2, <2>3, Outcomes
  <2>5. data' \in [Cluster -> Value]
    <3>1. Block(op.file, op.i) \in Value
      BY <1>1, PutTyped DEF Block, Value
    <3>2. QED
      BY <1>5, <3>1, Facts
  <2>6. PutFills'
    <3>1. \A j \in 0 .. op.i : data'[op.blk + j] = Block(op.file, j)
      <4>1. SUFFICES ASSUME NEW j \in 0 .. op.i PROVE data'[op.blk + j] = Block(op.file, j)
        OBVIOUS
      <4>2. op.blk \in Nat /\ op.i \in Nat /\ op.blk + j \in Cluster
        BY <1>1, <2>1, PutTyped, VolumeAssumption, SMTT(60) DEF Cluster
      <4>3. CASE j = op.i
        BY <1>5, <2>1, <4>3, Facts
      <4>4. CASE j # op.i
        <5>1. j \in 0 .. op.i - 1 /\ op.blk + j # c
          BY <4>2, <4>4
        <5>2. data[op.blk + j] = Block(op.file, j)
          BY <1>2, <5>1 DEF PutFills
        <5>3. QED
          BY <1>5, <4>2, <5>1, <5>2, Facts
      <4>5. QED
        BY <4>3, <4>4
    <3>2. 0 .. (op.i + 1) - 1 = 0 .. op.i
      BY <1>1, PutTyped
    <3>3. op'.pc # "data" => op'.i = Blocks[op.file]
      BY <1>1, <2>1, <2>3, PutTyped
    <3>4. op'.pc = "data" => op'.i < Blocks[op.file]
      BY <2>3
    <3>5. \A j \in 0 .. op'.i - 1 : data'[op'.blk + j] = Block(op'.file, j)
      BY <2>3, <3>1, <3>2
    <3>6. boot' /\ op'.i <= Blocks[op.file] /\ op'.file \in allowed'[op'.name]
          /\ op'.blk + Blocks[op'.file] <= Sects
      BY <1>2, <1>5, <2>1, <2>3, <2>4 DEF PutFills
    <3> HIDE DEF p
    <3>7. QED
      BY <2>3, <3>3, <3>4, <3>5, <3>6 DEF PutFills
  <2>7. PutPlans'
    BY <1>2, <1>5, <2>3 DEF PutPlans
  <2>8. PICK q \in Slot : Replaces(q)
    BY <1>2
  <2>9. Replaces(q)'
    BY <1>5, <2>3, <2>4, <2>8 DEF Replaces
  <2>10. ~op.fresh => op.map = op.old_map
    <3>1. SUFFICES ASSUME ~op.fresh PROVE PutRun \subseteq op.old_map
      BY <1>2
    <3>2. q \in Used(dir) /\ dir[q].blk = op.blk /\ Blocks[op.file] <= dir[q].len
      BY <2>8, <3>1 DEF Replaces, Used
    <3>3. RunOf(dir[q]) \subseteq op.old_map
      BY <1>2, <3>2 DEF Owns
    <3>4. dir[q] \in Entry
      BY <3>2, Facts, UsedEntry
    <3>5. PutRun \subseteq RunOf(dir[q])
      <4>1. PICK b \in Nat, l \in Nat, w \in Nat :
                b = op.blk /\ l = dir[q].len /\ w = Blocks[op.file]
        BY <1>1, <3>4, PutTyped, VolumeAssumption, SMTT(60) DEF Entry, Cluster
      <4>2. Run(b, w) \subseteq Run(b, l)
        BY <3>2, <4>1, RunGrows
      <4>3. QED
        BY <3>2, <4>1, <4>2 DEF PutRun, RunOf
    <3>6. QED
      BY <3>3, <3>5
  <2>11. PutInv'
    <3>1. map' = (IF op'.pc \in {"dir", "undo"} THEN op'.map ELSE op'.old_map)
      <4>1. map' = op'.old_map
        BY <1>2, <1>5, <2>3
      <4>2. op'.pc = "dir" => ~op.fresh
        BY <2>3
      <4>3. op'.pc # "undo"
        BY <2>3
      <4> HIDE DEF p
      <4>4. op'.pc = "dir" => op'.map = op'.old_map
        BY <2>3, <2>10, <4>2
      <4>5. QED
        BY <4>1, <4>3, <4>4
    <3>2. op'.map = op'.old_map \union PutRun' /\ Owns(dir', op'.old_map)
          /\ (op'.fresh => PutRun' \intersect op'.old_map = {})
      BY <1>2, <1>5, <2>3
    <3>3. op'.pc # "release" /\ op'.pc # "undo"
      BY <2>3
    <3>4. QED
      BY <2>6, <2>7, <2>9, <3>1, <3>2, <3>3 DEF PutInv
  <2>12. DiskInv'
    <3>1. Tight(dir, map) \/ cut
      BY <1>1 DEF SafeInv, DiskInv
    <3>2. Unique(dir) /\ Owns(dir, Cluster) /\ Owns(dir, map)
      BY <1>1, Facts
    <3>3. QED
      BY <1>5, <3>1, <3>2 DEF DiskInv
  <2>13. TypeOK'
    BY <1>1, <1>5, <2>3, <2>4, <2>5, Facts DEF TypeOK, Allow
  <2>14. QED
    BY <1>3, <2>3, <2>11, <2>12, <2>13, PutGoesOn
<1>6. QED
  BY <1>4, <1>5 DEF PutData, Write, WriteData, Careful, disk

LEMMA PutMapSafe == ASSUME SafeInv, Careful, PutMap PROVE SafeInv'
<1>1. op \in PutOp /\ op.pc = "map" /\ UNCHANGED job /\ Outcome
  BY Facts, OpKinds DEF PutMap
<1>2. PutFills /\ PutPlans /\ map = op.old_map /\ op.map = op.old_map \union PutRun
      /\ Owns(dir, op.old_map) /\ (op.fresh => PutRun \intersect op.old_map = {})
      /\ \E q \in Slot : Replaces(q)
  BY <1>1, PutTyped DEF SafeInv, PutInv
<1>3. JobInv'
  BY <1>1, Facts DEF JobInv
<1>4. CASE /\ UNCHANGED disk /\ cut' = TRUE /\ Fault /\ op' = Done("put", -9)
  BY <1>1, <1>4, Facts, DoneIdle, Outcomes, SettleTyped, FaultCounted, WriteFails
<1>5. CASE /\ map' = op.map /\ UNCHANGED <<boot, dir, data>> /\ UNCHANGED <<faults, cut>>
           /\ op' = [op EXCEPT !.pc = "dir"]
  <2>1. /\ op' \in PutOp /\ op'.pc = "dir" /\ op'.kind = "put" /\ op'.i = op.i
        /\ op'.name = op.name /\ op'.file = op.file /\ op'.blk = op.blk
        /\ op'.fresh = op.fresh /\ op'.old_map = op.old_map /\ op'.map = op.map
        /\ op'.dir = op.dir /\ op'.release = op.release
        /\ PutRun' = PutRun /\ PutEntry' = PutEntry
    BY <1>1, <1>5, PutTurns
  <2>2. allowed' = allowed
    BY <1>1, <2>1, Outcomes
  <2>3. PutFills' /\ PutPlans'
    BY <1>1, <1>2, <1>5, <2>1, <2>2 DEF PutFills, PutPlans
  <2>4. PICK q \in Slot : Replaces(q)
    BY <1>2
  <2>5. Replaces(q)'
    BY <1>5, <2>1, <2>2, <2>4 DEF Replaces
  <2>6. PutInv'
    BY <1>2, <1>5, <2>1, <2>3, <2>5 DEF PutInv
  <2>7. Owns(dir, op.map)
    BY <1>2, OwnsMore
  <2>8. DiskInv'
    BY <1>5, <2>1, <2>7, Facts DEF DiskInv
  <2>9. TypeOK'
    BY <1>1, <1>5, <2>1, <2>2, Facts, PutTyped DEF TypeOK, Allow
  <2>10. QED
    BY <1>3, <2>1, <2>6, <2>8, <2>9, PutGoesOn
<1>6. QED
  BY <1>4, <1>5 DEF PutMap, Write, WriteMap, Careful, disk

LEMMA PutDirSafe == ASSUME SafeInv, Careful, PutDir PROVE SafeInv'
<1>1. op \in PutOp /\ op.pc = "dir" /\ UNCHANGED job /\ Outcome
  BY Facts, OpKinds DEF PutDir
<1>2. PutFills /\ PutPlans /\ map = op.map /\ op.map = op.old_map \union PutRun
      /\ Owns(dir, op.old_map) /\ (op.fresh => PutRun \intersect op.old_map = {})
      /\ \E q \in Slot : Replaces(q)
  BY <1>1, PutTyped DEF SafeInv, PutInv
<1>3. JobInv'
  BY <1>1, Facts DEF JobInv
<1>4. Unique(op.dir) /\ Owns(op.dir, op.map \ op.release) /\ Owns(op.dir, op.map)
      /\ (~cut => Tight(op.dir, op.map \ op.release))
  <2>1. Owns(op.dir, op.map \ op.release)
    BY <1>2 DEF PutPlans
  <2>2. op.map \ op.release \subseteq op.map
    OBVIOUS
  <2>3. Owns(op.dir, op.map)
    BY <2>1, <2>2, OwnsMore
  <2>4. QED
    BY <1>2, <2>1, <2>3 DEF PutPlans
<1>5. CASE /\ UNCHANGED disk /\ cut' = TRUE /\ Fault /\ op' = Done("put", -10)
  BY <1>1, <1>5, Facts, DoneIdle, Outcomes, SettleTyped, FaultCounted, WriteFails
<1>6. CASE UNCHANGED disk /\ cut' = TRUE /\ Fault /\ op' = [op EXCEPT !.pc = "undo"]
  <2>1. /\ op' \in PutOp /\ op'.pc = "undo" /\ op'.kind = "put" /\ op'.i = op.i
        /\ op'.name = op.name /\ op'.file = op.file /\ op'.blk = op.blk
        /\ op'.fresh = op.fresh /\ op'.old_map = op.old_map /\ op'.map = op.map
        /\ op'.dir = op.dir /\ op'.release = op.release
        /\ PutRun' = PutRun /\ PutEntry' = PutEntry
    BY <1>1, <1>6, PutTurns
  <2>2. allowed' = allowed
    BY <1>1, <2>1, Outcomes
  <2>3. UNCHANGED boot /\ UNCHANGED map /\ UNCHANGED dir /\ UNCHANGED data
    BY <1>6 DEF disk
  <2>4. PutFills' /\ PutPlans'
    BY <1>1, <1>2, <1>6, <2>1, <2>2, <2>3 DEF PutFills, PutPlans
  <2>5. PICK q \in Slot : Replaces(q)
    BY <1>2
  <2>6. Replaces(q)'
    BY <2>1, <2>2, <2>3, <2>5 DEF Replaces
  <2>7. PutInv'
    BY <1>2, <1>6, <2>1, <2>3, <2>4, <2>6 DEF PutInv
  <2>8. DiskInv'
    BY <1>1, <1>6, <2>1, <2>3, Facts DEF DiskInv
  <2>9. TypeOK'
    BY <1>1, <1>6, <2>1, <2>2, <2>3, Facts, FaultCounted DEF TypeOK, Allow
  <2>10. QED
    BY <1>3, <2>1, <2>7, <2>8, <2>9, PutGoesOn
<1>7. CASE /\ dir' = op.dir /\ UNCHANGED <<boot, map, data>> /\ UNCHANGED <<faults, cut>>
           /\ op.release = {} /\ op' = Done("put", 0)
  <2>1. op.map \ op.release = op.map
    BY <1>7
  <2>2. Owns(dir', map') /\ (~cut' => Tight(dir', map')) /\ Unique(dir')
    BY <1>2, <1>4, <1>7, <2>1
  <2>3. allowed' \in Allow
    <3>1. allowed' = [allowed EXCEPT ![op.name] = {op.file}]
      BY <1>1, <1>7, Outcomes
    <3>2. QED
      BY <1>1, <3>1, PutTyped, Facts DEF Allow
  <2>4. op' \in IdleOp
    BY <1>7, DoneIdle
  <2>5. dir' \in Directory
    BY <1>1, <1>7, PutTyped
  <2>6. QED
    BY <1>3, <1>7, <2>2, <2>3, <2>4, <2>5, Facts, Rest
<1>8. CASE /\ dir' = op.dir /\ UNCHANGED <<boot, map, data>> /\ UNCHANGED <<faults, cut>>
           /\ op' = [op EXCEPT !.pc = "release"]
  <2>1. /\ op' \in PutOp /\ op'.pc = "release" /\ op'.kind = "put" /\ op'.i = op.i
        /\ op'.name = op.name /\ op'.file = op.file /\ op'.blk = op.blk
        /\ op'.fresh = op.fresh /\ op'.old_map = op.old_map /\ op'.map = op.map
        /\ op'.dir = op.dir /\ op'.release = op.release
        /\ PutRun' = PutRun /\ PutEntry' = PutEntry
    BY <1>1, <1>8, PutTurns
  <2>2. allowed' = allowed
    BY <1>1, <2>1, Outcomes
  <2>3. PutFills' /\ PutPlans'
    BY <1>1, <1>2, <1>8, <2>1, <2>2 DEF PutFills, PutPlans
  <2>4. PICK q \in Slot : Replaces(q)
    BY <1>2
  <2>5. dir'[q] = PutEntry
    BY <1>8, <2>4, Facts DEF Replaces, Directory
  <2>6. PutInv'
    BY <1>2, <1>8, <2>1, <2>3, <2>5 DEF PutInv
  <2>7. Owns(dir', map') /\ Owns(dir', Cluster) /\ Unique(dir')
    BY <1>1, <1>2, <1>4, <1>8, PutTyped, OwnsMore
  <2>8. DiskInv'
    BY <2>1, <2>7 DEF DiskInv
  <2>9. TypeOK'
    BY <1>1, <1>8, <2>1, <2>2, Facts, PutTyped DEF TypeOK, Allow
  <2>10. QED
    BY <1>3, <2>1, <2>6, <2>8, <2>9, PutGoesOn
<1>9. QED
  BY <1>5, <1>6, <1>7, <1>8 DEF PutDir, Write, WriteDir, Careful, disk

LEMMA PutUndoSafe == ASSUME SafeInv, Careful, PutUndo PROVE SafeInv'
<1>1. op \in PutOp /\ op.pc = "undo" /\ UNCHANGED job /\ Outcome
  BY Facts, OpKinds DEF PutUndo
<1>2. op' = Done("put", -10) /\ allowed' \in Allow /\ JobInv'
  BY <1>1, Facts, Outcomes, SettleTyped DEF PutUndo, Write, JobInv
<1>3. CASE UNCHANGED disk /\ cut' = TRUE /\ Fault
  BY <1>1, <1>2, <1>3, Facts, DoneIdle, FaultCounted, WriteFails
<1>4. CASE map' = op.old_map /\ UNCHANGED <<boot, dir, data>> /\ UNCHANGED <<faults, cut>>
  <2>1. Owns(dir, op.old_map) /\ cut
    BY <1>1, PutTyped DEF SafeInv, PutInv
  <2>2. op' \in IdleOp
    BY <1>2, DoneIdle
  <2>3. map' \subseteq Cluster
    BY <1>1, <1>4, PutTyped
  <2>4. QED
    BY <1>2, <1>4, <2>1, <2>2, <2>3, Facts, Rest
<1>5. QED
  BY <1>3, <1>4 DEF PutUndo, Write, WriteMap, Careful, disk

LEMMA PutReleaseSafe == ASSUME SafeInv, Careful, PutRelease PROVE SafeInv'
<1>1. op \in PutOp /\ op.pc = "release" /\ UNCHANGED job /\ Outcome
  BY Facts, OpKinds DEF PutRelease
<1>2. PutPlans /\ dir = op.dir
  BY <1>1, PutTyped DEF SafeInv, PutInv
<1>3. JobInv'
  BY <1>1, Facts DEF JobInv
<1>4. CASE UNCHANGED disk /\ cut' = TRUE /\ Fault /\ op' = Done("put", -13)
  BY <1>1, <1>4, Facts, DoneIdle, Outcomes, SettleTyped, FaultCounted, WriteFails
<1>5. CASE /\ map' = op.map \ op.release /\ UNCHANGED <<boot, dir, data>>
           /\ UNCHANGED <<faults, cut>> /\ op' = Done("put", 0)
  <2>1. Owns(dir', map') /\ (~cut' => Tight(dir', map'))
    BY <1>2, <1>5 DEF PutPlans
  <2>2. allowed' \in Allow
    <3>1. allowed' = [allowed EXCEPT ![op.name] = {op.file}]
      BY <1>1, <1>5, Outcomes
    <3>2. QED
      BY <1>1, <3>1, PutTyped, Facts DEF Allow
  <2>3. op' \in IdleOp
    BY <1>5, DoneIdle
  <2>4. map' \subseteq Cluster
    BY <1>1, <1>5, PutTyped
  <2>5. QED
    BY <1>3, <1>5, <2>1, <2>2, <2>3, <2>4, Facts, Rest
<1>6. QED
  BY <1>4, <1>5 DEF PutRelease, Write, WriteMap, Careful, disk

-----------------------------------------------------------------------------
(* rs_del_file, rs_rename_file and rs_fmt_host preserve it.                 *)

LEMMA DelTyped ==
    ASSUME op \in DelOp
    PROVE  /\ op.kind = "del" /\ op.pc # "idle" /\ op.name \in Names
           /\ op.map \subseteq Cluster /\ op.dir \in Directory
  BY DEF DelOp, Marks

LEMMA DelMapSafe == ASSUME SafeInv, Careful, DelMap PROVE SafeInv'
<1>1. op \in DelOp /\ op.pc = "unmap" /\ UNCHANGED job /\ Outcome
  BY Facts, OpKinds DEF DelMap
<1>2. map' = op.map /\ UNCHANGED <<boot, dir, data>> /\ UNCHANGED <<faults, cut>>
      /\ op' = [op EXCEPT !.pc = "clear"]
  BY <1>1, DelTyped DEF DelMap, Write, WriteMap, Fault, Careful
<1>3. /\ op' \in DelOp /\ op'.pc = "clear" /\ op'.kind = "del" /\ op'.name = op.name
      /\ op'.map = op.map /\ op'.dir = op.dir
  BY <1>1, <1>2 DEF DelOp
<1>4. allowed' = allowed
  BY <1>1, <1>3, Outcomes
<1>5. /\ boot /\ Absent \in allowed[op.name]
      /\ Owns(op.dir, op.map) /\ (~cut => Tight(op.dir, op.map))
      /\ \E q \in Used(dir) : dir[q].name = op.name /\ op.dir = [dir EXCEPT ![q] = Free]
  BY <1>1, DelTyped DEF SafeInv, DelInv
<1>6. DelInv'
  BY <1>2, <1>3, <1>4, <1>5 DEF DelInv
<1>7. DiskInv'
  BY <1>2, <1>3, Facts DEF DiskInv
<1>8. TypeOK'
  BY <1>1, <1>2, <1>3, <1>4, Facts, DelTyped DEF TypeOK, Allow
<1>9. JobInv'
  BY <1>1, Facts DEF JobInv
<1>10. OpInv' /\ PutInv' /\ RenameInv' /\ FmtInv'
  BY <1>3 DEF OpInv, PutInv, RenameInv, FmtInv
<1>11. QED
  BY <1>6, <1>7, <1>8, <1>9, <1>10 DEF SafeInv

LEMMA DelDirSafe == ASSUME SafeInv, Careful, DelDir PROVE SafeInv'
<1>1. op \in DelOp /\ op.pc = "clear" /\ UNCHANGED job /\ Outcome
  BY Facts, OpKinds DEF DelDir
<1>2. dir' = op.dir /\ UNCHANGED <<boot, map, data>> /\ UNCHANGED <<faults, cut>>
      /\ op' = Done("del", 0)
  BY <1>1, DelTyped DEF DelDir, Write, WriteDir, Fault, Careful
<1>3. /\ Owns(op.dir, op.map) /\ (~cut => Tight(op.dir, op.map)) /\ map = op.map
      /\ \E q \in Used(dir) : dir[q].name = op.name /\ op.dir = [dir EXCEPT ![q] = Free]
  BY <1>1, DelTyped DEF SafeInv, DelInv
<1>4. Unique(dir')
  <2>1. PICK q \in Used(dir) : op.dir = [dir EXCEPT ![q] = Free]
    BY <1>3
  <2>2. \A s \in Used(op.dir) : s \in Used(dir) /\ op.dir[s] = dir[s]
    BY <2>1, Facts DEF Used, Directory
  <2>3. QED
    BY <1>2, <2>2, Facts DEF Unique
<1>5. allowed' \in Allow
  <2>1. allowed' = [allowed EXCEPT ![op.name] = {Absent}]
    BY <1>1, <1>2, Outcomes
  <2>2. QED
    BY <1>1, <2>1, DelTyped, Facts DEF Allow
<1>6. op' \in IdleOp /\ JobInv'
  BY <1>1, <1>2, DoneIdle, Facts DEF JobInv
<1>7. dir' \in Directory
  BY <1>1, <1>2, DelTyped
<1>8. QED
  BY <1>2, <1>3, <1>4, <1>5, <1>6, <1>7, Facts, Rest

LEMMA RenameTyped ==
    ASSUME op \in RenameOp
    PROVE  /\ op.kind = "rename" /\ op.pc # "idle" /\ op.name \in Names /\ op.to \in Names
           /\ op.dir \in Directory
  BY DEF RenameOp

LEMMA RenameDirSafe == ASSUME SafeInv, Careful, RenameDir PROVE SafeInv'
<1>1. op \in RenameOp /\ op.pc = "rename" /\ UNCHANGED job /\ Outcome
  BY Facts, OpKinds DEF RenameDir
<1>2. JobInv'
  BY <1>1, Facts DEF JobInv
<1>3. CASE UNCHANGED disk /\ cut' = TRUE /\ Fault /\ op' = Done("rename", -5)
  BY <1>1, <1>3, Facts, DoneIdle, Outcomes, SettleTyped, FaultCounted, WriteFails
<1>4. CASE /\ dir' = op.dir /\ UNCHANGED <<boot, map, data>> /\ UNCHANGED <<faults, cut>>
           /\ op' = Done("rename", 0)
  <2>1. /\ \A s \in Used(dir) : dir[s].name # op.to
        /\ \E q \in Used(dir) : dir[q].name = op.name
                                /\ op.dir = [dir EXCEPT ![q].name = op.to]
        /\ ~cut => Tight(dir, map)
    BY <1>1, RenameTyped DEF SafeInv, RenameInv, DiskInv
  <2>2. PICK q \in Used(dir) : op.dir = [dir EXCEPT ![q].name = op.to]
    BY <2>1
  <2>3. Renaming(dir, map, q, op.to, op.dir)
    BY <1>1, <2>1, <2>2, Facts, RenameTyped DEF Renaming, Marks
  <2>4. Unique(dir') /\ Owns(dir', map') /\ (~cut' => Tight(dir', map'))
    <3>1. Unique(op.dir) /\ Owns(op.dir, map) /\ (Tight(dir, map) => Tight(op.dir, map))
      BY <2>3, PlanRename
    <3>2. QED
      BY <1>4, <2>1, <3>1
  <2>5. allowed' \in Allow
    <3>1. allowed' = [allowed EXCEPT ![op.name] = {Absent},
                                     ![op.to] = allowed[op.name] \ {Absent}]
      BY <1>1, <1>4, Outcomes
    <3>2. QED
      BY <1>1, <3>1, RenameTyped, Facts DEF Allow
  <2>6. op' \in IdleOp
    BY <1>4, DoneIdle
  <2>7. dir' \in Directory
    BY <1>1, <1>4, RenameTyped
  <2>8. QED
    BY <1>2, <1>4, <2>4, <2>5, <2>6, <2>7, Facts, Rest
<1>5. QED
  BY <1>3, <1>4 DEF RenameDir, Write, WriteDir, Careful, disk

LEMMA FmtTyped ==
    ASSUME op \in FmtOp
    PROVE  op.kind = "fmt" /\ op.pc # "idle" /\ op.i \in Cluster
  BY DEF FmtOp

LEMMA FmtGoesOn ==
    ASSUME op' \in FmtOp, TypeOK', JobInv', DiskInv', FmtInv' PROVE SafeInv'
<1>1. op'.kind = "fmt"
  BY DEF FmtOp
<1>2. QED
  BY <1>1 DEF SafeInv, OpInv, PutInv, DelInv, RenameInv

LEMMA FmtSafe ==
    ASSUME SafeInv, Careful, FmtBoot \/ FmtMap \/ FmtRoot \/ FmtData PROVE SafeInv'
<1>1. op \in FmtOp /\ UNCHANGED job
  BY Facts, OpKinds DEF FmtBoot, FmtMap, FmtRoot, FmtData
<1>2. ~Fault
  BY <1>1, FmtTyped DEF Fault, Careful
<1>3. JobInv'
  BY <1>1, Facts DEF JobInv
<1>4. \A n \in Names : allowed[n] = Files \union {Absent, Torn}
  BY <1>1, FmtTyped DEF SafeInv, FmtInv
<1>5. CASE FmtBoot
  <2>1. /\ boot' = TRUE /\ UNCHANGED <<map, dir, data>> /\ UNCHANGED <<faults, cut>>
        /\ op' = [op EXCEPT !.pc = "fmtmap"] /\ UNCHANGED allowed /\ op.pc = "fmtboot"
    BY <1>2, <1>5 DEF FmtBoot, Write
  <2>2. op' \in FmtOp /\ op'.pc = "fmtmap"
    BY <1>1, <2>1 DEF FmtOp
  <2>3. TypeOK'
    BY <1>1, <2>1, <2>2, Facts DEF TypeOK, Allow
  <2>4. DiskInv' /\ FmtInv'
    BY <1>4, <2>1, <2>2, Facts DEF DiskInv, FmtInv
  <2>5. QED
    BY <1>3, <2>2, <2>3, <2>4, FmtGoesOn
<1>6. CASE FmtMap
  <2>1. /\ map' = {} /\ UNCHANGED <<boot, dir, data>> /\ UNCHANGED <<faults, cut>>
        /\ op' = [op EXCEPT !.pc = "fmtroot"] /\ UNCHANGED allowed
    BY <1>2, <1>6 DEF FmtMap, Write, WriteMap
  <2>2. op' \in FmtOp /\ op'.pc = "fmtroot"
    BY <1>1, <2>1 DEF FmtOp
  <2>3. TypeOK'
    BY <1>1, <2>1, <2>2, Facts DEF TypeOK, Allow
  <2>4. DiskInv' /\ FmtInv'
    BY <1>4, <2>1, <2>2, Facts DEF DiskInv, FmtInv
  <2>5. QED
    BY <1>3, <2>2, <2>3, <2>4, FmtGoesOn
<1>7. \A d \in Directory : \A m : Used(d) = {} => Unique(d) /\ Owns(d, m) /\ Tight(d, {})
  BY DEF Unique, Owns, Tight
<1>8. CASE FmtRoot
  <2>1. /\ dir' = [s \in Slot |-> Free] /\ UNCHANGED <<boot, map, data>>
        /\ UNCHANGED <<faults, cut>> /\ op.pc = "fmtroot"
        /\ op' = [op EXCEPT !.pc = "fmtdata"] /\ UNCHANGED allowed
    BY <1>2, <1>8 DEF FmtRoot, Write, WriteDir
  <2>2. op' \in FmtOp /\ op'.pc = "fmtdata"
    BY <1>1, <2>1 DEF FmtOp
  <2>3. dir' \in Directory /\ Used(dir') = {}
    BY <2>1 DEF Directory, Used
  <2>4. map = {}
    BY <1>1, <2>1, FmtTyped DEF SafeInv, FmtInv
  <2>5. TypeOK'
    BY <1>1, <2>1, <2>2, <2>3, Facts DEF TypeOK, Allow
  <2>6. DiskInv' /\ FmtInv'
    BY <1>4, <1>7, <2>1, <2>2, <2>3, <2>4 DEF DiskInv, FmtInv
  <2>7. QED
    BY <1>3, <2>2, <2>5, <2>6, FmtGoesOn
<1>9. CASE FmtData
  <2>1. /\ data' = [data EXCEPT ![op.i] = Zero] /\ UNCHANGED <<boot, map, dir>>
        /\ UNCHANGED <<faults, cut>> /\ op.pc = "fmtdata"
        /\ op' = IF op.i + 1 < Sects THEN [op EXCEPT !.i = @ + 1] ELSE Done("fmt", 0)
        /\ allowed' = IF op' = Done("fmt", 0) THEN [n \in Names |-> {Absent}] ELSE allowed
    BY <1>2, <1>9 DEF FmtData, Write, WriteData
  <2>2. map = {} /\ Used(dir) = {}
    BY <1>1, <2>1, FmtTyped DEF SafeInv, FmtInv
  <2>3. data' \in [Cluster -> Value]
    BY <2>1, Facts DEF Value
  <2>4. allowed' \in Allow
    BY <2>1, Facts DEF Allow
  <2>5. Unique(dir') /\ Owns(dir', map') /\ Owns(dir', Cluster) /\ Tight(dir', map')
    BY <1>7, <2>1, <2>2, Facts
  <2>6. CASE op.i + 1 < Sects
    <3>1. op' \in FmtOp /\ op'.pc = "fmtdata"
      <4>1. op.i + 1 \in Cluster
        BY <1>1, <2>6, FmtTyped, VolumeAssumption DEF Cluster
      <4>2. op' = [op EXCEPT !.i = op.i + 1]
        BY <2>1, <2>6
      <4>3. QED
        BY <1>1, <2>1, <4>1, <4>2 DEF FmtOp
    <3>2. allowed' = allowed
      <4>1. op' # Done("fmt", 0)
        BY <3>1 DEF Done
      <4>2. QED
        BY <2>1, <4>1
    <3>3. TypeOK'
      BY <1>1, <2>1, <2>3, <2>4, <3>1, Facts DEF TypeOK, Allow
    <3>4. DiskInv' /\ FmtInv'
      BY <1>4, <2>1, <2>2, <2>5, <3>1, <3>2 DEF DiskInv, FmtInv
    <3>5. QED
      BY <1>3, <3>1, <3>3, <3>4, FmtGoesOn
  <2>7. CASE ~(op.i + 1 < Sects)
    <3>1. op' \in IdleOp
      BY <2>1, <2>7, DoneIdle
    <3>2. QED
      BY <1>3, <2>1, <2>3, <2>4, <2>5, <3>1, Facts, Rest
  <2>8. QED
    BY <2>6, <2>7
<1>10. QED
  BY <1>5, <1>6, <1>8, <1>9

-----------------------------------------------------------------------------
(* The catalog routines, the commands and a restart preserve it.            *)

Phases == [pc : {"seed", "put", "evict"}, i : Nat \ {0}, tries : Nat, freeze : BOOLEAN]
Prepares == [pc : {"prepare"}, tries : Nat, evicted : BOOLEAN]

LEMMA JobKinds ==
    ASSUME JobInv
    PROVE  /\ job.pc \in {"seed", "put", "evict"} => job \in Phases
           /\ job.pc = "prepare" => job \in Prepares
  BY DEF JobInv, Phases, Prepares

LEMMA EndJobTyped == ASSUME NEW c \in Int, job' = EndJob(c) PROVE JobInv'
  BY DEF EndJob, JobInv

LEMMA SeedFromTyped ==
    ASSUME NEW i \in Nat, NEW b \in BOOLEAN, job' = SeedFrom(i + 1, b) PROVE JobInv'
  BY DEF SeedFrom, JobInv

\* The operation and the disk stay as they are.
LEMMA OnlyJob ==
    ASSUME SafeInv, UNCHANGED <<disk, op, faults, cut, allowed>>, JobInv' PROVE SafeInv'
<1>1. /\ UNCHANGED boot /\ UNCHANGED map /\ UNCHANGED dir /\ UNCHANGED data
      /\ UNCHANGED op /\ UNCHANGED faults /\ UNCHANGED cut /\ UNCHANGED allowed
  BY DEF disk
<1>2. job'.pc \in {"none", "prepare", "seed", "put", "evict"}
  BY DEF JobInv
<1>3. TypeOK' /\ OpInv' /\ DiskInv'
  BY <1>1, <1>2 DEF SafeInv, TypeOK, OpInv, DiskInv
<1>4. PutFills' = PutFills /\ PutPlans' = PutPlans /\ PutRun' = PutRun /\ PutEntry' = PutEntry
  BY <1>1 DEF PutFills, PutPlans, PutRun, PutEntry
<1>5. \A q : Replaces(q)' = Replaces(q)
  BY <1>1, <1>4 DEF Replaces
<1>6. PutInv'
  BY <1>1, <1>4, <1>5 DEF SafeInv, PutInv
<1>7. DelInv' /\ FmtInv'
  BY <1>1 DEF SafeInv, DelInv, FmtInv
<1>8. RenameInv' <=> RenameInv
  BY <1>1 DEF RenameInv
<1>9. QED
  BY <1>3, <1>6, <1>7, <1>8 DEF SafeInv

LEMMA EvictSafe ==
    ASSUME SafeInv, op.pc = "idle", UNCHANGED <<disk, faults, cut>>, JobInv',
           NEW next, NEW none, Evict(next, none)
    PROVE  SafeInv'
<1>1. CASE UNCHANGED <<op, allowed>>
  BY <1>1, OnlyJob
<1>2. CASE Evictable # {} /\ BeginDel(Legacy[Min(Evictable)])
  <2>1. Evictable \subseteq Nat
    BY VolumeAssumption DEF Evictable
  <2>2. Min(Evictable) \in Evictable
    BY <1>2, <2>1, MinIsLeast
  <2>3. Legacy[Min(Evictable)] \in Names
    BY <2>2, VolumeAssumption DEF Evictable
  <2>4. QED
    BY <1>2, <2>3, BeginDelSafe
<1>3. QED
  BY <1>1, <1>2 DEF Evict

LEMMA PrepareTurnSafe == ASSUME SafeInv, PrepareTurn PROVE SafeInv'
<1>1. op.pc = "idle" /\ job \in Prepares /\ UNCHANGED <<disk, faults, cut>>
  BY Facts, JobKinds DEF PrepareTurn
<1>2. CASE job' = EndJob(-1) /\ UNCHANGED <<op, allowed>>
  BY <1>1, <1>2, EndJobTyped, OnlyJob
<1>3. CASE job' = SeedFrom(1, TRUE) /\ UNCHANGED <<op, allowed>>
  <2>1. JobInv'
    BY <1>3 DEF SeedFrom, JobInv
  <2>2. QED
    BY <1>1, <1>3, <2>1, OnlyJob
<1>4. CASE Evict([job EXCEPT !.tries = job.tries + 1, !.evicted = TRUE], EndJob(-1))
  <2>1. [job EXCEPT !.tries = job.tries + 1, !.evicted = TRUE] \in Prepares
    <3>1. PICK t \in Nat : t = job.tries + 1
      BY <1>1 DEF Prepares
    <3>2. [job EXCEPT !.tries = t, !.evicted = TRUE] \in Prepares
      BY <1>1 DEF Prepares
    <3>3. QED
      BY <3>1, <3>2
  <2>2. job' \in Prepares \/ job' = EndJob(-1)
    BY <1>4, <2>1 DEF Evict
  <2>3. JobInv'
    BY <2>2, EndJobTyped DEF Prepares, JobInv
  <2>4. PICK a, b : Evict(a, b)
    BY <1>4
  <2>5. QED
    BY <1>1, <2>3, <2>4, EvictSafe
<1>5. QED
  BY <1>2, <1>3, <1>4 DEF PrepareTurn

LEMMA SeedTurnSafe == ASSUME SafeInv, SeedTurn PROVE SafeInv'
<1>1. op.pc = "idle" /\ job \in Phases /\ UNCHANGED <<disk, faults, cut>>
  BY Facts, JobKinds DEF SeedTurn
<1>2. job.i \in Nat /\ job.i # 0 /\ job.freeze \in BOOLEAN /\ job.tries \in Nat
  BY <1>1 DEF Phases
<1>3. CASE UNCHANGED <<op, allowed>> /\ \E c \in {-1, 0} : job' = EndJob(c)
  BY <1>1, <1>3, EndJobTyped, OnlyJob
<1>4. CASE job' = SeedFrom(job.i + 1, job.freeze) /\ UNCHANGED <<op, allowed>>
  BY <1>1, <1>2, <1>4, SeedFromTyped, OnlyJob
<1>5. CASE /\ ~(job.i > Len(Catalog))
           /\ BeginPut(Catalog[job.i], CatalogFile[Catalog[job.i]])
           /\ job' = [job EXCEPT !.pc = "put", !.tries = job.tries + 1]
  <2>1. job' \in Phases
    <3>1. PICK t \in Nat : t = job.tries + 1
      BY <1>2
    <3>2. [job EXCEPT !.pc = "put", !.tries = t] \in Phases
      BY <1>1 DEF Phases
    <3>3. QED
      BY <1>5, <3>1, <3>2
  <2>2. JobInv'
    BY <2>1 DEF Phases, JobInv
  <2>3. job.i \in 1 .. Len(Catalog)
    BY <1>2, <1>5, VolumeAssumption
  <2>4. Catalog[job.i] \in Names /\ CatalogFile[Catalog[job.i]] \in Files
    BY <2>3, VolumeAssumption
  <2>5. QED
    BY <1>1, <1>5, <2>2, <2>4, BeginPutSafe
<1>6. QED
  BY <1>3, <1>4, <1>5 DEF SeedTurn

LEMMA SeedPutSafe == ASSUME SafeInv, SeedPut PROVE SafeInv'
<1>1. op.pc = "idle" /\ job \in Phases /\ UNCHANGED <<disk, faults, cut>>
  BY Facts, JobKinds DEF SeedPut
<1>2. job.i \in Nat /\ job.freeze \in BOOLEAN
  BY <1>1 DEF Phases
<1>3. CASE job' = SeedFrom(job.i + 1, job.freeze) /\ UNCHANGED <<op, allowed>>
  BY <1>1, <1>2, <1>3, SeedFromTyped, OnlyJob
<1>4. CASE Evict([job EXCEPT !.pc = "evict"], SeedFrom(job.i + 1, job.freeze))
  <2>1. [job EXCEPT !.pc = "evict"] \in Phases
    BY <1>1 DEF Phases
  <2>2. job' \in Phases \/ job' = SeedFrom(job.i + 1, job.freeze)
    BY <1>4, <2>1 DEF Evict
  <2>3. JobInv'
    BY <1>2, <2>2, SeedFromTyped DEF Phases, JobInv
  <2>4. PICK a, b : Evict(a, b)
    BY <1>4
  <2>5. QED
    BY <1>1, <2>3, <2>4, EvictSafe
<1>5. QED
  BY <1>3, <1>4 DEF SeedPut

LEMMA SeedEvictedSafe == ASSUME SafeInv, SeedEvicted PROVE SafeInv'
<1>1. job \in Phases /\ UNCHANGED <<disk, op, faults, cut, allowed>>
  BY Facts, JobKinds DEF SeedEvicted
<1>2. job.i \in Nat /\ job.freeze \in BOOLEAN /\ [job EXCEPT !.pc = "seed"] \in Phases
  BY <1>1 DEF Phases
<1>3. job' \in Phases \/ job' = SeedFrom(job.i + 1, job.freeze)
  BY <1>2 DEF SeedEvicted
<1>4. JobInv'
  BY <1>2, <1>3, SeedFromTyped DEF Phases, JobInv
<1>5. QED
  BY <1>1, <1>4, OnlyJob

LEMMA CommandSafe == ASSUME SafeInv, Command PROVE SafeInv'
<1>1. op.pc = "idle" /\ UNCHANGED <<disk, faults, cut>>
  BY DEF Command
<1>2. UNCHANGED job => JobInv'
  BY Facts DEF JobInv
<1>3. CASE UNCHANGED job /\ \E n \in Names, f \in Files : BeginPut(n, f)
  BY <1>1, <1>2, <1>3, BeginPutSafe
<1>4. CASE UNCHANGED job /\ \E n \in Names : BeginDel(n)
  BY <1>1, <1>2, <1>4, BeginDelSafe
<1>5. CASE UNCHANGED job /\ \E n \in Names : \E m \in Names \ {n} : BeginRename(n, m)
  BY <1>1, <1>2, <1>5, BeginRenameSafe
<1>6. CASE UNCHANGED job /\ BeginFmt
  BY <1>1, <1>2, <1>6, BeginFmtSafe
<1>7. CASE /\ UNCHANGED <<op, allowed>>
           /\ \/ job' = SeedFrom(1, FALSE)
              \/ \E c \in {-1, 1} : job' = EndJob(c)
              \/ job' = [pc |-> "prepare", tries |-> 0, evicted |-> FALSE]
  <2>1. JobInv'
    <3>1. [pc |-> "prepare", tries |-> 0, evicted |-> FALSE] \in Prepares
          /\ SeedFrom(1, FALSE) \in Phases
      BY DEF Prepares, Phases, SeedFrom
    <3>2. CASE job' \in Prepares \/ job' \in Phases
      BY <3>2 DEF JobInv, Prepares, Phases
    <3>3. ASSUME NEW c \in {-1, 1}, job' = EndJob(c) PROVE JobInv'
      <4>1. c \in Int
        OBVIOUS
      <4>2. QED
        BY <3>3, <4>1, EndJobTyped
    <3>4. QED
      BY <1>7, <3>1, <3>2, <3>3
  <2>2. QED
    BY <1>1, <1>7, <2>1, OnlyJob
<1>8. QED
  BY <1>3, <1>4, <1>5, <1>6, <1>7 DEF Command

LEMMA RestartSafe == ASSUME SafeInv, Careful, Restart PROVE SafeInv'
<1>1. op' \in IdleOp /\ UNCHANGED boot /\ UNCHANGED map /\ UNCHANGED dir /\ UNCHANGED faults
  BY DoneIdle DEF Restart
<1>2. JobInv'
  BY DEF Restart, NoJob, JobInv
<1>3. allowed' \in Allow
  BY Facts, SettleTyped DEF Restart
<1>4. data' \in [Cluster -> Value]
  <2>1. Probe \in Value
    BY DEF Value
  <2>2. QED
    BY <2>1, Facts DEF Restart
<1>5. op \notin DelOp /\ op \notin FmtOp
  BY DelTyped, FmtTyped DEF Restart, Careful
<1>6. op.pc \notin {"clear", "fmtroot"}
  BY <1>5, Facts, OpKinds
<1>7. cut' = (cut \/ op.pc # "idle")
  BY DEF Restart
<1>8. ~cut' => Tight(dir, map)
  BY <1>7 DEF SafeInv, DiskInv
<1>9. QED
  BY <1>1, <1>2, <1>3, <1>4, <1>6, <1>8, Facts, Rest

-----------------------------------------------------------------------------
(* The bitmap and the directory agree.                                      *)

LEMMA InitSafe == Init => SafeInv
<1> SUFFICES ASSUME Init PROVE SafeInv
  OBVIOUS
<1>1. op \in IdleOp /\ op.pc = "idle" /\ JobInv /\ job.pc = "none"
  BY DoneIdle DEF Init, NoJob, JobInv
<1>2. dir \in Directory /\ Used(dir) = {} /\ map = {}
  BY DEF Init, Directory, Used
<1>3. Unique(dir) /\ Owns(dir, map) /\ Owns(dir, Cluster) /\ Tight(dir, map)
  BY <1>2 DEF Unique, Owns, Tight
<1>4. TypeOK
  BY <1>1, <1>2, VolumeAssumption DEF Init, TypeOK, Value
<1>5. QED
  BY <1>1, <1>3, <1>4 DEF SafeInv, OpInv, DiskInv, PutInv, DelInv, RenameInv, FmtInv

LEMMA NextSafe == SafeInv /\ Careful /\ [Next]_vars => SafeInv'
<1> SUFFICES ASSUME SafeInv, Careful, [Next]_vars PROVE SafeInv'
  OBVIOUS
<1>1. CASE Step
  BY <1>1, PutDataSafe, PutMapSafe, PutDirSafe, PutUndoSafe, PutReleaseSafe, DelMapSafe,
     DelDirSafe, RenameDirSafe, FmtSafe, PrepareTurnSafe, SeedTurnSafe, SeedPutSafe,
     SeedEvictedSafe DEF Step
<1>2. CASE UNCHANGED vars
  <2>1. UNCHANGED <<disk, op, faults, cut, allowed>> /\ UNCHANGED job
    BY <1>2 DEF vars, disk
  <2>2. JobInv'
    BY <2>1, Facts DEF JobInv
  <2>3. QED
    BY <2>1, <2>2, OnlyJob
<1>3. QED
  BY <1>1, <1>2, CommandSafe, RestartSafe DEF Next

\* The invariant says what the run checks.
LEMMA SafeAccounts == SafeInv => ClustersAccounted
<1> SUFFICES ASSUME SafeInv PROVE ClustersAccounted
  OBVIOUS
<1>1. EntriesOwnClusters
  <2>1. SUFFICES ASSUME NEW s \in Used(dir)
                 PROVE  /\ \A t \in Used(dir) \ {s} :
                             RunOf(dir[s]) \intersect RunOf(dir[t]) = {}
                        /\ \/ RunOf(dir[s]) \subseteq map
                           \/ op.pc = "clear" /\ op.dir[s] = Free
                           \/ op.pc = "fmtroot"
    BY DEF EntriesOwnClusters, RunOf
  <2>2. \A t \in Used(dir) \ {s} : RunOf(dir[s]) \intersect RunOf(dir[t]) = {}
    BY Facts DEF Owns
  <2>3. CASE op.pc \notin {"clear", "fmtroot"}
    BY <2>2, <2>3, Facts DEF Owns
  <2>4. CASE op.pc = "clear"
    <3>1. op \in DelOp
      BY <2>4, Facts, OpKinds
    <3>2. Owns(op.dir, op.map) /\ map = op.map
          /\ \E q \in Used(dir) : op.dir = [dir EXCEPT ![q] = Free]
      BY <2>4, <3>1, DelTyped DEF SafeInv, DelInv
    <3>3. PICK q \in Used(dir) : op.dir = [dir EXCEPT ![q] = Free]
      BY <3>2
    <3>4. CASE s = q
      BY <2>2, <2>4, <3>3, <3>4, Facts DEF Used, Directory
    <3>5. CASE s # q
      <4>1. s \in Used(op.dir) /\ op.dir[s] = dir[s]
        BY <3>3, <3>5, Facts DEF Used, Directory
      <4>2. QED
        BY <2>2, <3>2, <4>1 DEF Owns
    <3>6. QED
      BY <3>4, <3>5
  <2>5. CASE op.pc = "fmtroot"
    BY <2>2, <2>5
  <2>6. QED
    BY <2>3, <2>4, <2>5
<1>2. NoLeak
  <2>1. SUFFICES ASSUME op.pc = "idle", ~cut
                 PROVE  map = UNION {RunOf(dir[s]) : s \in Used(dir)}
    BY DEF NoLeak, RunOf
  <2>2. Owns(dir, map) /\ Tight(dir, map)
    BY <2>1 DEF SafeInv, DiskInv
  <2>3. QED
    BY <2>2 DEF Owns, Tight
<1>3. QED
  BY <1>1, <1>2 DEF SafeInv, ClustersAccounted

\* The invariant holds of every behaviour of a volume on which rs_del_file and
\* rs_fmt_host are not interrupted and a write that is reported failed leaves
\* the sector alone.
THEOREM VolumeSafe == ASSUME Careful PROVE Spec => []SafeInv
<1>1. Init => SafeInv
  BY InitSafe
<1>2. SafeInv /\ [Next]_vars => SafeInv'
  BY NextSafe
<1>3. QED
  BY <1>1, <1>2, PTL DEF Spec

\* Two entries never share a cluster, no cluster of an entry is free for
\* rs_put_file to take, and operations that are not interrupted leak none.
THEOREM ClustersSafe == ASSUME Careful PROVE Spec => []ClustersAccounted
<1>1. SafeInv => ClustersAccounted
  BY SafeAccounts
<1>2. QED
  BY <1>1, VolumeSafe, PTL

-----------------------------------------------------------------------------
(* What rs_load_file returns.                                               *)

Holds(e, dt) ==
    {f \in Files : /\ Blocks[f] = e.len
                   /\ \A i \in 0 .. e.len - 1 : dt[e.blk + i] = Block(f, i)}

LEMMA EntryContentIs ==
    ASSUME NEW e, NEW dt
    PROVE  /\ EntryContent(e, dt) = IF ~InVolume(e) \/ Holds(e, dt) = {} THEN Torn
                                    ELSE CHOOSE f \in Holds(e, dt) : TRUE
           /\ EntryContent(e, dt) = Torn \/ EntryContent(e, dt) \in Holds(e, dt)
           /\ EntryContent(e, dt) \in Files \union {Torn}
<1>1. EntryContent(e, dt) = IF ~InVolume(e) \/ Holds(e, dt) = {} THEN Torn
                            ELSE CHOOSE f \in Holds(e, dt) : TRUE
  BY DEF EntryContent, Holds
<1>2. Holds(e, dt) # {} => (CHOOSE f \in Holds(e, dt) : TRUE) \in Holds(e, dt)
  OBVIOUS
<1>3. Holds(e, dt) \subseteq Files
  BY DEF Holds
<1>4. EntryContent(e, dt) = Torn \/ EntryContent(e, dt) \in Holds(e, dt)
  BY <1>1, <1>2
<1>5. QED
  BY <1>1, <1>3, <1>4

LEMMA ContentIs ==
    ASSUME NEW n
    PROVE  /\ Content(n) = IF ~boot \/ FindSlot(dir, n) = 0 THEN Absent
                           ELSE EntryContent(dir[FindSlot(dir, n)], data)
           /\ Content(n)' = IF ~boot' \/ FindSlot(dir', n) = 0 THEN Absent
                            ELSE EntryContent(dir'[FindSlot(dir', n)], data')
<1>1. Content(n) = IF ~boot \/ FindSlot(dir, n) = 0 THEN Absent
                   ELSE EntryContent(dir[FindSlot(dir, n)], data)
  BY DEF Content, EntryContent
<1>2. Content(n)' = IF ~boot' \/ FindSlot(dir', n) = 0 THEN Absent
                    ELSE EntryContent(dir'[FindSlot(dir', n)], data')
  BY DEF Content, EntryContent
<1>3. QED
  BY <1>1, <1>2

LEMMA ContentTyped ==
    ASSUME NEW n
    PROVE  Content(n) \in Files \union {Absent, Torn} /\ Content(n)' \in Files \union {Absent, Torn}
  BY ContentIs, EntryContentIs

\* An entry in the same place with the same data has the same content.
LEMMA SameEntry ==
    ASSUME NEW e, NEW e2, NEW dt, NEW dt2, e.blk \in Nat, e.len \in Nat,
           e2.blk = e.blk, e2.len = e.len, \A c \in RunOf(e) : dt2[c] = dt[c]
    PROVE  EntryContent(e2, dt2) = EntryContent(e, dt)
<1>1. \A i \in 0 .. e.len - 1 : dt2[e2.blk + i] = dt[e.blk + i]
  BY DEF RunOf, Run
<1>2. Holds(e2, dt2) = Holds(e, dt)
  BY <1>1 DEF Holds
<1>3. InVolume(e2) <=> InVolume(e)
  BY DEF InVolume
<1>4. QED
  BY <1>2, <1>3, EntryContentIs

\* The entry of a file that was written completely.
LEMMA WholeFile ==
    ASSUME NEW e \in Entry, NEW dt, NEW f \in Files, e.len = Blocks[f], InVolume(e),
           \A i \in 0 .. Blocks[f] - 1 : dt[e.blk + i] = Block(f, i)
    PROVE  EntryContent(e, dt) = f
<1>1. f \in Holds(e, dt)
  BY DEF Holds
<1>2. e.len \in Nat \ {0}
  BY DEF Entry
<1>3. \A g \in Holds(e, dt) : g = f
  <2>1. SUFFICES ASSUME NEW g \in Holds(e, dt) PROVE g = f
    OBVIOUS
  <2>2. 0 \in 0 .. e.len - 1 /\ 0 \in 0 .. Blocks[f] - 1
    BY <1>2
  <2>3. Block(g, 0) = Block(f, 0)
    BY <2>1, <2>2 DEF Holds
  <2>4. QED
    BY <2>3 DEF Block
<1>4. QED
  BY <1>1, <1>3, EntryContentIs, EntryNotFree

\* The entry of a file of which the first cluster was overwritten.
LEMMA PartFile ==
    ASSUME NEW e \in Entry, NEW dt, NEW f, dt[e.blk] = Block(f, 0)
    PROVE  EntryContent(e, dt) \in {f, Torn}
<1>1. e.len \in Nat \ {0} /\ e.blk \in Nat
  BY VolumeAssumption DEF Entry, Cluster
<1>2. \A g \in Holds(e, dt) : g = f
  <2>1. SUFFICES ASSUME NEW g \in Holds(e, dt) PROVE g = f
    OBVIOUS
  <2>2. 0 \in 0 .. e.len - 1 /\ e.blk + 0 = e.blk
    BY <1>1
  <2>3. Block(g, 0) = Block(f, 0)
    BY <2>1, <2>2 DEF Holds
  <2>4. QED
    BY <2>3 DEF Block
<1>3. QED
  BY <1>2, EntryContentIs

\* A name whose entry and data stay keeps its content.
LEMMA ContentKept ==
    ASSUME dir \in Directory, dir' \in Directory, Unique(dir), Unique(dir'), boot' = boot,
           NEW n,
           \A s \in Used(dir) : dir[s].name = n =>
               /\ s \in Used(dir') /\ dir'[s].name = n
               /\ dir'[s].blk = dir[s].blk /\ dir'[s].len = dir[s].len
               /\ \A c \in RunOf(dir[s]) : data'[c] = data[c],
           \A s \in Used(dir') : dir'[s].name = n => s \in Used(dir) /\ dir[s].name = n
    PROVE  Content(n)' = Content(n)
<1>1. CASE \A s \in Used(dir) : dir[s].name # n
  <2>1. FindSlot(dir, n) = 0 /\ FindSlot(dir', n) = 0
    BY <1>1, FindSlotIs
  <2>2. QED
    BY <2>1, ContentIs
<1>2. CASE \E s \in Used(dir) : dir[s].name = n
  <2>1. PICK s \in Used(dir) : dir[s].name = n
    BY <1>2
  <2>2. FindSlot(dir, n) = s /\ FindSlot(dir', n) = s
    BY <2>1, FindSlotIs
  <2>3. dir[s].blk \in Nat /\ dir[s].len \in Nat
    <3>1. dir[s] \in Entry
      BY <2>1, UsedEntry
    <3>2. QED
      BY <3>1, VolumeAssumption DEF Entry, Cluster
  <2>4. EntryContent(dir'[s], data') = EntryContent(dir[s], data)
    BY <2>1, <2>3, SameEntry
  <2>5. QED
    BY <2>2, <2>4, ContentIs
<1>3. QED
  BY <1>1, <1>2

LEMMA DiskKept == ASSUME UNCHANGED disk, NEW n PROVE Content(n)' = Content(n)
<1>1. UNCHANGED boot /\ UNCHANGED dir /\ UNCHANGED data
  BY DEF disk
<1>2. QED
  BY <1>1, ContentIs

LEMMA OthersKept ==
    ASSUME UNCHANGED boot, UNCHANGED dir, UNCHANGED data, NEW n PROVE Content(n)' = Content(n)
  BY ContentIs

\* After Settle a name that contains what it may still does.
LEMMA Settled ==
    ASSUME allowed' = Settle, \A n \in Names : Content(n)' \in allowed[n]
    PROVE  FilesKeepContents'
<1>1. SUFFICES ASSUME NEW n \in Names PROVE Content(n)' \in allowed'[n]
  BY DEF FilesKeepContents
<1>2. allowed'[n] = {Content(n)'}
  BY DEF Settle
<1>3. QED
  BY <1>2

-----------------------------------------------------------------------------
(* Every name contains what it may.                                         *)

\* The disk stays and the history allows no less.
LEMMA AllowsMore ==
    ASSUME FilesKeepContents, UNCHANGED disk,
           \A n \in Names : Content(n)' \in allowed[n] => Content(n)' \in allowed'[n]
    PROVE  FilesKeepContents'
  BY DiskKept DEF FilesKeepContents

LEMMA FailKeeps ==
    ASSUME FilesKeepContents, UNCHANGED disk, allowed' = Settle
    PROVE  FilesKeepContents'
  BY DiskKept, Settled DEF FilesKeepContents

LEMMA BeginPutKeeps ==
    ASSUME SafeInv, FilesKeepContents, UNCHANGED disk, NEW n \in Names, NEW f, BeginPut(n, f)
    PROVE  FilesKeepContents'
<1>1. allowed \in Allow
  BY Facts
<1>2. allowed' = allowed \/ \E X : allowed' = [allowed EXCEPT ![n] = @ \union X]
  BY DEF BeginPut
<1>3. \A a \in Names : allowed[a] \subseteq allowed'[a]
  BY <1>1, <1>2 DEF Allow
<1>4. QED
  BY <1>3, AllowsMore

LEMMA BeginDelKeeps ==
    ASSUME SafeInv, FilesKeepContents, UNCHANGED disk, NEW n \in Names, BeginDel(n)
    PROVE  FilesKeepContents'
<1>1. allowed \in Allow
  BY Facts
<1>2. allowed' = allowed \/ allowed' = [allowed EXCEPT ![n] = @ \union {Absent}]
  BY DEF BeginDel
<1>3. \A a \in Names : allowed[a] \subseteq allowed'[a]
  BY <1>1, <1>2 DEF Allow
<1>4. QED
  BY <1>3, AllowsMore

LEMMA BeginRenameKeeps ==
    ASSUME SafeInv, FilesKeepContents, UNCHANGED disk, NEW n \in Names, NEW m \in Names,
           BeginRename(n, m)
    PROVE  FilesKeepContents'
<1>1. allowed \in Allow
  BY Facts
<1>2. \/ allowed' = allowed
      \/ allowed' = [allowed EXCEPT ![n] = @ \union {Absent}, ![m] = @ \union allowed[n]]
  BY DEF BeginRename
<1>3. \A a \in Names : allowed[a] \subseteq allowed'[a]
  BY <1>1, <1>2 DEF Allow
<1>4. QED
  BY <1>3, AllowsMore

\* A write of data changes no file but one that is rewritten in place.
LEMMA PutDataOthers ==
    ASSUME SafeInv, Careful, PutData, NEW n, op.fresh \/ n # op.name
    PROVE  Content(n)' = Content(n)
<1>1. op \in PutOp /\ op.pc = "data"
  BY Facts, OpKinds DEF PutData
<1>2. PutFills /\ map = op.old_map /\ Owns(dir, op.old_map)
      /\ (op.fresh => PutRun \intersect op.old_map = {}) /\ \E q \in Slot : Replaces(q)
  BY <1>1, PutTyped DEF SafeInv, PutInv
<1> DEFINE c == op.blk + op.i
<1>3. CASE UNCHANGED disk
  BY <1>3, DiskKept
<1>4. CASE /\ data' = [data EXCEPT ![c] = Block(op.file, op.i)]
           /\ UNCHANGED <<boot, map, dir>>
  <2>2. c \in Cluster /\ c \in PutRun
    BY <1>1, <1>2, PutTyped, VolumeAssumption, SMTT(60) DEF PutFills, Cluster, PutRun, Run
  <2>3. \A x : x # c => data'[x] = data[x]
    BY <1>4, Facts
  <2>5. PICK q \in Slot : Replaces(q)
    BY <1>2
  <2>7. ASSUME NEW s \in Used(dir), op.fresh \/ dir[s].name # op.name
        PROVE  c \notin RunOf(dir[s])
    <3>1. CASE op.fresh
      <4>1. RunOf(dir[s]) \subseteq op.old_map
        BY <1>2, <2>7 DEF Owns
      <4>2. QED
        BY <1>2, <2>2, <3>1, <4>1
    <3>2. CASE ~op.fresh
      <4>1. q \in Used(dir) /\ dir[q].name = op.name /\ dir[q].blk = op.blk
            /\ Blocks[op.file] <= dir[q].len /\ dir[q] \in Entry
        BY <2>5, <3>2, Facts, UsedEntry DEF Replaces, Used
      <4>2. PICK b \in Nat, l \in Nat, w \in Nat :
                b = op.blk /\ l = dir[q].len /\ w = Blocks[op.file]
        BY <1>1, <4>1, PutTyped, VolumeAssumption DEF Entry, Cluster
      <4>3. Run(b, w) \subseteq Run(b, l)
        BY <4>1, <4>2, RunGrows
      <4>4. c \in RunOf(dir[q])
        BY <2>2, <4>1, <4>2, <4>3 DEF PutRun, RunOf
      <4>5. s # q
        BY <2>7, <3>2, <4>1
      <4>6. QED
        BY <1>2, <2>7, <4>1, <4>4, <4>5 DEF Owns
    <3>3. QED
      BY <1>1, <3>1, <3>2, PutTyped
  <2>8. ASSUME NEW s \in Used(dir), dir[s].name = n
        PROVE  \A x \in RunOf(dir[s]) : data'[x] = data[x]
    BY <2>3, <2>7, <2>8
  <2>9. QED
    BY <1>4, <2>8, Facts, ContentKept
<1>5. QED
  BY <1>3, <1>4 DEF PutData, Write, WriteData, Careful, disk

LEMMA PutDataKeeps ==
    ASSUME SafeInv, SafeInv', FilesKeepContents, Careful, PutData PROVE FilesKeepContents'
<1>1. op \in PutOp /\ op.pc = "data" /\ Outcome
  BY Facts, OpKinds DEF PutData
<1>2. PutFills /\ map = op.old_map /\ Owns(dir, op.old_map)
      /\ (op.fresh => PutRun \intersect op.old_map = {}) /\ \E q \in Slot : Replaces(q)
  BY <1>1, PutTyped DEF SafeInv, PutInv
<1> DEFINE c == op.blk + op.i
<1>3. CASE UNCHANGED disk /\ op' = Done("put", -12)
  BY <1>1, <1>3, Outcomes, FailKeeps
<1>4. CASE /\ data' = [data EXCEPT ![c] = Block(op.file, op.i)]
           /\ UNCHANGED <<boot, map, dir>> /\ op'.pc # "idle"
  <2>1. allowed' = allowed
    BY <1>1, <1>4, Outcomes
  <2>2. c \in Cluster /\ c \in PutRun
    BY <1>1, <1>2, PutTyped, VolumeAssumption, SMTT(60) DEF PutFills, Cluster, PutRun, Run
  <2>3. \A x : x # c => data'[x] = data[x]
    BY <1>4, Facts
  <2>4. data'[c] = Block(op.file, op.i)
    BY <1>4, <2>2, Facts
  <2>5. PICK q \in Slot : Replaces(q)
    BY <1>2
  <2>6. SUFFICES ASSUME NEW n \in Names PROVE Content(n)' \in allowed[n]
    BY <2>1 DEF FilesKeepContents
  <2>8. CASE op.fresh \/ n # op.name
    <3>1. Content(n)' = Content(n)
      BY <2>8, PutDataOthers
    <3>2. QED
      BY <3>1 DEF FilesKeepContents
  <2>9. CASE ~op.fresh /\ n = op.name
    <3>1. q \in Used(dir) /\ dir[q].name = n /\ dir[q].blk = op.blk /\ dir[q] \in Entry
          /\ Torn \in allowed[n]
      BY <2>5, <2>9, Facts, UsedEntry DEF Replaces, Used
    <3>2. FindSlot(dir', n) = q
      BY <1>4, <3>1, Facts, FindSlotIs
    <3>3. data'[op.blk] = Block(op.file, 0)
      <4>1. CASE op.i = 0
        BY <1>1, <2>4, <4>1, PutTyped, VolumeAssumption DEF Cluster
      <4>2. CASE op.i # 0
        <5>1. 0 \in 0 .. op.i - 1 /\ op.blk + 0 = op.blk /\ op.blk # c
          BY <1>1, <4>2, PutTyped, VolumeAssumption, SMTT(60) DEF Cluster
        <5>2. QED
          BY <1>2, <2>3, <5>1 DEF PutFills
      <4>3. QED
        BY <4>1, <4>2
    <3>4. EntryContent(dir'[q], data') \in {op.file, Torn}
      <4>1. dir'[q] = dir[q]
        BY <1>4
      <4>2. QED
        BY <3>1, <3>3, <4>1, PartFile
    <3>5. op.file \in allowed[n] /\ boot
      BY <1>2, <2>9 DEF PutFills
    <3>6. q # 0
      BY VolumeAssumption DEF Slot
    <3>7. Content(n)' = EntryContent(dir'[q], data')
      BY <1>4, <3>2, <3>5, <3>6, ContentIs
    <3>8. QED
      BY <3>1, <3>4, <3>5, <3>7
  <2>10. QED
    BY <1>1, <2>8, <2>9, PutTyped
<1>5. QED
  <2>1. \/ UNCHANGED disk /\ op' = Done("put", -12)
        \/ /\ data' = [data EXCEPT ![c] = Block(op.file, op.i)] /\ UNCHANGED <<boot, map, dir>>
           /\ op' = [op EXCEPT !.i = @ + 1,
                        !.pc = IF op.i + 1 < Blocks[op.file] THEN "data"
                               ELSE IF op.fresh THEN "map" ELSE "dir"]
    BY DEF PutData, Write, WriteData, Careful, disk
  <2>2. PICK p \in {"data", "map", "dir"} :
            p = IF op.i + 1 < Blocks[op.file] THEN "data"
                ELSE IF op.fresh THEN "map" ELSE "dir"
    OBVIOUS
  <2>3. op' = [op EXCEPT !.i = op.i + 1, !.pc = p] => op'.pc = p
    BY <1>1 DEF PutOp
  <2>4. QED
    BY <1>3, <1>4, <2>1, <2>2, <2>3

\* The file is there when rs_put_file has switched the entry.
LEMMA PutStored ==
    ASSUME op \in PutOp, PutFills, op.pc # "data", NEW d \in Directory, Unique(d),
           NEW q \in Slot, d[q] = PutEntry
    PROVE  FindSlot(d, op.name) = q /\ EntryContent(d[q], data) = op.file
<1>1. PutEntry \in Entry /\ PutEntry.name = op.name /\ PutEntry.blk = op.blk
      /\ PutEntry.len = Blocks[op.file]
  BY PutTyped DEF PutEntry, Entry
<1>2. q \in Used(d)
  BY <1>1, EntryNotFree DEF Used
<1>3. FindSlot(d, op.name) = q
  BY <1>1, <1>2, FindSlotIs
<1>4. InVolume(PutEntry)
  BY <1>1, PutTyped, VolumeAssumption DEF InVolume, PutFills, Cluster
<1>5. \A i \in 0 .. Blocks[op.file] - 1 : data[op.blk + i] = Block(op.file, i)
  BY DEF PutFills
<1>6. EntryContent(PutEntry, data) = op.file
  BY <1>1, <1>4, <1>5, PutTyped, WholeFile
<1>7. QED
  BY <1>3, <1>6

LEMMA PutMapKeeps ==
    ASSUME SafeInv, FilesKeepContents, Careful, PutMap PROVE FilesKeepContents'
<1>1. op \in PutOp /\ Outcome
  BY Facts, OpKinds DEF PutMap
<1>2. CASE UNCHANGED disk /\ op' = Done("put", -9)
  BY <1>1, <1>2, Outcomes, FailKeeps
<1>3. CASE UNCHANGED boot /\ UNCHANGED dir /\ UNCHANGED data /\ op' = [op EXCEPT !.pc = "dir"]
  <2>1. op'.pc = "dir"
    BY <1>1, <1>3 DEF PutOp
  <2>2. allowed' = allowed
    BY <1>1, <2>1, Outcomes
  <2>3. QED
    BY <1>3, <2>2, OthersKept DEF FilesKeepContents
<1>4. QED
  BY <1>2, <1>3 DEF PutMap, Write, WriteMap, Careful, disk

LEMMA PutDirOthers ==
    ASSUME SafeInv, SafeInv', Careful, PutDir, NEW n, n # op.name
    PROVE  Content(n)' = Content(n)
<1>1. op \in PutOp /\ op.pc = "dir"
  BY Facts, OpKinds DEF PutDir
<1>2. CASE UNCHANGED disk
  BY <1>2, DiskKept
<1>3. CASE dir' = op.dir /\ UNCHANGED boot /\ UNCHANGED data
  <2>1. \E q \in Slot : Replaces(q)
    BY <1>1, PutTyped DEF SafeInv, PutInv
  <2>2. PICK q \in Slot : Replaces(q)
    BY <2>1
  <2>3. dir'[q] = PutEntry /\ \A s \in Slot : s # q => dir'[s] = dir[s]
    BY <1>3, <2>2, Facts DEF Replaces, Directory
  <2>4. dir \in Directory /\ dir' \in Directory /\ Unique(dir) /\ Unique(dir')
    BY Facts DEF SafeInv, TypeOK, DiskInv
  <2>5. PutEntry.name = op.name /\ (dir[q] # Free => dir[q].name = op.name)
    BY <2>2 DEF PutEntry, Replaces
  <2>6. \A s \in Used(dir) : dir[s].name = n =>
            s # q /\ s \in Used(dir') /\ dir'[s] = dir[s]
    BY <2>3, <2>5 DEF Used
  <2>7. \A s \in Used(dir') : dir'[s].name = n =>
            s # q /\ s \in Used(dir) /\ dir'[s] = dir[s]
    BY <2>3, <2>5 DEF Used
  <2>8. QED
    BY <1>3, <2>4, <2>6, <2>7, ContentKept
<1>4. QED
  BY <1>2, <1>3 DEF PutDir, Write, WriteDir, Careful, disk

LEMMA PutDirKeeps ==
    ASSUME SafeInv, SafeInv', FilesKeepContents, Careful, PutDir PROVE FilesKeepContents'
<1>1. op \in PutOp /\ op.pc = "dir" /\ Outcome
  BY Facts, OpKinds DEF PutDir
<1>2. CASE UNCHANGED disk /\ op' = Done("put", -10)
  BY <1>1, <1>2, Outcomes, FailKeeps
<1>3. CASE UNCHANGED disk /\ op' = [op EXCEPT !.pc = "undo"]
  <2>1. op'.pc = "undo"
    BY <1>1, <1>3 DEF PutOp
  <2>2. allowed' = allowed
    BY <1>1, <2>1, Outcomes
  <2>3. QED
    BY <1>3, <2>2, AllowsMore
<1>4. CASE /\ dir' = op.dir /\ UNCHANGED boot /\ UNCHANGED data
           /\ op' = Done("put", 0) \/ op' = [op EXCEPT !.pc = "release"]
  <2>1. PutFills /\ \E q \in Slot : Replaces(q)
    BY <1>1, PutTyped DEF SafeInv, PutInv
  <2>2. PICK q \in Slot : Replaces(q)
    BY <2>1
  <2>3. dir'[q] = PutEntry /\ \A s \in Slot : s # q => dir'[s] = dir[s]
    BY <1>4, <2>2, Facts DEF Replaces, Directory
  <2>4. dir \in Directory /\ dir' \in Directory /\ Unique(dir) /\ Unique(dir')
    BY Facts DEF SafeInv, TypeOK, DiskInv
  <2>5. op.file \in allowed'[op.name] /\ \A n \in Names \ {op.name} : allowed'[n] = allowed[n]
    <3>1. CASE op' = Done("put", 0)
      <4>1. allowed' = [allowed EXCEPT ![op.name] = {op.file}]
        BY <1>1, <3>1, Outcomes
      <4>2. QED
        BY <1>1, <4>1, Facts, PutTyped DEF Allow
    <3>2. CASE op' = [op EXCEPT !.pc = "release"]
      <4>1. op'.pc = "release"
        BY <1>1, <3>2 DEF PutOp
      <4>2. allowed' = allowed
        BY <1>1, <4>1, Outcomes
      <4>3. QED
        BY <2>1, <4>2 DEF PutFills
    <3>3. QED
      BY <1>4, <3>1, <3>2
  <2>6. SUFFICES ASSUME NEW n \in Names PROVE Content(n)' \in allowed'[n]
    BY DEF FilesKeepContents
  <2>7. CASE n = op.name
    <3>1. FindSlot(dir', n) = q /\ EntryContent(dir'[q], data) = op.file
      BY <1>1, <2>1, <2>3, <2>4, <2>7, PutStored
    <3>2. q # 0 /\ boot
      BY <2>1, VolumeAssumption DEF Slot, PutFills
    <3>3. QED
      BY <1>4, <2>5, <2>7, <3>1, <3>2, ContentIs
  <2>8. CASE n # op.name
    <3>1. Content(n)' = Content(n)
      BY <2>8, PutDirOthers
    <3>2. QED
      BY <2>5, <2>8, <3>1 DEF FilesKeepContents
  <2>9. QED
    BY <2>7, <2>8
<1>5. QED
  BY <1>2, <1>3, <1>4 DEF PutDir, Write, WriteDir, Careful, disk

LEMMA PutUndoKeeps ==
    ASSUME SafeInv, FilesKeepContents, Careful, PutUndo PROVE FilesKeepContents'
<1>1. Outcome /\ op' = Done("put", -10)
  BY DEF PutUndo, Write
<1>2. UNCHANGED boot /\ UNCHANGED dir /\ UNCHANGED data
  BY DEF PutUndo, Write, WriteMap, Careful, disk
<1>3. allowed' = Settle
  BY <1>1, Outcomes
<1>4. QED
  BY <1>2, <1>3, OthersKept, Settled DEF FilesKeepContents

LEMMA PutReleaseKeeps ==
    ASSUME SafeInv, FilesKeepContents, Careful, PutRelease PROVE FilesKeepContents'
<1>1. op \in PutOp /\ op.pc = "release" /\ Outcome
  BY Facts, OpKinds DEF PutRelease
<1>2. CASE UNCHANGED disk /\ op' = Done("put", -13)
  BY <1>1, <1>2, Outcomes, FailKeeps
<1>3. CASE UNCHANGED boot /\ UNCHANGED dir /\ UNCHANGED data /\ op' = Done("put", 0)
  <2>1. allowed' = [allowed EXCEPT ![op.name] = {op.file}]
    BY <1>1, <1>3, Outcomes
  <2>2. PutFills /\ \E q \in Slot : dir[q] = PutEntry
    BY <1>1, PutTyped DEF SafeInv, PutInv
  <2>3. PICK q \in Slot : dir[q] = PutEntry
    BY <2>2
  <2>4. FindSlot(dir, op.name) = q /\ EntryContent(dir[q], data) = op.file /\ q # 0 /\ boot
    <3>1. dir \in Directory /\ Unique(dir)
      BY Facts
    <3>2. FindSlot(dir, op.name) = q /\ EntryContent(dir[q], data) = op.file
      BY <1>1, <2>2, <2>3, <3>1, PutStored
    <3>3. q # 0 /\ boot
      BY <2>2, VolumeAssumption DEF Slot, PutFills
    <3>4. QED
      BY <3>2, <3>3
  <2>5. Content(op.name) = op.file
    BY <2>4, ContentIs
  <2>6. SUFFICES ASSUME NEW n \in Names PROVE Content(n)' \in allowed'[n]
    BY DEF FilesKeepContents
  <2>7. Content(n)' = Content(n)
    BY <1>3, OthersKept
  <2>8. QED
    BY <1>1, <2>1, <2>5, <2>7, Facts, PutTyped DEF FilesKeepContents, Allow
<1>4. QED
  BY <1>2, <1>3 DEF PutRelease, Write, WriteMap, Careful, disk

\* The directory without the entry that rs_del_file clears.
LEMMA DelDirIs ==
    ASSUME SafeInv, SafeInv', Careful, DelDir
    PROVE  /\ dir' = op.dir /\ UNCHANGED boot /\ UNCHANGED data /\ op' = Done("del", 0)
           /\ dir \in Directory /\ dir' \in Directory /\ Unique(dir) /\ Unique(dir')
           /\ \E q \in Used(dir) : /\ dir[q].name = op.name /\ Used(dir') = Used(dir) \ {q}
                                   /\ \A s \in Used(dir') : dir'[s] = dir[s]
<1>1. op \in DelOp
  BY Facts, OpKinds DEF DelDir
<1>2. dir' = op.dir /\ UNCHANGED boot /\ UNCHANGED data /\ op' = Done("del", 0)
  BY <1>1, DelTyped DEF DelDir, Write, WriteDir, Fault, Careful
<1>3. \E q \in Used(dir) : dir[q].name = op.name /\ op.dir = [dir EXCEPT ![q] = Free]
  BY <1>1, DelTyped DEF SafeInv, DelInv
<1>4. PICK q \in Used(dir) : dir[q].name = op.name /\ op.dir = [dir EXCEPT ![q] = Free]
  BY <1>3
<1>5. dir \in Directory /\ dir' \in Directory /\ Unique(dir) /\ Unique(dir')
  BY Facts DEF SafeInv, TypeOK, DiskInv
<1>6. Used(dir') = Used(dir) \ {q} /\ \A s \in Used(dir') : dir'[s] = dir[s]
  BY <1>2, <1>4, <1>5 DEF Used, Directory
<1>7. QED
  BY <1>2, <1>4, <1>5, <1>6

LEMMA DelDirOthers ==
    ASSUME SafeInv, SafeInv', Careful, DelDir, NEW n, n # op.name
    PROVE  Content(n)' = Content(n)
<1>1. PICK q \in Used(dir) : /\ dir[q].name = op.name /\ Used(dir') = Used(dir) \ {q}
                             /\ \A s \in Used(dir') : dir'[s] = dir[s]
  BY DelDirIs
<1>2. QED
  BY <1>1, DelDirIs, ContentKept

LEMMA DelKeeps ==
    ASSUME SafeInv, SafeInv', FilesKeepContents, Careful, DelMap \/ DelDir
    PROVE  FilesKeepContents'
<1>1. op \in DelOp /\ Outcome
  BY Facts, OpKinds DEF DelMap, DelDir
<1>2. ~Fault
  BY <1>1, DelTyped DEF Fault, Careful
<1>3. CASE DelMap
  <2>1. UNCHANGED boot /\ UNCHANGED dir /\ UNCHANGED data /\ op' = [op EXCEPT !.pc = "clear"]
    BY <1>2, <1>3 DEF DelMap, Write, WriteMap
  <2>2. op'.pc = "clear"
    BY <1>1, <2>1 DEF DelOp
  <2>3. allowed' = allowed
    BY <1>1, <2>2, Outcomes
  <2>4. QED
    BY <2>1, <2>3, OthersKept DEF FilesKeepContents
<1>4. CASE DelDir
  <2>1. UNCHANGED boot /\ UNCHANGED data /\ op' = Done("del", 0)
    BY <1>4, DelDirIs
  <2>2. allowed' = [allowed EXCEPT ![op.name] = {Absent}]
    BY <1>1, <2>1, Outcomes
  <2>4. PICK q \in Used(dir) : /\ dir[q].name = op.name /\ Used(dir') = Used(dir) \ {q}
                               /\ \A s \in Used(dir') : dir'[s] = dir[s]
    BY <1>4, DelDirIs
  <2>5. dir \in Directory /\ dir' \in Directory /\ Unique(dir) /\ Unique(dir')
    BY <1>4, DelDirIs
  <2>7. SUFFICES ASSUME NEW n \in Names PROVE Content(n)' \in allowed'[n]
    BY DEF FilesKeepContents
  <2>8. CASE n = op.name
    <3>1. \A s \in Used(dir') : dir'[s].name # n
      BY <2>4, <2>5, <2>8 DEF Unique
    <3>2. Content(n)' = Absent
      BY <2>5, <3>1, FindSlotIs, ContentIs
    <3>3. QED
      BY <2>2, <2>8, <3>2, Facts DEF Allow
  <2>9. CASE n # op.name
    <3>1. Content(n)' = Content(n)
      BY <1>4, <2>9, DelDirOthers
    <3>2. QED
      BY <1>1, <2>2, <2>9, <3>1, Facts, DelTyped DEF FilesKeepContents, Allow
  <2>10. QED
    BY <2>8, <2>9
<1>5. QED
  BY <1>3, <1>4

LEMMA RenameKeeps ==
    ASSUME SafeInv, SafeInv', FilesKeepContents, Careful, RenameDir PROVE FilesKeepContents'
<1>1. op \in RenameOp /\ op.pc = "rename" /\ Outcome
  BY Facts, OpKinds DEF RenameDir
<1>2. CASE UNCHANGED disk /\ op' = Done("rename", -5)
  BY <1>1, <1>2, Outcomes, FailKeeps
<1>3. CASE dir' = op.dir /\ UNCHANGED boot /\ UNCHANGED data /\ op' = Done("rename", 0)
  <2>1. /\ boot /\ op.name # op.to
        /\ \A s \in Used(dir) : dir[s].name # op.to
        /\ \E q \in Used(dir) : dir[q].name = op.name
                                /\ op.dir = [dir EXCEPT ![q].name = op.to]
    BY <1>1, RenameTyped DEF SafeInv, RenameInv
  <2>2. PICK q \in Used(dir) : dir[q].name = op.name /\ op.dir = [dir EXCEPT ![q].name = op.to]
    BY <2>1
  <2>3. dir \in Directory /\ dir' \in Directory /\ Unique(dir) /\ Unique(dir')
    BY Facts DEF SafeInv, TypeOK, DiskInv
  <2>4. /\ Used(dir') = Used(dir) /\ \A s \in Slot : s # q => dir'[s] = dir[s]
        /\ dir'[q].name = op.to /\ dir'[q].blk = dir[q].blk /\ dir'[q].len = dir[q].len
    <3>1. Renaming(dir, map, q, op.to, op.dir)
      BY <1>1, <2>1, <2>2, Facts, RenameTyped DEF Renaming, Marks
    <3>2. /\ Used(op.dir) = Used(dir) /\ \A s \in Slot : s # q => op.dir[s] = dir[s]
          /\ op.dir[q].name = op.to /\ op.dir[q].blk = dir[q].blk /\ op.dir[q].len = dir[q].len
      BY <3>1, PlanRename
    <3>3. QED
      BY <1>3, <3>2
  <2>5. /\ allowed'[op.name] = {Absent} /\ allowed'[op.to] = allowed[op.name] \ {Absent}
        /\ \A n \in Names \ {op.name, op.to} : allowed'[n] = allowed[n]
    <3>1. allowed' = [allowed EXCEPT ![op.name] = {Absent},
                                     ![op.to] = allowed[op.name] \ {Absent}]
      BY <1>1, <1>3, Outcomes
    <3>2. QED
      BY <1>1, <2>1, <3>1, Facts, RenameTyped DEF Allow
  <2>6. \A s \in Used(dir) : s \in Slot
    BY DEF Used
  <2>7. SUFFICES ASSUME NEW n \in Names PROVE Content(n)' \in allowed'[n]
    BY DEF FilesKeepContents
  <2>8. CASE n = op.name
    <3>1. \A s \in Used(dir') : dir'[s].name # n
      BY <2>1, <2>2, <2>3, <2>4, <2>6, <2>8 DEF Unique
    <3>2. Content(n)' = Absent
      BY <2>3, <3>1, FindSlotIs, ContentIs
    <3>3. QED
      BY <2>5, <2>8, <3>2
  <2>9. CASE n = op.to
    <3>1. FindSlot(dir', n) = q /\ FindSlot(dir, op.name) = q /\ q # 0
      BY <2>2, <2>3, <2>4, <2>9, FindSlotIs, VolumeAssumption DEF Used, Slot
    <3>2. dir[q].blk \in Nat /\ dir[q].len \in Nat
      <4>1. dir[q] \in Entry
        BY <2>2, <2>3, UsedEntry
      <4>2. QED
        BY <4>1, VolumeAssumption DEF Entry, Cluster
    <3>3. EntryContent(dir'[q], data') = EntryContent(dir[q], data)
      BY <1>3, <2>4, <3>2, SameEntry
    <3>4. Content(n)' = Content(op.name) /\ Content(op.name) \in Files \union {Torn}
      <4>1. Content(op.name) = EntryContent(dir[q], data)
        BY <2>1, <3>1, ContentIs
      <4>2. Content(n)' = EntryContent(dir'[q], data')
        BY <1>3, <2>1, <3>1, ContentIs
      <4>3. EntryContent(dir[q], data) \in Files \union {Torn}
        BY EntryContentIs
      <4>4. QED
        BY <3>3, <4>1, <4>2, <4>3
    <3>5. Content(n)' # Absent
      BY <3>4, VolumeAssumption
    <3>6. Content(op.name) \in allowed[op.name]
      BY <1>1, RenameTyped DEF FilesKeepContents
    <3>7. QED
      BY <2>5, <2>9, <3>4, <3>5, <3>6
  <2>10. CASE n # op.name /\ n # op.to
    <3>1. \A s \in Used(dir) : dir[s].name = n => s # q /\ dir'[s] = dir[s]
      BY <2>2, <2>4, <2>6, <2>10
    <3>2. \A s \in Used(dir') : dir'[s].name = n => s # q /\ dir'[s] = dir[s]
      BY <2>4, <2>6, <2>10
    <3>3. Content(n)' = Content(n)
      BY <1>3, <2>3, <2>4, <3>1, <3>2, ContentKept
    <3>4. QED
      BY <2>5, <2>10, <3>3 DEF FilesKeepContents
  <2>11. QED
    BY <2>8, <2>9, <2>10
<1>4. QED
  BY <1>2, <1>3 DEF RenameDir, Write, WriteDir, Careful, disk

LEMMA FmtKeeps ==
    ASSUME SafeInv, FilesKeepContents, Careful, FmtBoot \/ FmtMap \/ FmtRoot \/ FmtData
    PROVE  FilesKeepContents'
<1>1. op \in FmtOp
  BY Facts, OpKinds DEF FmtBoot, FmtMap, FmtRoot, FmtData
<1>2. ~Fault
  BY <1>1, FmtTyped DEF Fault, Careful
<1>3. \A n \in Names : allowed[n] = Files \union {Absent, Torn}
  BY <1>1, FmtTyped DEF SafeInv, FmtInv
<1>4. CASE allowed' = allowed
  BY <1>3, <1>4, ContentTyped DEF FilesKeepContents
<1>5. CASE FmtData /\ allowed' # allowed
  <2>1. UNCHANGED dir /\ allowed' = [n \in Names |-> {Absent}] /\ op.pc = "fmtdata"
    BY <1>2, <1>5 DEF FmtData, Write, WriteData
  <2>2. Used(dir) = {}
    BY <1>1, <2>1, FmtTyped DEF SafeInv, FmtInv
  <2>3. SUFFICES ASSUME NEW n \in Names PROVE Content(n)' = Absent
    BY <2>1 DEF FilesKeepContents
  <2>4. FindSlot(dir', n) = 0
    BY <2>1, <2>2, Facts, FindSlotIs
  <2>5. QED
    BY <2>4, ContentIs
<1>6. QED
  BY <1>4, <1>5 DEF FmtBoot, FmtMap, FmtRoot

LEMMA EvictKeeps ==
    ASSUME SafeInv, FilesKeepContents, UNCHANGED disk, NEW next, NEW none, Evict(next, none)
    PROVE  FilesKeepContents'
<1>1. CASE UNCHANGED allowed
  BY <1>1, AllowsMore
<1>2. CASE Evictable # {} /\ BeginDel(Legacy[Min(Evictable)])
  <2>1. Evictable \subseteq Nat
    BY VolumeAssumption DEF Evictable
  <2>2. Min(Evictable) \in Evictable
    BY <1>2, <2>1, MinIsLeast
  <2>3. Legacy[Min(Evictable)] \in Names
    BY <2>2, VolumeAssumption DEF Evictable
  <2>4. QED
    BY <1>2, <2>3, BeginDelKeeps
<1>3. QED
  BY <1>1, <1>2 DEF Evict

LEMMA JobKeeps ==
    ASSUME SafeInv, FilesKeepContents, PrepareTurn \/ SeedTurn \/ SeedPut \/ SeedEvicted
    PROVE  FilesKeepContents'
<1>1. UNCHANGED disk
  BY DEF PrepareTurn, SeedTurn, SeedPut, SeedEvicted
<1>2. CASE UNCHANGED allowed
  BY <1>1, <1>2, AllowsMore
<1>3. CASE \E a, b : Evict(a, b)
  BY <1>1, <1>3, EvictKeeps
<1>4. CASE SeedTurn /\ ~(job.i > Len(Catalog))
           /\ BeginPut(Catalog[job.i], CatalogFile[Catalog[job.i]])
  <2>1. job \in Phases
    BY <1>4, Facts, JobKinds DEF SeedTurn
  <2>2. job.i \in 1 .. Len(Catalog)
    BY <1>4, <2>1, VolumeAssumption DEF Phases
  <2>3. Catalog[job.i] \in Names
    BY <2>2, VolumeAssumption
  <2>4. QED
    BY <1>1, <1>4, <2>3, BeginPutKeeps
<1>5. QED
  <2>1. PrepareTurn => UNCHANGED allowed \/ \E a, b : Evict(a, b)
    BY DEF PrepareTurn
  <2>2. SeedPut => UNCHANGED allowed \/ \E a, b : Evict(a, b)
    BY DEF SeedPut
  <2>3. SeedEvicted => UNCHANGED allowed
    BY DEF SeedEvicted
  <2>4. SeedTurn =>
            \/ UNCHANGED allowed
            \/ /\ ~(job.i > Len(Catalog))
               /\ BeginPut(Catalog[job.i], CatalogFile[Catalog[job.i]])
    BY DEF SeedTurn
  <2>5. QED
    BY <1>2, <1>3, <1>4, <2>1, <2>2, <2>3, <2>4

LEMMA CommandKeeps ==
    ASSUME SafeInv, FilesKeepContents, Command PROVE FilesKeepContents'
<1>1. UNCHANGED disk
  BY DEF Command
<1>2. CASE UNCHANGED allowed
  BY <1>1, <1>2, AllowsMore
<1>3. CASE \E n \in Names, f \in Files : BeginPut(n, f)
  BY <1>1, <1>3, BeginPutKeeps
<1>4. CASE \E n \in Names : BeginDel(n)
  BY <1>1, <1>4, BeginDelKeeps
<1>5. CASE \E n \in Names : \E m \in Names \ {n} : BeginRename(n, m)
  BY <1>1, <1>5, BeginRenameKeeps
<1>6. CASE BeginFmt
  BY <1>6, ContentTyped DEF BeginFmt, FilesKeepContents
<1>7. QED
  BY <1>2, <1>3, <1>4, <1>5, <1>6 DEF Command

LEMMA RestartKeeps ==
    ASSUME FilesKeepContents, NoProbe, Restart PROVE FilesKeepContents'
<1>1. UNCHANGED disk /\ allowed' = Settle
  BY DEF Restart, NoProbe, disk
<1>2. QED
  BY <1>1, FailKeeps

LEMMA NextKeeps ==
    SafeInv /\ SafeInv' /\ FilesKeepContents /\ Careful /\ NoProbe /\ [Next]_vars
        => FilesKeepContents'
<1> SUFFICES ASSUME SafeInv, SafeInv', FilesKeepContents, Careful, NoProbe, [Next]_vars
             PROVE  FilesKeepContents'
  OBVIOUS
<1>1. CASE Step
  BY <1>1, PutDataKeeps, PutMapKeeps, PutDirKeeps, PutUndoKeeps, PutReleaseKeeps, DelKeeps,
     RenameKeeps, FmtKeeps, JobKeeps DEF Step
<1>2. CASE UNCHANGED vars
  <2>1. UNCHANGED disk /\ UNCHANGED allowed
    BY <1>2 DEF vars, disk
  <2>2. QED
    BY <2>1, AllowsMore
<1>3. QED
  BY <1>1, <1>2, CommandKeeps, RestartKeeps DEF Next

\* Every name contains what the last operation on it left, for every volume that
\* the probe of virtio_blk_probe_rw does not reach.
THEOREM ContentsSafe == ASSUME Careful, NoProbe PROVE Spec => []FilesKeepContents
<1>1. Init => FilesKeepContents
  <2> SUFFICES ASSUME Init, NEW n \in Names PROVE Content(n) \in allowed[n]
    BY DEF FilesKeepContents
  <2>1. dir \in Directory /\ Used(dir) = {} /\ allowed[n] = {Absent}
    BY DEF Init, Directory, Used
  <2>2. FindSlot(dir, n) = 0
    BY <2>1, FindSlotIs
  <2>3. QED
    BY <2>1, <2>2, ContentIs
<1>2. SafeInv /\ SafeInv' /\ FilesKeepContents /\ [Next]_vars => FilesKeepContents'
  BY NextKeeps
<1>3. QED
  BY <1>1, <1>2, VolumeSafe, PTL DEF Spec

-----------------------------------------------------------------------------
(* Making room for the catalog touches no other file.                       *)

LEMMA SameExists ==
    ASSUME UNCHANGED boot, UNCHANGED dir, NEW n PROVE Exists(n)' <=> Exists(n)
  BY DEF Exists

LEMMA DiskExists == ASSUME UNCHANGED disk, NEW n PROVE Exists(n)' <=> Exists(n)
  BY SameExists DEF disk

\* A put of a name that does not exist.
LEMMA BeginPutNew ==
    ASSUME NEW n, NEW f, BeginPut(n, f), ~Exists(n)
    PROVE  \/ op'.pc = "idle" /\ op'.code # 0
           \/ op'.pc = "data" /\ op'.fresh /\ op'.release = {} /\ op'.name = n
<1>1. CASE ~boot
  BY <1>1 DEF BeginPut, Done
<1>2. CASE boot /\ FindSlot(dir, n) = 0
  <2> DEFINE len == Blocks[f]
             fresh == FindSlot(dir, n) = 0 \/ len > dir[FindSlot(dir, n)].len
             old == IF FindSlot(dir, n) = 0 THEN {}
                    ELSE Run(dir[FindSlot(dir, n)].blk, dir[FindSlot(dir, n)].len)
             blk == IF fresh THEN Min(FreeRuns(map, len)) ELSE dir[FindSlot(dir, n)].blk
             release == IF fresh THEN old ELSE old \ Run(blk, len)
  <2>3. \/ \E c \in {-6, -8} : op' = Done("put", c)
        \/ \E m2, d :
              op' = [pc |-> "data", kind |-> "put", name |-> n, file |-> f, blk |-> blk,
                     i |-> 0, fresh |-> fresh, old_map |-> map, map |-> m2, dir |-> d,
                     release |-> release]
    BY <1>2 DEF BeginPut
  <2>4. fresh /\ release = {}
    BY <1>2
  <2> HIDE DEF fresh, release, blk, old, len
  <2>2. QED
    BY <2>3, <2>4 DEF Done
<1>3. QED
  BY <1>1, <1>2 DEF Exists

LEMMA BeginDelLegacy ==
    ASSUME NEW n, BeginDel(n)
    PROVE  op'.pc # "idle" => op'.pc = "unmap" /\ op'.name = n
  BY DEF BeginDel, Done

LEMMA EvictLegacy ==
    ASSUME NEW next, NEW none, Evict(next, none)
    PROVE  \/ job' = none /\ UNCHANGED op
           \/ /\ job' = next
              /\ op'.pc # "idle" => op'.pc = "unmap" /\ op'.name \in ToSetOf(Legacy)
<1>1. CASE Evictable # {} /\ BeginDel(Legacy[Min(Evictable)]) /\ job' = next
  <2>1. Evictable \subseteq Nat
    BY VolumeAssumption DEF Evictable
  <2>2. Min(Evictable) \in DOMAIN Legacy
    BY <1>1, <2>1, MinIsLeast DEF Evictable
  <2>3. Legacy[Min(Evictable)] \in ToSetOf(Legacy)
    BY <2>2 DEF ToSetOf
  <2>4. QED
    BY <1>1, <2>3, BeginDelLegacy
<1>2. QED
  BY <1>1 DEF Evict

\* A turn of a catalog routine.
LEMMA TurnSeeds ==
    ASSUME SafeInv, SafeInv', SeedSafe, PrepareTurn \/ SeedTurn \/ SeedPut \/ SeedEvicted
    PROVE  SeedSafe'
<1>1. \A n : Exists(n)' <=> Exists(n)
  BY DiskExists DEF PrepareTurn, SeedTurn, SeedPut, SeedEvicted
<1>2. op.pc = "idle"
  BY DEF PrepareTurn, SeedTurn, SeedPut, SeedEvicted
<1>3. OpInv'
  BY DEF SafeInv
<1>4. /\ op'.pc = "unmap" => op' \in DelOp
      /\ op'.pc \in {"data", "map", "dir", "undo", "release"} => op' \in PutOp
  BY <1>3 DEF OpInv, IdleOp, PutOp, DelOp, RenameOp, FmtOp
<1>5. CASE UNCHANGED op /\ (job'.pc = "none" \/ (job'.pc = "seed" /\ job'.tries = 0))
  BY <1>2, <1>5 DEF SeedSafe
<1>6. CASE PrepareTurn
  <2>1. job \in Prepares
    BY <1>6, Facts, JobKinds DEF PrepareTurn
  <2>2. CASE Evict([job EXCEPT !.tries = job.tries + 1, !.evicted = TRUE], EndJob(-1))
    <3>1. PICK a : a = [job EXCEPT !.tries = job.tries + 1, !.evicted = TRUE]
      OBVIOUS
    <3>2. a.pc = "prepare"
      BY <2>1, <3>1 DEF Prepares
    <3>3. \/ job' = EndJob(-1) /\ UNCHANGED op
          \/ /\ job' = a
             /\ op'.pc # "idle" => op'.pc = "unmap" /\ op'.name \in ToSetOf(Legacy)
      BY <2>2, <3>1, EvictLegacy
    <3>4. EndJob(-1).pc = "none"
      BY DEF EndJob
    <3>5. CASE job' = EndJob(-1) /\ UNCHANGED op
      BY <1>5, <3>4, <3>5
    <3>6. CASE job' = a /\ (op'.pc # "idle" => op'.pc = "unmap" /\ op'.name \in ToSetOf(Legacy))
      BY <1>4, <3>2, <3>6 DEF SeedSafe
    <3>7. QED
      BY <3>3, <3>5, <3>6
  <2>3. CASE UNCHANGED op /\ (job' = EndJob(-1) \/ job' = SeedFrom(1, TRUE))
    BY <1>5, <2>3 DEF EndJob, SeedFrom
  <2>4. QED
    BY <1>6, <2>2, <2>3 DEF PrepareTurn
<1>7. CASE SeedTurn
  <2>1. job \in Phases
    BY <1>7, Facts, JobKinds DEF SeedTurn
  <2>2. CASE /\ ~(job.tries = 0 /\ Exists(Catalog[job.i]))
             /\ BeginPut(Catalog[job.i], CatalogFile[Catalog[job.i]])
             /\ job' = [job EXCEPT !.pc = "put", !.tries = @ + 1]
    <3>1. ~Exists(Catalog[job.i])
      BY <1>7, <2>2 DEF SeedSafe, SeedTurn
    <3>2. \/ op'.pc = "idle" /\ op'.code # 0
          \/ op'.pc = "data" /\ op'.fresh /\ op'.release = {} /\ op'.name = Catalog[job.i]
      BY <2>2, <3>1, BeginPutNew
    <3>3. job'.pc = "put" /\ job'.i = job.i
      BY <2>1, <2>2 DEF Phases
    <3>4. op'.pc # "idle" => op' \in PutOp
      BY <1>4, <3>2
    <3>5. QED
      BY <1>1, <3>1, <3>2, <3>3, <3>4 DEF SeedSafe
  <2>3. CASE /\ UNCHANGED op
             /\ \/ \E c : job' = EndJob(c)
                \/ job' = SeedFrom(job.i + 1, job.freeze)
    BY <1>5, <2>3 DEF EndJob, SeedFrom
  <2>4. QED
    BY <1>7, <2>2, <2>3 DEF SeedTurn
<1>8. CASE SeedPut
  <2>1. job \in Phases
    BY <1>8, Facts, JobKinds DEF SeedPut
  <2>2. CASE op.code # 0 /\ Evict([job EXCEPT !.pc = "evict"], SeedFrom(job.i + 1, job.freeze))
    <3>1. PICK a : a = [job EXCEPT !.pc = "evict"]
      OBVIOUS
    <3>2. a.pc = "evict" /\ a.i = job.i
      BY <2>1, <3>1 DEF Phases
    <3>3. PICK b : b = SeedFrom(job.i + 1, job.freeze)
      OBVIOUS
    <3>4. b.pc = "seed" /\ b.tries = 0
      BY <3>3 DEF SeedFrom
    <3>5. \/ job' = b /\ UNCHANGED op
          \/ /\ job' = a
             /\ op'.pc # "idle" => op'.pc = "unmap" /\ op'.name \in ToSetOf(Legacy)
      BY <2>2, <3>1, <3>3, EvictLegacy
    <3>6. ~Exists(Catalog[job.i])
      BY <1>2, <1>8, <2>2 DEF SeedSafe, SeedPut
    <3>7. CASE job' = b /\ UNCHANGED op
      BY <1>5, <3>4, <3>7
    <3>8. CASE job' = a /\ (op'.pc # "idle" => op'.pc = "unmap" /\ op'.name \in ToSetOf(Legacy))
      BY <1>1, <1>4, <3>2, <3>6, <3>8 DEF SeedSafe
    <3>9. QED
      BY <3>5, <3>7, <3>8
  <2>3. QED
    BY <1>5, <1>8, <2>2 DEF SeedPut, SeedFrom
<1>9. CASE SeedEvicted
  <2>1. job \in Phases
    BY <1>9, Facts, JobKinds DEF SeedEvicted
  <2>2. CASE job' = [job EXCEPT !.pc = "seed"] /\ UNCHANGED op
    <3>1. job'.pc = "seed" /\ job'.i = job.i
      BY <2>1, <2>2 DEF Phases
    <3>2. ~Exists(Catalog[job.i])
      BY <1>9 DEF SeedSafe, SeedEvicted
    <3>3. QED
      BY <1>1, <1>2, <2>2, <3>1, <3>2 DEF SeedSafe
  <2>3. QED
    BY <1>5, <1>9, <2>2 DEF SeedEvicted, SeedFrom
<1>10. QED
  BY <1>6, <1>7, <1>8, <1>9

\* What a step around a catalog routine may not do.
Spares == \A n \in Names \ ToSetOf(Legacy) : Content(n) # Absent => Content(n)' = Content(n)

LEMMA PutOutside ==
    ASSUME op \in PutOp
    PROVE  op \notin DelOp /\ op.pc # "idle"
  BY DEF PutOp, DelOp

\* The steps of rs_put_file within rs_seed_catalog.
LEMMA PutSeeds ==
    ASSUME SafeInv, SafeInv', SeedSafe, Careful, job.pc # "none",
           PutData \/ PutMap \/ PutDir \/ PutUndo \/ PutRelease
    PROVE  SeedSafe' /\ Spares
<1>1. op \in PutOp /\ UNCHANGED job
  BY Facts, OpKinds DEF PutData, PutMap, PutDir, PutUndo, PutRelease
<1>2. job.pc = "put"
  BY <1>1, Facts, PutOutside DEF SeedSafe
<1>3. /\ op.fresh /\ op.release = {} /\ op.pc # "release"
      /\ op.name = Catalog[job.i] /\ ~Exists(Catalog[job.i])
  BY <1>1, <1>2, PutOutside DEF SeedSafe
<1>4. ASSUME UNCHANGED boot, UNCHANGED dir,
             \/ \E c \in {-12, -9, -10} : op' = Done("put", c)
             \/ \E p \in {"data", "map", "dir", "undo"}, j \in Nat :
                    op' = [op EXCEPT !.i = j, !.pc = p]
      PROVE  SeedSafe'
  <2>1. \A n : Exists(n)' <=> Exists(n)
    BY <1>4, SameExists
  <2>2. ASSUME NEW c \in {-12, -9, -10}, op' = Done("put", c) PROVE SeedSafe'
    <3>1. op'.pc = "idle" /\ op'.code # 0
      BY <2>2 DEF Done
    <3>2. QED
      BY <1>1, <1>2, <1>3, <2>1, <3>1 DEF SeedSafe
  <2>3. ASSUME NEW p \in {"data", "map", "dir", "undo"}, NEW j \in Nat,
               op' = [op EXCEPT !.i = j, !.pc = p]
        PROVE  SeedSafe'
    <3>1. /\ op' \in PutOp /\ op'.pc = p /\ op'.name = op.name /\ op'.fresh = op.fresh
          /\ op'.release = op.release
      BY <1>1, <2>3, PutMoves
    <3>2. QED
      BY <1>1, <1>2, <1>3, <2>1, <3>1 DEF SeedSafe
  <2>4. QED
    BY <1>4, <2>2, <2>3
<1>5. \A p : [op EXCEPT !.pc = p] = [op EXCEPT !.i = op.i, !.pc = p]
  BY <1>1 DEF PutOp
<1>6. op.i \in Nat /\ op.i + 1 \in Nat
  BY <1>1, PutTyped
<1>7. CASE PutData
  <2>1. Spares
    BY <1>3, <1>7, PutDataOthers DEF Spares
  <2>2. UNCHANGED boot /\ UNCHANGED dir
    BY <1>7 DEF PutData, Write, WriteData, Careful, disk
  <2>3. PICK p \in {"data", "map", "dir"} :
            p = IF op.i + 1 < Blocks[op.file] THEN "data"
                ELSE IF op.fresh THEN "map" ELSE "dir"
    OBVIOUS
  <2>4. \/ op' = Done("put", -12)
        \/ op' = [op EXCEPT !.i = op.i + 1, !.pc = p]
    BY <1>7, <2>3 DEF PutData, Write
  <2>5. QED
    BY <1>4, <1>6, <2>1, <2>2, <2>4
<1>8. CASE PutMap
  <2>1. UNCHANGED boot /\ UNCHANGED dir /\ UNCHANGED data
    BY <1>8 DEF PutMap, Write, WriteMap, Careful, disk
  <2>2. Spares
    BY <2>1, OthersKept DEF Spares
  <2>3. op' = Done("put", -9) \/ op' = [op EXCEPT !.pc = "dir"]
    BY <1>8 DEF PutMap, Write
  <2>4. op' = Done("put", -9) \/ op' = [op EXCEPT !.i = op.i, !.pc = "dir"]
    BY <1>5, <2>3
  <2>5. QED
    BY <1>4, <1>6, <2>1, <2>2, <2>4
<1>9. CASE PutUndo
  <2>1. UNCHANGED boot /\ UNCHANGED dir /\ UNCHANGED data
    BY <1>9 DEF PutUndo, Write, WriteMap, Careful, disk
  <2>2. Spares
    BY <2>1, OthersKept DEF Spares
  <2>3. op' = Done("put", -10)
    BY <1>9 DEF PutUndo, Write
  <2>4. QED
    BY <1>4, <2>1, <2>2, <2>3
<1>10. CASE PutDir
  <2>1. Content(op.name) = Absent
    BY <1>3, ContentIs DEF Exists
  <2>2. Spares
    BY <1>10, <2>1, PutDirOthers DEF Spares
  <2>3. \/ op' = Done("put", 0)
        \/ UNCHANGED boot /\ UNCHANGED dir /\ op' = [op EXCEPT !.pc = "undo"]
    BY <1>3, <1>10 DEF PutDir, Write, Careful, disk
  <2>4. CASE op' = Done("put", 0)
    <3>1. op'.pc = "idle" /\ op'.code = 0
      BY <2>4 DEF Done
    <3>2. SeedSafe'
      BY <1>1, <1>2, <3>1 DEF SeedSafe
    <3>3. QED
      BY <2>2, <3>2
  <2>5. CASE UNCHANGED boot /\ UNCHANGED dir /\ op' = [op EXCEPT !.pc = "undo"]
    <3>1. op' = [op EXCEPT !.i = op.i, !.pc = "undo"]
      BY <1>5, <2>5
    <3>2. QED
      BY <1>4, <1>6, <2>2, <2>5, <3>1
  <2>6. QED
    BY <2>3, <2>4, <2>5
<1>11. CASE PutRelease
  BY <1>3, <1>11 DEF PutRelease
<1>12. QED
  BY <1>7, <1>8, <1>9, <1>10, <1>11

\* The steps of rs_del_file within rs_evict_one_stale.
LEMMA DelSeeds ==
    ASSUME SafeInv, SafeInv', SeedSafe, Careful, job.pc # "none", DelMap \/ DelDir
    PROVE  SeedSafe' /\ Spares
<1>1. op \in DelOp /\ UNCHANGED job
  BY Facts, OpKinds DEF DelMap, DelDir
<1>2. op.pc # "idle" /\ op \notin PutOp /\ op.name \in Names
  BY <1>1, PutOutside, DelTyped
<1>3. job.pc \in {"evict", "prepare"} /\ op.name \in ToSetOf(Legacy)
      /\ (job.pc = "evict" => ~Exists(Catalog[job.i]))
  BY <1>1, <1>2, Facts DEF SeedSafe
<1>4. ~Fault
  BY <1>1, DelTyped DEF Fault, Careful
<1>5. CASE DelMap
  <2>1. UNCHANGED boot /\ UNCHANGED dir /\ UNCHANGED data /\ op' = [op EXCEPT !.pc = "clear"]
    BY <1>4, <1>5 DEF DelMap, Write, WriteMap
  <2>2. op' \in DelOp /\ op'.name = op.name
    BY <1>1, <2>1 DEF DelOp
  <2>3. Spares
    BY <2>1, OthersKept DEF Spares
  <2>4. \A n : Exists(n)' <=> Exists(n)
    BY <2>1, SameExists
  <2>5. SeedSafe'
    BY <1>1, <1>3, <2>2, <2>4 DEF SeedSafe
  <2>6. QED
    BY <2>3, <2>5
<1>6. CASE DelDir
  <2>1. Spares
    BY <1>3, <1>6, DelDirOthers DEF Spares
  <2>2. op'.pc = "idle"
    BY <1>6, DelDirIs DEF Done
  <2>3. PICK q \in Used(dir) : /\ dir[q].name = op.name /\ Used(dir') = Used(dir) \ {q}
                               /\ \A s \in Used(dir') : dir'[s] = dir[s]
    BY <1>6, DelDirIs
  <2>4. ASSUME NEW n, ~Exists(n) PROVE ~Exists(n)'
    <3>1. dir \in Directory /\ dir' \in Directory /\ UNCHANGED boot
      BY <1>6, DelDirIs
    <3>2. CASE ~boot
      BY <3>1, <3>2 DEF Exists
    <3>3. CASE boot
      <4>1. \A s \in Used(dir) : dir[s].name # n
        BY <2>4, <3>1, <3>3, FindSlotIs DEF Exists
      <4>2. FindSlot(dir', n) = 0
        BY <2>3, <3>1, <4>1, FindSlotIs
      <4>3. QED
        BY <4>2 DEF Exists
    <3>4. QED
      BY <3>2, <3>3
  <2>5. SeedSafe'
    BY <1>1, <1>3, <2>2, <2>4 DEF SeedSafe
  <2>6. QED
    BY <2>1, <2>5
<1>7. QED
  BY <1>5, <1>6

LEMMA NextSeeds ==
    ASSUME SafeInv, SafeInv', SeedSafe, Careful, NoProbe, [Next]_vars
    PROVE  SeedSafe' /\ (job.pc # "none" \/ job'.pc # "none" => Spares)
<1>1. UNCHANGED disk => Spares
  BY DiskKept DEF Spares
<1>2. job'.pc = "none" => SeedSafe'
  BY DEF SeedSafe
<1>3. CASE PutData \/ PutMap \/ PutDir \/ PutUndo \/ PutRelease
  <2>1. UNCHANGED job
    BY <1>3 DEF PutData, PutMap, PutDir, PutUndo, PutRelease
  <2>2. QED
    BY <1>2, <1>3, <2>1, PutSeeds
<1>4. CASE DelMap \/ DelDir
  <2>1. UNCHANGED job
    BY <1>4 DEF DelMap, DelDir
  <2>2. QED
    BY <1>2, <1>4, <2>1, DelSeeds
<1>5. CASE RenameDir \/ FmtBoot \/ FmtMap \/ FmtRoot \/ FmtData
  <2>1. UNCHANGED job /\ (op \in RenameOp \/ op \in FmtOp)
    BY <1>5, Facts, OpKinds DEF RenameDir, FmtBoot, FmtMap, FmtRoot, FmtData
  <2>2. op.pc # "idle" /\ op \notin PutOp /\ op \notin DelOp
    BY <2>1 DEF RenameOp, FmtOp, PutOp, DelOp
  <2>3. job.pc = "none"
    BY <2>2, Facts DEF SeedSafe
  <2>4. QED
    BY <1>2, <2>1, <2>3
<1>6. CASE PrepareTurn \/ SeedTurn \/ SeedPut \/ SeedEvicted
  <2>1. UNCHANGED disk
    BY <1>6 DEF PrepareTurn, SeedTurn, SeedPut, SeedEvicted
  <2>2. QED
    BY <1>1, <1>6, <2>1, TurnSeeds
<1>7. CASE Command
  <2>1. UNCHANGED disk /\ op.pc = "idle" /\ job.pc = "none"
    BY <1>7 DEF Command
  <2>2. CASE UNCHANGED job
    BY <1>1, <1>2, <2>1, <2>2
  <2>3. CASE /\ UNCHANGED op
             /\ \/ job' = SeedFrom(1, FALSE)
                \/ \E c : job' = EndJob(c)
                \/ job' = [pc |-> "prepare", tries |-> 0, evicted |-> FALSE]
    <3>1. op'.pc = "idle" /\ (job'.pc = "none" \/ job'.pc = "prepare"
                              \/ (job'.pc = "seed" /\ job'.tries = 0))
      BY <2>1, <2>3 DEF SeedFrom, EndJob
    <3>2. QED
      BY <1>1, <2>1, <3>1 DEF SeedSafe
  <2>4. QED
    BY <1>7, <2>2, <2>3 DEF Command
<1>8. CASE Restart
  <2>1. UNCHANGED disk /\ job'.pc = "none"
    BY <1>8 DEF Restart, NoProbe, NoJob, disk
  <2>2. QED
    BY <1>1, <1>2, <2>1
<1>9. CASE UNCHANGED vars
  <2>1. UNCHANGED disk /\ UNCHANGED op /\ UNCHANGED job
    BY <1>9 DEF vars, disk
  <2>2. SeedSafe'
    BY <2>1, DiskExists DEF SeedSafe
  <2>3. QED
    BY <1>1, <2>1, <2>2
<1>10. QED
  BY <1>3, <1>4, <1>5, <1>6, <1>7, <1>8, <1>9 DEF Next, Step

\* rs_seed_catalog and rs_prepare_freeze_catalog remove and change no file but
\* the demos that rs_evict_one_stale names.
THEOREM CatalogSparesFiles == ASSUME Careful, NoProbe PROVE Spec => UnknownFilesPreserved
<1>1. Init => SeedSafe
  BY DEF Init, NoJob, SeedSafe
<1>2. SafeInv /\ SafeInv' /\ SeedSafe /\ [Next]_vars => SeedSafe'
  BY NextSeeds
<1>3. SafeInv /\ SafeInv' /\ SeedSafe /\ [Next]_vars =>
        [job.pc # "none" \/ job'.pc # "none" =>
           \A n \in Names \ ToSetOf(Legacy) :
              Content(n) # Absent => Content(n)' = Content(n)]_vars
  BY NextSeeds DEF Spares
<1>4. QED
  BY <1>1, <1>2, <1>3, VolumeSafe, PTL DEF Spec, UnknownFilesPreserved
=============================================================================
