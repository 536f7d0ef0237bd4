----------------------------- MODULE SourceStore -----------------------------
(***************************************************************************)
(* The native ZealC source partition of src/zc_source_store.h, sector by   *)
(* sector.  Two banks each hold a superblock in sector 0 and an            *)
(* append-only log of records from sector 1: a header sector followed by   *)
(* its data sectors, or a header-only tombstone.  The log ends at the      *)
(* first all-zero sector.  The valid bank with the higher generation is    *)
(* the active one.                                                         *)
(*                                                                         *)
(* Every sector write and every flush of an operation is a step of its     *)
(* own, so that a failed request, a restart of the guest or a loss of      *)
(* power can fall between any two of them.  A scan of the log only reads,  *)
(* and the shell runs one operation at a time, so a scan is part of the    *)
(* step it precedes.                                                       *)
(*                                                                         *)
(* Abstractions.  A checksum agrees exactly when the contents agree.  A    *)
(* sector write is atomic.  A device without FLUSH promises nothing about  *)
(* power loss (COMPATIBILITY.md), so PowerLoss is about devices with it.   *)
(***************************************************************************)
EXTENDS Integers, FiniteSets, FiniteSetsExt

CONSTANTS
    Names,             \* path names that zss_name_ok accepts
    Files,             \* file contents
    Blocks,            \* Blocks[f]: data sectors of f, the last may be partial
    FullBlocks,        \* FullBlocks[f]: its completely filled data sectors
    Sectors,           \* Sectors[b]: size of bank b (g_zss_sectors)
    MaxGen,            \* the largest generation (UINT32_MAX in the code)
    FlushSupport,      \* the values of g_vb.flush_supported considered
    FailedWriteLands,  \* may a write that is reported failed be on the disk?
    SuperReadFaults,   \* may reading a superblock fail?
    MaxFaults,         \* bound on the number of I/O errors in a behaviour
    Commands,          \* the operations that the shell invokes
    Absent, Deleted, Bad, Unknown

Bank == {"A", "B"}
Other(b) == IF b = "A" THEN "B" ELSE "A"

ASSUME ConstantsAssumption ==
    /\ Blocks \in [Files -> Nat \ {0}]
    /\ FullBlocks \in [Files -> Nat]
    /\ \A f \in Files : FullBlocks[f] \in {Blocks[f] - 1, Blocks[f]}
    /\ Sectors \in [Bank -> Nat \ {0, 1}]
    /\ MaxGen \in Nat
    /\ FlushSupport \subseteq BOOLEAN
    /\ FailedWriteLands \subseteq BOOLEAN
    /\ SuperReadFaults \in BOOLEAN
    /\ MaxFaults \in Nat
    /\ Commands \subseteq {"put", "stream", "del", "list", "compact"}

ASSUME ContentAssumption ==
    /\ Cardinality({Absent, Deleted, Bad, Unknown}) = 4
    /\ {Absent, Deleted, Bad, Unknown} \intersect Files = {}

VARIABLES
    now,              \* now[b][s]: what a read of sector s of bank b returns
    media,            \* media[b][s]: the values a power loss may leave there
    flush_supported,  \* the device offers VIRTIO_BLK_F_FLUSH
    base,             \* g_zss_base
    gen,              \* g_zss_generation
    catalog,          \* g_zss_catalog with g_zss_catalog_valid
    op,               \* the operation in progress: where it is, its locals
    faults,           \* I/O errors so far
    acked,            \* history: the last acknowledged content of each name
    vol,              \* history: View(now), what the partition holds
    synced            \* history: what it held at the last successful flush

disk == <<now, media, vol, synced>>
ram == <<base, gen, catalog>>
vars == <<now, media, flush_supported, base, gen, catalog, op, faults, acked,
          vol, synced>>

-----------------------------------------------------------------------------
(* Sector contents.                                                        *)

Zero == [t |-> "zero"]
Super(g) == [t |-> "super", gen |-> g]
FileHeader(n, f) == [t |-> "file", name |-> n, file |-> f]
Tombstone(n) == [t |-> "del", name |-> n]
Data(f, i) == [t |-> "data", file |-> f, i |-> i]
Corrupt == [t |-> "corrupt"]      \* bytes of a damaged upload

Sector(b) == 0 .. Sectors[b] - 1
Address == UNION {{b} \X Sector(b) : b \in Bank}

SectorValue ==
    {Zero, Corrupt}
    \union [t : {"super"}, gen : 0 .. MaxGen]
    \union [t : {"file"}, name : Names, file : Files]
    \union [t : {"del"}, name : Names]
    \union [t : {"data"}, file : Files, i : Nat]

-----------------------------------------------------------------------------
(* Reading a bank.  img is what its sectors hold.                          *)

\* zss_decode_record: the data sectors of a record, if it is one.
IsRecord(img, b, p) ==
    \/ img[p].t = "del"
    \/ img[p].t = "file" /\ p + 1 + Blocks[img[p].file] <= Sectors[b]

RecordBlocks(v) == IF v.t = "file" THEN Blocks[v.file] ELSE 0

\* The scan loop of zss_find, and of the catalog: the positions of the
\* records and the first free sector; tail 0 stands for a damaged log.
Scan(img, b) ==
    LET from[p \in 1 .. Sectors[b]] ==
          IF p = Sectors[b] THEN [tail |-> p, heads |-> {}]
          ELSE IF img[p] = Zero THEN [tail |-> p, heads |-> {}]
          ELSE IF ~IsRecord(img, b, p) THEN [tail |-> 0, heads |-> {}]
          ELSE LET rest == from[p + 1 + RecordBlocks(img[p])]
               IN  [rest EXCEPT !.heads = @ \union {p}]
    IN  from[1]

\* Of the records at heads, the sector of the latest of n, 0 if there is none.
LatestOf(img, heads, n) ==
    LET H == {p \in heads : img[p].name = n}
    IN  IF H = {} THEN 0 ELSE Max(H)

LatestHeader(img, b, n) == LatestOf(img, Scan(img, b).heads, n)

\* zss_verify and zss_read: the data of the record at p has its checksum.
Verify(img, p) ==
    \A i \in 0 .. Blocks[img[p].file] - 1 :
        img[p + 1 + i] = Data(img[p].file, i)

\* What the header of the latest record of n says: zss_find.
Stored(img, heads, n) ==
    LET p == LatestOf(img, heads, n) IN
    IF p = 0 THEN Absent
    ELSE IF img[p].t = "del" THEN Deleted ELSE img[p].file

CatalogOf(img, b) ==
    LET heads == Scan(img, b).heads IN [n \in Names |-> Stored(img, heads, n)]

\* What zss_read then yields.
Content(img, heads, n) ==
    LET p == LatestOf(img, heads, n) IN
    IF p # 0 /\ img[p].t = "file" /\ ~Verify(img, p) THEN Bad
    ELSE Stored(img, heads, n)

\* zss_available, given the banks whose superblock could be read and is valid.
SelectBank(img, S) ==
    IF "B" \in S /\ ("A" \notin S \/ img["B"][0].gen > img["A"][0].gen)
    THEN "B" ELSE "A"

ValidBanks(img) == {b \in Bank : img[b][0].t = "super"}

Selected(img) == SelectBank(img, ValidBanks(img))

\* What the partition holds, for a guest that starts on the contents img.
View(img) ==
    LET b == Selected(img)
        log == Scan(img[b], b)
    IN  IF ValidBanks(img) = {} \/ log.tail = 0 THEN [n \in Names |-> Bad]
        ELSE [n \in Names |-> Content(img[b], log.heads, n)]

\* The contents that a power loss may leave.
PowerLossImages ==
    LET unsettled == {x \in Address : media[x[1]][x[2]] # {now[x[1]][x[2]]}}
        cached == UNION {media[x[1]][x[2]] : x \in unsettled}
        choices == {h \in [unsettled -> cached] :
                      \A x \in unsettled : h[x] \in media[x[1]][x[2]]}
    IN  {[b \in Bank |-> [s \in Sector(b) |->
            IF <<b, s>> \in unsettled THEN h[<<b, s>>] ELSE now[b][s]]] :
         h \in choices}

PossibleViews == {View(img) : img \in PowerLossImages}

-----------------------------------------------------------------------------
(* The device, as src/virtio_blk.h offers it.                              *)

Fault == faults < MaxFaults /\ faults' = faults + 1

\* virtio_blk_write_abs: without FLUSH a completed write is on the medium.
Land(b, s, v) ==
    /\ now' = [now EXCEPT ![b][s] = v]
    /\ media' = [media EXCEPT ![b][s] =
                   IF flush_supported THEN @ \union {v} ELSE {v}]
    /\ vol' = View(now')
    /\ synced' = IF flush_supported THEN synced ELSE vol'

\* The operation is over and returned code.
Done(code) == [pc |-> "idle", kind |-> op.kind, code |-> code]

\* A write: it completes and the operation goes on at next, or it fails.
Write(b, s, v, next) ==
    \/ Land(b, s, v) /\ op' = next /\ UNCHANGED faults
    \/ /\ Fault
       /\ op' = Done(-1)
       /\ \E lands \in FailedWriteLands :
            IF lands THEN Land(b, s, v) ELSE UNCHANGED disk

\* A flush: everything written is on the medium, or it fails.
Flush(next, code) ==
    \/ /\ media' = [b \in Bank |-> [s \in Sector(b) |-> {now[b][s]}]]
       /\ synced' = vol
       /\ op' = next
       /\ UNCHANGED <<now, vol, faults>>
    \/ Fault /\ op' = Done(code) /\ UNCHANGED disk

\* A flush that is skipped on a device without FLUSH.
FlushIfSupported(next, code) ==
    IF flush_supported THEN Flush(next, code)
    ELSE op' = next /\ UNCHANGED <<disk, faults>>

-----------------------------------------------------------------------------
(* Selecting the bank and scanning its log.                                *)

\* zss_available sets the globals.  S: the banks found to be valid; one whose
\* superblock cannot be read counts as absent.
Probe(S) ==
    /\ \/ S = ValidBanks(now) /\ UNCHANGED faults
       \/ /\ SuperReadFaults /\ Fault
          /\ \E b \in ValidBanks(now) : S = ValidBanks(now) \ {b}
    /\ IF S = {} THEN UNCHANGED <<base, gen>>
       ELSE /\ base' = SelectBank(now, S)
            /\ gen' = now[SelectBank(now, S)][0].gen

\* zss_find: t is the tail, or 0 for a log that is damaged or has a sector
\* that cannot be read.  The scan does not go beyond the end of the bank.
Find(S, t) ==
    /\ \/ /\ Probe(S)
          /\ t = IF S = {} THEN 0 ELSE Scan(now[base'], base').tail
       \/ /\ S = ValidBanks(now) /\ S # {} /\ t = 0
          /\ Fault
          /\ base' = Selected(now) /\ gen' = now[Selected(now)][0].gen
    /\ t <= Sectors[base']

FindTail == UNION {0 .. Sectors[b] : b \in Bank}

Fail(kind, code) == [pc |-> "idle", kind |-> kind, code |-> code]

-----------------------------------------------------------------------------
(* zss_put, zss_delete and the three zss_stream calls append one record.    *)
(* x is the content it gives to name n, Deleted for a tombstone.            *)

ContentBlocks(x) == IF x = Deleted THEN 0 ELSE Blocks[x]

Header(n, x) == IF x = Deleted THEN Tombstone(n) ELSE FileHeader(n, x)

\* Up to the first write: select the bank, scan its log, refuse or go on.
BeginAppend(kind, pc, n, x) ==
    /\ op.pc = "idle" /\ kind \in Commands
    /\ \E S \in SUBSET Bank, t \in FindTail :
         /\ Find(S, t)
         /\ LET missing == /\ kind = "del"
                           /\ CatalogOf(now[base'], base')[n] \in {Absent, Deleted}
            IN  op' = IF S = {} THEN Fail(kind, -2)
                      ELSE IF t = 0 THEN Fail(kind, -1)
                      ELSE IF missing THEN Fail(kind, -4)
                      ELSE IF t + 1 + ContentBlocks(x) > Sectors[base']
                           THEN Fail(kind, -3)
                      ELSE [pc |-> pc, kind |-> kind, name |-> n, x |-> x,
                            tail |-> t, i |-> 0, intact |-> TRUE]
    /\ UNCHANGED <<disk, flush_supported, catalog, acked>>

Put(n, f) == BeginAppend("put", "data", n, f)
StreamBegin(n, f) == BeginAppend("stream", "recv", n, f)
Delete(n) == BeginAppend("del", "term", n, Deleted)

\* Mutant: the block index starts one too low.
PutBlockOffByOne ==
    /\ op.pc = "data"
    /\ Write(base, op.tail + 1 + op.i, Data(op.x, op.i - 1),
             [op EXCEPT !.i = @ + 1,
                        !.pc = IF op.i + 1 = ContentBlocks(op.x)
                               THEN "term" ELSE "data"])
    /\ UNCHANGED <<flush_supported, ram, acked>>

\* zss_put writes the next data sector.
PutBlock ==
    /\ op.pc = "data"
    /\ Write(base, op.tail + 1 + op.i, Data(op.x, op.i),
             [op EXCEPT !.i = @ + 1,
                        !.pc = IF op.i + 1 = ContentBlocks(op.x)
                               THEN "term" ELSE "data"])
    /\ UNCHANGED <<flush_supported, ram, acked>>

\* zss_stream_write fills a data sector, with what the serial line delivered.
StreamWrite ==
    /\ op.pc = "recv"
    /\ op.i < FullBlocks[op.x]
    /\ \E good \in BOOLEAN :
         Write(base, op.tail + 1 + op.i,
               IF good THEN Data(op.x, op.i) ELSE Corrupt,
               [op EXCEPT !.i = @ + 1, !.intact = @ /\ good])
    /\ UNCHANGED <<flush_supported, ram, acked>>

\* zrecv_serial gives up: a timeout or a malformed line.
StreamAbandon ==
    /\ op.pc = "recv"
    /\ op' = Done(-1)
    /\ UNCHANGED <<disk, flush_supported, ram, faults, acked>>

\* zss_stream_finish compares length and checksum, then writes a last partial
\* sector.  The bytes of that sector can be damaged too.
StreamFinish ==
    /\ op.pc = "recv"
    /\ op.i = FullBlocks[op.x]
    /\ LET partial == op.i < ContentBlocks(op.x)
           next == [op EXCEPT !.pc = "term", !.i = ContentBlocks(op.x)]
       IN  \/ /\ ~op.intact \/ partial
              /\ op' = Done(-4)
              /\ UNCHANGED <<disk, faults>>
           \/ op.intact /\ partial /\ Write(base, op.tail + 1 + op.i,
                                            Data(op.x, op.i), next)
           \/ /\ op.intact /\ ~partial
              /\ op' = next
              /\ UNCHANGED <<disk, faults>>
    /\ UNCHANGED <<flush_supported, ram, acked>>

\* Mutant: the log is not terminated behind the record.
NoTerminator ==
    /\ op.pc = "term"
    /\ op' = [op EXCEPT !.pc = "order"]
    /\ UNCHANGED <<disk, flush_supported, ram, faults, acked>>

\* zss_terminate_log: an empty sector after the record, if there is room.
TerminateLog ==
    /\ op.pc = "term"
    /\ LET end == op.tail + 1 + ContentBlocks(op.x)
           next == [op EXCEPT !.pc = "order"]
       IN  IF end < Sectors[base] THEN Write(base, end, Zero, next)
           ELSE op' = next /\ UNCHANGED <<disk, faults>>
    /\ UNCHANGED <<flush_supported, ram, acked>>

\* Mutant: the header follows its data without a flush between them.
NoOrderFlush ==
    /\ op.pc = "order"
    /\ op' = [op EXCEPT !.pc = "header"]
    /\ UNCHANGED <<disk, flush_supported, ram, faults, acked>>

\* The flush that orders the data before the header.
OrderFlush ==
    /\ op.pc = "order"
    /\ FlushIfSupported([op EXCEPT !.pc = "header"], -1)
    /\ UNCHANGED <<flush_supported, ram, acked>>

NoCatalog == [valid |-> FALSE, latest |-> [n \in Names |-> Absent]]

\* Mutant: the catalog is not dropped.
WriteHeaderKeepsCatalog ==
    /\ op.pc = "header"
    /\ Write(base, op.tail, Header(op.name, op.x), [op EXCEPT !.pc = "commit"])
    /\ acked' = IF now' = now THEN acked ELSE [acked EXCEPT ![op.name] = Unknown]
    /\ UNCHANGED <<flush_supported, ram>>

\* The header makes the record visible; only then is the catalog dropped.
WriteHeader ==
    /\ op.pc = "header"
    /\ Write(base, op.tail, Header(op.name, op.x), [op EXCEPT !.pc = "commit"])
    /\ catalog' = IF op'.pc = "commit" THEN NoCatalog ELSE catalog
    /\ acked' = IF now' = now THEN acked ELSE [acked EXCEPT ![op.name] = Unknown]
    /\ UNCHANGED <<flush_supported, base, gen>>

\* Mutant: the result of the last flush is ignored.
CommitIgnoresFlush ==
    /\ op.pc = "commit"
    /\ FlushIfSupported(Done(0), 0)
    /\ acked' = IF op'.code = 0 THEN [acked EXCEPT ![op.name] = op.x] ELSE acked
    /\ UNCHANGED <<flush_supported, base, gen, catalog>>

\* The last flush: 0 when it succeeds, -5 when durability is not known.
CommitFlush ==
    /\ op.pc = "commit"
    /\ FlushIfSupported(Done(0), -5)
    /\ acked' = IF op'.code = 0 THEN [acked EXCEPT ![op.name] = op.x] ELSE acked
    /\ UNCHANGED <<flush_supported, base, gen, catalog>>

-----------------------------------------------------------------------------
(* zss_entry_at: the catalog is built from the log when it is not valid.    *)

EntryAt ==
    /\ op.pc = "idle" /\ "list" \in Commands
    /\ \E S \in SUBSET Bank, t \in FindTail :
         /\ Find(S, t)
         /\ catalog' = IF ~catalog.valid /\ S # {} /\ t # 0
                       THEN [valid |-> TRUE, latest |-> CatalogOf(now[base'], base')]
                       ELSE catalog
    /\ UNCHANGED <<disk, flush_supported, op, acked>>

-----------------------------------------------------------------------------
(* zss_compact copies the latest records to the other bank.                 *)

Compact ==
    /\ op.pc = "idle" /\ "compact" \in Commands
    /\ \E S \in SUBSET Bank, t \in FindTail :
         /\ Find(S, t)
         /\ op' = IF S = {} \/ t = 0 THEN Fail("compact", -2)
                  ELSE IF gen' = MaxGen \/ ~flush_supported
                       THEN Fail("compact", -4)
                  ELSE [pc |-> "gcflush", kind |-> "compact",
                        target |-> Other(base'), tail |-> t,
                        pos |-> 1, need |-> 1, next |-> 1, i |-> 0]
    /\ UNCHANGED <<disk, flush_supported, catalog, acked>>

GcFlush ==
    /\ op.pc = "gcflush"
    /\ Flush([op EXCEPT !.pc = "check"], -1)
    /\ UNCHANGED <<flush_supported, ram, acked>>

\* The record of this turn, read before zss_find selects the bank anew.
CurrentRecord == now[base][op.pos]

\* Mutants: tombstones are left behind; every record is kept.
IsLatestFile ==
    LET p == LatestHeader(now[base'], base', CurrentRecord.name)
    IN  p = op.pos /\ now[base'][p].t = "file"
KeepEverything == TRUE

\* Is it the record that zss_find finds for its name?
IsLatest ==
    LET p == LatestHeader(now[base'], base', CurrentRecord.name)
    IN  p = op.pos /\ now[base'][p].t = CurrentRecord.t

\* One turn of a loop over the log: read a record, look its name up again;
\* kept is the next state of the loop when the record is to be kept.
GcTurn(pc, kept) ==
    /\ op.pc = pc
    /\ op.pos < op.tail
    /\ \E S \in SUBSET Bank, t \in FindTail :
         /\ Find(S, t)
         /\ op' = IF \/ S = {} \/ t = 0
                     \/ ~IsRecord(now[base], base, op.pos)
                     \/ LatestHeader(now[base'], base', CurrentRecord.name) = 0
                  THEN Done(-1)
                  ELSE IF IsLatest THEN kept
                  ELSE [op EXCEPT !.pos = @ + 1 + RecordBlocks(CurrentRecord)]
    /\ UNCHANGED <<disk, flush_supported, catalog, acked>>

\* The first loop: checksums, and room in the other bank.
GcCheck ==
    GcTurn("check",
        LET size == 1 + RecordBlocks(CurrentRecord) IN
        IF CurrentRecord.t = "file" /\ ~Verify(now[base'], op.pos) THEN Done(-1)
        ELSE IF op.need + size > Sectors[op.target] THEN Done(-3)
        ELSE [op EXCEPT !.pos = @ + size, !.need = @ + size])

GcChecked ==
    /\ op.pc = "check"
    /\ op.pos >= op.tail
    /\ op' = [op EXCEPT !.pc = "copy", !.pos = 1]
    /\ UNCHANGED <<disk, flush_supported, ram, faults, acked>>

\* The second loop: a record to be kept is copied sector by sector.
GcCopy == GcTurn("copy", [op EXCEPT !.pc = "copysector", !.i = 0])

\* Read, write, read back and compare one sector.
GcCopySector ==
    /\ op.pc = "copysector"
    /\ LET blocks == RecordBlocks(CurrentRecord) IN
       Write(op.target, op.next + op.i, now[base][op.pos + op.i],
             IF op.i < blocks THEN [op EXCEPT !.i = @ + 1]
             ELSE [op EXCEPT !.pc = "copy", !.i = 0,
                             !.pos = @ + 1 + blocks, !.next = @ + 1 + blocks])
    /\ UNCHANGED <<flush_supported, ram, acked>>

GcCopied ==
    /\ op.pc = "copy"
    /\ op.pos >= op.tail
    /\ op' = IF op.next # op.need THEN Done(-1) ELSE [op EXCEPT !.pc = "gcterm"]
    /\ UNCHANGED <<disk, flush_supported, ram, faults, acked>>

GcTerm ==
    /\ op.pc = "gcterm"
    /\ LET next == [op EXCEPT !.pc = "gcorder"] IN
       IF op.next < Sectors[op.target] THEN Write(op.target, op.next, Zero, next)
       ELSE op' = next /\ UNCHANGED <<disk, faults>>
    /\ UNCHANGED <<flush_supported, ram, acked>>

\* Mutant: the superblock follows the copy without a flush between them.
NoGcOrderFlush ==
    /\ op.pc = "gcorder"
    /\ op' = [op EXCEPT !.pc = "super"]
    /\ UNCHANGED <<disk, flush_supported, ram, faults, acked>>

GcOrderFlush ==
    /\ op.pc = "gcorder"
    /\ Flush([op EXCEPT !.pc = "super"], -1)
    /\ UNCHANGED <<flush_supported, ram, acked>>

\* Mutant: the generation is not incremented.
GcSuperSameGeneration ==
    /\ op.pc = "super"
    /\ Write(op.target, 0, Super(gen), [op EXCEPT !.pc = "gccommit"])
    /\ UNCHANGED <<flush_supported, ram, acked>>

\* The superblock of the next generation makes the copy the active bank.  A
\* generation that wraps to 0 is one that zss_probe_bank rejects.
GcSuper ==
    /\ op.pc = "super"
    /\ Write(op.target, 0, IF gen = MaxGen THEN Corrupt ELSE Super(gen + 1),
             [op EXCEPT !.pc = "gccommit"])
    /\ UNCHANGED <<flush_supported, ram, acked>>

GcCommitFlush ==
    /\ op.pc = "gccommit"
    /\ Flush([op EXCEPT !.pc = "reselect"], -5)
    /\ UNCHANGED <<flush_supported, ram, acked>>

GcReselect ==
    /\ op.pc = "reselect"
    /\ \E S \in SUBSET Bank :
         /\ Probe(S)
         /\ op' = Done(IF S = {} \/ base' # op.target THEN -1 ELSE 0)
    /\ UNCHANGED <<disk, flush_supported, catalog, acked>>

-----------------------------------------------------------------------------
(* Restarts.                                                               *)

Idle == [pc |-> "idle", kind |-> "none", code |-> 0]

\* The globals have their initial values again.
Reset ==
    /\ base' = "A"
    /\ gen' = 0
    /\ catalog' = NoCatalog
    /\ op' = Idle

\* The guest restarts; the device keeps its cache.
GuestRestart ==
    /\ Reset
    /\ UNCHANGED <<disk, flush_supported, faults, acked>>

\* The host loses power with writes in the device's cache.
PowerLoss ==
    /\ flush_supported
    /\ now' \in PowerLossImages
    /\ media' = [b \in Bank |-> [s \in Sector(b) |-> {now'[b][s]}]]
    /\ vol' = View(now')
    /\ synced' = vol'
    /\ Reset
    /\ UNCHANGED <<flush_supported, faults, acked>>

-----------------------------------------------------------------------------
Init ==
    /\ now = [b \in Bank |-> [s \in Sector(b) |->
                IF b = "A" /\ s = 0 THEN Super(0) ELSE Zero]]
    /\ media = [b \in Bank |-> [s \in Sector(b) |-> {now[b][s]}]]
    /\ flush_supported \in FlushSupport
    /\ base = "A"
    /\ gen = 0
    /\ catalog = NoCatalog
    /\ op = Idle
    /\ faults = 0
    /\ acked = [n \in Names |-> Absent]
    /\ vol = [n \in Names |-> Absent]
    /\ synced = vol

Step ==
    \/ PutBlock \/ StreamWrite \/ StreamAbandon \/ StreamFinish
    \/ TerminateLog \/ OrderFlush \/ WriteHeader \/ CommitFlush
    \/ GcFlush \/ GcCheck \/ GcChecked \/ GcCopy \/ GcCopySector \/ GcCopied
    \/ GcTerm \/ GcOrderFlush \/ GcSuper \/ GcCommitFlush \/ GcReselect

Next ==
    \/ \E n \in Names, f \in Files : Put(n, f) \/ StreamBegin(n, f)
    \/ \E n \in Names : Delete(n)
    \/ EntryAt
    \/ Compact
    \/ Step
    \/ GuestRestart
    \/ PowerLoss

Spec == Init /\ [][Next]_vars

-----------------------------------------------------------------------------
(* Properties.                                                             *)

Contents == Files \union {Absent, Deleted, Bad}

AppendPC == {"data", "recv", "term", "order", "header", "commit"}
CompactPC == {"gcflush", "check", "copy", "copysector", "gcterm", "gcorder",
              "super", "gccommit", "reselect"}
Kind == {"none", "put", "stream", "del", "compact"}
Operation ==
    [pc : {"idle"}, kind : Kind, code : Int]
    \union [pc : AppendPC, kind : Kind, name : Names,
            x : Files \union {Deleted}, tail : Nat, i : Nat, intact : BOOLEAN]
    \union [pc : CompactPC, kind : Kind, target : Bank, tail : Nat,
            pos : Nat, need : Nat, next : Nat, i : Nat]

\* The part of the type invariant that does not depend on what a scan yields.
StoreTypeOK ==
    /\ DOMAIN now = Bank /\ DOMAIN media = Bank
    /\ \A b \in Bank :
         /\ now[b] \in [Sector(b) -> SectorValue]
         /\ media[b] \in [Sector(b) -> SUBSET SectorValue]
    /\ flush_supported \in BOOLEAN
    /\ base \in Bank
    /\ gen \in 0 .. MaxGen
    /\ op \in Operation

\* Every variable has its type.
TypeOK ==
    /\ StoreTypeOK
    /\ catalog \in [valid : BOOLEAN, latest : [Names -> Contents]]
    /\ faults \in 0 .. MaxFaults
    /\ acked \in [Names -> Contents \union {Unknown}]
    /\ {vol, synced} \subseteq [Names -> Contents]

\* The order that OrderFlush is there for: when the header of a record is
\* about to be written, no power loss can take away any of its data sectors,
\* or the empty sector that ends the log behind it.
HeaderAfterData ==
    op.pc = "header" =>
        LET end == op.tail + 1 + ContentBlocks(op.x) IN
        /\ \A i \in 0 .. ContentBlocks(op.x) - 1 :
             media[base][op.tail + 1 + i] = {Data(op.x, i)}
        /\ end < Sectors[base] => media[base][end] = {Zero}

\* In every power-loss outcome the two banks have different generations, so
\* that zss_available never has to choose between two equal superblocks.
GenerationsDiffer ==
    \A a \in media["A"][0], b \in media["B"][0] :
        a.t = "super" /\ b.t = "super" => a.gen # b.gen

\* Whenever power is lost, in whatever order the device wrote its cache back,
\* the bank that zss_available then selects has a log that zss_find can scan
\* to its end, and every file it shows has the data its checksum was made of.
AlwaysReadable ==
    \A v \in PossibleViews : \A n \in Names : v[n] # Bad

\* What zss_put, zss_delete or zss_stream_finish acknowledged with 0 is what a
\* lookup yields, now and after a power loss, until the header of another
\* record of that name is written: through abandoned uploads, failed
\* operations, compactions and restarts.
AckedSurvives ==
    \A v \in PossibleViews : \A n \in Names :
        acked[n] # Unknown => v[n] = acked[n]

\* Once zss_compact has flushed, no step of it and no restart or power loss in
\* the middle of it changes what the partition holds.
CompactPreservesView ==
    [][op.kind = "compact" /\ op.pc \notin {"idle", "gcflush"} =>
         vol' = vol]_vars

\* After a successful zss_compact the log holds exactly one record of every
\* name that has a record at all: the rest of the space is free again.
CompactReclaims ==
    [][op.pc = "reselect" /\ op' = Done(0) =>
         LET heads == Scan(now[base'], base').heads
         IN  \A p, q \in heads : now[base'][p].name = now[base'][q].name => p = q]_vars

\* A catalog that zss_entry_at holds for valid lists the latest record of every
\* name, except one whose header is on the disk although its write failed.
CatalogFresh ==
    op.pc = "idle" /\ catalog.valid =>
        \A n \in Names : acked[n] # Unknown =>
            catalog.latest[n] = CatalogOf(now[Selected(now)], Selected(now))[n]

\* The partition is an atomic volume.
Volume == INSTANCE AtomicVolume WITH stable <- synced
ImplementsVolume == Volume!Spec

-----------------------------------------------------------------------------
(* A claim of the code that an I/O error at the wrong moment breaks.        *)

\* The comment in zss_compact: the bank being written cannot become active
\* before its superblock is committed.
PartialCopyNeverActive ==
    op.pc \in {"copy", "copysector", "gcterm", "gcorder"} => base # op.target
=============================================================================
