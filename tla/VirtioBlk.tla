------------------------------ MODULE VirtioBlk ------------------------------
(***************************************************************************)
(* The block driver of src/virtio_blk.h on the PCI transport, and the      *)
(* device as the driver uses it.                                           *)
(*                                                                         *)
(* The driver has one request header, one status byte, one data buffer and *)
(* one descriptor chain.  It publishes a request by advancing avail_idx,   *)
(* spins until the device's used index is equal to it, and gives up after  *)
(* a bounded number of turns.  A request that it gave up may still be      *)
(* executed: later than, or together with, the requests that follow it in  *)
(* the same header and buffer.                                             *)
(*                                                                         *)
(* The device executes the requests it has fetched in any order, each one  *)
(* atomically.  If it is late it takes its time to fetch a request,        *)
(* too.  Like QEMU's, it stops for good when the driver has published      *)
(* more than it can hold.  A sector holds one value; a write fills all its *)
(* sectors with the same one.                                              *)
(***************************************************************************)
EXTENDS Integers, FiniteSets

CONSTANTS
    FullCapacities,  \* the sizes of the disk considered, in sectors
    RsSects,         \* ZEAL_RS_SECTS: sectors of the RedSea window (128)
    ImageSects,      \* ZEAL_DISK_SECTS and ZEAL_OLD_DISK_SECTS: the known sizes
    RsLbaBase,       \* ZEAL_RS_LBA_BASE: where the window is on these
    GptSects,        \* ZEAL_GPT_BACKUP_SECTS (34)
    ProbeSector,     \* the sector of the window that is probed (15)
    Window,          \* sectors that fit into the data buffer
    QSize,           \* VB_QSIZE (8)
    IndexSpace,      \* ring indices are counted modulo this (2^16)
    RsValues,        \* what is written through the window
    AbsValues,       \* what is written at absolute sectors
    FlushOffered,    \* does the device offer VIRTIO_BLK_F_FLUSH?
    LateFetch,       \* the values of late considered
    MaxCalls,        \* bound on the number of calls in a behaviour
    Blank, Probe     \* an unwritten sector; what the probe writes

ASSUME DeviceAssumption ==
    /\ FullCapacities \subseteq Nat \ {0}
    /\ RsSects \in Nat \ {0} /\ GptSects \in Nat
    /\ RsLbaBase \in Nat
    /\ \A n \in ImageSects : n \in Nat /\ RsLbaBase + RsSects <= n
    /\ ProbeSector \in Nat
    /\ Window \in Nat \ {0}
    /\ QSize \in Nat \ {0}
    /\ IndexSpace \in Nat /\ IndexSpace > 2 * QSize + 1
    /\ MaxCalls \in Nat
    /\ FlushOffered \in BOOLEAN /\ LateFetch \subseteq BOOLEAN
    /\ AbsValues \intersect (RsValues \union {Probe}) = {}

VARIABLES
    full,       \* full_capacity
    late,       \* may the device fetch a request after its notification?
    mode,       \* "boot", "probing", "ready" (g_vb.ready), or "off"
    hdr,        \* the request header and its status byte
    data,       \* the data buffer
    desc,       \* length and direction of the data descriptor
    avail_idx, used_idx,
    seen_idx,   \* the device: requests fetched
    inflight,   \* the device: fetched and not executed
    broken,     \* the device: stopped for good
    disk,       \* the sectors
    unstable,   \* sectors written since the last flush
    call,       \* the driver: the call in progress
    calls       \* the calls made so far

setup == <<full, late>>
device == <<seen_idx, inflight, broken, disk, unstable, used_idx>>
ring == <<hdr, data, desc, avail_idx>>
vars == <<full, late, mode, hdr, data, desc, avail_idx, used_idx, seen_idx,
          inflight, broken, disk, unstable, call, calls>>

Sector == 0 .. full - 1
Value == RsValues \union AbsValues \union {Blank, Probe}

-----------------------------------------------------------------------------
(* The window that vb_init_pci gives to RedSea: a fixed one on the images   *)
(* of the known sizes, else before the backup of the partition table.       *)

Capacity == IF full > RsSects THEN RsSects ELSE full

LbaBase ==
    IF full <= RsSects THEN 0
    ELSE IF full \in ImageSects THEN RsLbaBase
    ELSE IF full > GptSects + RsSects THEN full - GptSects - RsSects + 1
    ELSE full - RsSects

RsWindow == LbaBase .. LbaBase + Capacity - 1

-----------------------------------------------------------------------------
(* The device.                                                             *)

Outstanding == (avail_idx + IndexSpace - used_idx) % IndexSpace
Unfetched == (avail_idx + IndexSpace - seen_idx) % IndexSpace

Advance(idx) == (idx + 1) % IndexSpace

\* The device tells the requests that it holds apart.
FreeId == CHOOSE k \in 0 .. QSize - 1 : \A r \in inflight : r.id # k

\* What the device makes of the chain that h and d describe; abs is history.
Chain(h, d) ==
    [id |-> FreeId, type |-> h.type, lba |-> h.lba, len |-> d.len, dir |-> d.dir,
     abs |-> call.kind # "none" /\ call.abs]

\* A request that the device can execute: the data descriptor has the
\* direction of the request, and the sectors exist.
Executable(r) ==
    \/ r.type = "flush"
    \/ r.type = r.dir /\ r.lba + r.len <= full

Sectors(r) == {s \in Sector : r.lba <= s /\ s < r.lba + r.len}

\* It is executed with success, or it fails; its status byte and the used
\* index tell the driver.
Execute(r) ==
    /\ ~broken
    /\ \/ /\ Executable(r)
          /\ disk' = IF r.type # "out" THEN disk
                     ELSE [s \in Sector |-> IF s \in Sectors(r)
                                            THEN data[s - r.lba] ELSE disk[s]]
          /\ data' = IF r.type # "in" THEN data
                     ELSE [i \in 0 .. Window - 1 |->
                             IF i < r.len THEN disk[r.lba + i] ELSE data[i]]
          /\ unstable' = CASE r.type = "out" -> unstable \union Sectors(r)
                           [] r.type = "flush" -> {}
                           [] OTHER -> unstable
          /\ hdr' = [hdr EXCEPT !.status = 0]
       \/ /\ hdr' = [hdr EXCEPT !.status = 1]
          /\ UNCHANGED <<disk, data, unstable>>
    /\ inflight' = inflight \ {r}
    /\ used_idx' = Advance(used_idx)
    /\ UNCHANGED <<setup, calls, mode, desc, avail_idx, seen_idx, broken, call>>

\* The next published request is fetched, as the chain describes it now.
Fetch ==
    /\ late /\ ~broken
    /\ Unfetched > 0 /\ Cardinality(inflight) < QSize
    /\ inflight' = inflight \union {Chain(hdr, desc)}
    /\ seen_idx' = Advance(seen_idx)
    /\ UNCHANGED <<setup, calls, mode, ring, broken, used_idx, disk, unstable, call>>

-----------------------------------------------------------------------------
(* virtio_blk_rw_sectors and virtio_blk_flush_abs.                         *)

Idle == [pc |-> "idle", kind |-> "none", code |-> 0]

\* A call: abs tells absolute sectors from the window; v is what it writes.
NewCall(kind, abs, sector, count, v) ==
    [pc |-> "stage", kind |-> kind, abs |-> abs, sector |-> sector,
     count |-> count, v |-> v, i |-> 0, clean |-> TRUE, got |-> {}, code |-> 0]

Returns(code) == call' = [call EXCEPT !.pc = "done", !.code = code]

\* The sectors of this request: virtio_blk_read and virtio_blk_write split a
\* call into requests that fit into the buffer; the absolute calls do not.
Batch ==
    LET rest == call.count - call.i
    IN  IF ~call.abs /\ rest > Window THEN Window ELSE rest

\* The early returns: out of the disk or the window, larger than the buffer.
Refused ==
    IF call.kind = "flush" THEN ~FlushOffered
    ELSE \/ call.sector + call.i + Batch > (IF call.abs THEN full ELSE Capacity)
         \/ Batch > Window

\* Mutant: the sectors of the window are taken for absolute ones.
HostLbaAbsolute == call.sector + call.i

HostLba == (IF call.abs THEN 0 ELSE LbaBase) + call.sector + call.i

Type == CASE call.kind = "read" -> "in" [] call.kind = "write" -> "out"
          [] OTHER -> "flush"

Refuse ==
    /\ call.pc = "stage" /\ Refused
    /\ Returns(0)
    /\ UNCHANGED <<setup, calls, mode, ring, device>>

\* The header, the status byte and the data to be written.
Stage ==
    /\ call.pc = "stage" /\ ~Refused
    /\ hdr' = [type |-> Type, lba |-> IF Type = "flush" THEN 0 ELSE HostLba,
               status |-> 255]
    /\ data' = IF Type = "out"
               THEN [j \in 0 .. Window - 1 |->
                       IF j < Batch THEN call.v ELSE data[j]]
               ELSE data
    /\ call' = [call EXCEPT !.pc = "publish", !.clean = @ /\ Outstanding = 0]
    /\ UNCHANGED <<setup, calls, mode, desc, avail_idx, device>>

\* The descriptors, the available index and the notification.
Publish ==
    /\ call.pc = "publish"
    /\ desc' = IF Type = "flush" THEN [desc EXCEPT !.dir = "none"]
               ELSE [len |-> Batch, dir |-> Type]
    /\ avail_idx' = Advance(avail_idx)
    /\ call' = [call EXCEPT !.pc = "poll"]
    /\ broken' = (broken \/ Unfetched = QSize \/ Cardinality(inflight) = QSize)
    /\ IF late \/ broken' THEN UNCHANGED <<seen_idx, inflight>>
       ELSE /\ inflight' = inflight \union {Chain(hdr, desc')}
            /\ seen_idx' = avail_idx'
    /\ UNCHANGED <<setup, calls, mode, hdr, data, used_idx, disk, unstable>>

\* The used index is the one waited for.
Answered == used_idx = avail_idx

\* Mutant: the status byte is not looked at.
StatusIgnored == TRUE

StatusOk == hdr.status = 0

\* Look at the status, take the data, go on with the next batch.
Completed ==
    /\ call.pc = "poll"
    /\ Answered
    /\ IF ~StatusOk THEN Returns(-2 - hdr.status)
       ELSE LET n == IF Type = "flush" THEN 0 ELSE Batch
                got == IF Type = "in"
                       THEN {<<HostLba + j, data[j]>> : j \in 0 .. n - 1} ELSE {}
                last == call.i + n >= call.count
            IN  call' = [call EXCEPT !.pc = IF last THEN "done" ELSE "stage",
                                     !.i = @ + n, !.got = @ \union got,
                                     !.code = IF last THEN 1 ELSE 0]
    /\ UNCHANGED <<setup, calls, mode, ring, device>>

\* Mutant: the driver waits for the answer without end.
NoTimeout == FALSE

\* 20000000 turns without it.
Timeout ==
    /\ call.pc = "poll"
    /\ ~Answered
    /\ Returns(-1)
    /\ UNCHANGED <<setup, calls, mode, ring, device>>

-----------------------------------------------------------------------------
(* virtio_blk_init, and the calls of the rest of the system.               *)

\* A write and a read of one sector prove the device before it is used.
ProbeCall(kind) == NewCall(kind, FALSE, ProbeSector, 1, Probe)

\* The call returns; while the device is probed, the next one follows.
Finish ==
    /\ call.pc = "done"
    /\ LET good == /\ call.code = 1
                   /\ call.kind = "read" => \A g \in call.got : g[2] = Probe
       IN  /\ mode' = IF mode # "probing" THEN mode
                      ELSE IF ~good THEN "off"
                      ELSE IF call.kind = "read" THEN "ready" ELSE "probing"
           /\ call' = IF mode' = "probing" THEN ProbeCall("read")
                      ELSE [Idle EXCEPT !.code = call.code]
    /\ UNCHANGED <<setup, calls, ring, device>>

\* A caller reads or writes some sectors, or flushes.
Call ==
    /\ call.pc = "idle" /\ mode = "ready"
    /\ calls < MaxCalls /\ calls' = calls + 1
    /\ \/ \E abs \in BOOLEAN, sector \in Sector, count \in 1 .. Window + 1 :
            \/ call' = NewCall("read", abs, sector, count, Blank)
            \/ \E v \in IF abs THEN AbsValues ELSE RsValues :
                 call' = NewCall("write", abs, sector, count, v)
       \/ call' = NewCall("flush", TRUE, 0, 0, Blank)
    /\ UNCHANGED <<setup, mode, ring, device>>

\* The guest restarts.
Restart ==
    /\ mode' = "boot"
    /\ call' = Idle
    /\ UNCHANGED <<setup, calls, ring, device>>

\* Memory and queue as vb_init_pci leaves them: it clears the memory that it
\* shares with the device and resets the device, which forgets what is under way.
NoHeader == [type |-> "in", lba |-> 0, status |-> 0]
NoData == [j \in 0 .. Window - 1 |-> Blank]
NoDescriptor == [len |-> 0, dir |-> "none"]

\* The probe follows.
Start ==
    /\ mode = "boot"
    /\ mode' = "probing"
    /\ call' = ProbeCall("write")
    /\ hdr' = NoHeader /\ data' = NoData /\ desc' = NoDescriptor
    /\ avail_idx' = 0 /\ used_idx' = 0 /\ seen_idx' = 0
    /\ inflight' = {} /\ broken' = FALSE
    /\ UNCHANGED <<setup, calls, disk, unstable>>

\* vb_init_pci finds no device that it can use.
StartFails ==
    /\ mode = "boot"
    /\ mode' = "off"
    /\ UNCHANGED <<setup, calls, call, ring, device>>

Init ==
    /\ full \in FullCapacities
    /\ late \in LateFetch
    /\ mode = "boot"
    /\ hdr = NoHeader /\ data = NoData /\ desc = NoDescriptor
    /\ avail_idx = 0 /\ used_idx = 0 /\ seen_idx = 0
    /\ inflight = {} /\ broken = FALSE
    /\ disk = [s \in Sector |-> Blank]
    /\ unstable = {}
    /\ call = Idle
    /\ calls = 0

Driver == Refuse \/ Stage \/ Publish \/ Completed \/ Timeout \/ Finish

Next ==
    \/ Driver \/ Call \/ Restart \/ Start \/ StartFails \/ Fetch
    \/ \E r \in inflight : Execute(r)

\* The driver runs; nothing is assumed of the device.
Spec == Init /\ [][Next]_vars /\ WF_vars(Driver)

-----------------------------------------------------------------------------
(* Properties.                                                             *)

Index == 0 .. IndexSpace - 1

\* Every variable has its type.
TypeOK ==
    /\ full \in FullCapacities /\ late \in BOOLEAN
    /\ mode \in {"boot", "probing", "ready", "off"}
    /\ hdr \in [type : {"in", "out", "flush"}, lba : Nat, status : {0, 1, 255}]
    /\ data \in [0 .. Window - 1 -> Value]
    /\ desc \in [len : 0 .. Window, dir : {"in", "out", "none"}]
    /\ avail_idx \in Index /\ used_idx \in Index /\ seen_idx \in Index
    /\ inflight \subseteq [id : 0 .. QSize - 1, type : {"in", "out", "flush"}, lba : Nat,
                           len : 0 .. Window, dir : {"in", "out", "none"},
                           abs : BOOLEAN]
    /\ broken \in BOOLEAN
    /\ disk \in [Sector -> Value]
    /\ unstable \subseteq Sector
    /\ call.pc \in {"idle", "stage", "publish", "poll", "done"}
    /\ calls \in 0 .. MaxCalls

DrainedOnSuccess ==
    call.pc = "done" /\ call.code = 1 => inflight = {} /\ seen_idx = avail_idx

CleanCallDone ==
    call.pc = "done" /\ call.code = 1 /\ call.clean =>
        /\ call.kind = "write" =>
             \A j \in 0 .. call.count - 1 :
                disk[(IF call.abs THEN 0 ELSE LbaBase) + call.sector + j] = call.v
        /\ call.kind = "read" => \A g \in call.got : disk[g[1]] = g[2]
        /\ call.kind = "flush" => unstable = {}

\* What a call of virtio_blk_rw_sectors that returned success may rely on. The
\* device has nothing left to do: no request that an earlier call gave up can
\* touch the disk, the buffer or the status byte any more, across the wrap of
\* the ring indices too. And if its requests were staged with nothing else
\* under way, it did what it says: a write is on the disk, a read returned
\* what is there, a flush left nothing unstable.
SuccessMeansDone == TypeOK /\ DrainedOnSuccess /\ CleanCallDone

\* The requests of calls through the RedSea window, timed out or not, address
\* the window only, on a device that fetches a request when it is notified.
WindowAddresses ==
    ~late => \A r \in inflight :
        ~r.abs /\ r.type # "flush" =>
            r.lba .. r.lba + r.len - 1 \subseteq RsWindow

\* Every call returns, even when the device never answers.
CallReturns == call.pc # "idle" ~> call.pc = "idle"
=============================================================================
