----------------------------- MODULE Installer ------------------------------
(***************************************************************************)
(* The shell's zinstall (zinstall_handle of kernel_stub.c): it checks the  *)
(* installer image, erases the target disk, writes the image's extents and *)
(* reads every sector back. Each call of the block driver is one step; the *)
(* device may refuse it, and may also lose a write it has accepted, which  *)
(* is what the reading back is for. A write is durable after a flush.      *)
(* The payload of the image is a sequence of sectors, numbered from 1;     *)
(* a sector of the disk holds one of them, zeros (0) or older data (Old).  *)
(***************************************************************************)
EXTENDS Integers, Sequences, FiniteSetsExt

CONSTANTS
    Sectors,        \* the sectors of a target disk (ZEAL_DISK_SECTS)
    BufferSectors,  \* the sectors that fit g_install_io
    Images,         \* the installer images: [header, extents, payload, rest]
    Targets,        \* the disks: [capacity, flush, batch]
    MaxFaults       \* bound on device errors

ASSUME InstallerAssumption ==
    /\ Sectors \in Nat \ {0} /\ BufferSectors \in Nat /\ MaxFaults \in Nat
    /\ \A i \in Images : /\ i.extents \in Seq([lba : Nat, n : Nat])
                          /\ i.payload \in Nat
                          /\ i.header \in BOOLEAN /\ i.rest \in BOOLEAN
    /\ \A t \in Targets : t.batch \in Nat /\ t.flush \in BOOLEAN

VARIABLES
    image,      \* the image the boot loader left, or one with a bad header
    target,     \* the disk, and the driver's transfer window
    pc,         \* the phase of zinstall_handle
    sector,     \* erase and read-back: the next sector
    extent,     \* writing: the extent; read-back: extent_index
    done,       \* writing: sectors of this extent already written
    offset,     \* payload sectors before the extent (payload_off, extent_data)
    now,        \* what a read of the disk returns
    stable,     \* what is certain to survive a power loss
    message,    \* the last line printed
    faults      \* device errors so far

vars == <<image, target, pc, sector, extent, done, offset, now, stable,
          message, faults>>

Old == -1
LBAs == 0 .. Sectors - 1
Min2(x, y) == IF x < y THEN x ELSE y
Batch(left) == Min2(left, target.batch)

\* A walk over the extents that starts at extent "from" with start payload
\* sectors behind it: how many it has behind it at extent "to".
Walk(from, start, to) ==
    LET behind[k \in from .. Len(image.extents) + 1] ==
          IF k = from THEN start ELSE behind[k - 1] + image.extents[k - 1].n
    IN  behind[to]

-----------------------------------------------------------------------------
(* zinstall_image_valid.                                                   *)

\* data_bytes and previous_end when the loop comes to extent k.
Used(k) == Walk(1, 0, k)
PreviousEnd(k) ==
    IF k = 1 THEN 0 ELSE image.extents[k - 1].lba + image.extents[k - 1].n

\* Mutant: an extent may begin inside the one before it.
OverlapAllowed(k) ==
    LET e == image.extents[k]
    IN  /\ e.n > 0
        /\ e.lba < Sectors /\ e.n <= Sectors - e.lba
        /\ e.n <= image.payload - Used(k)

\* One extent: not empty, after the one before it, inside the disk, and its
\* sectors inside what is left of the payload.
CheckExtent(k) ==
    LET e == image.extents[k]
    IN  /\ e.n > 0
        /\ e.lba >= PreviousEnd(k)
        /\ e.lba < Sectors /\ e.n <= Sectors - e.lba
        /\ e.n <= image.payload - Used(k)

\* The extents use up the payload, and nothing follows it.
zinstall_image_valid ==
    /\ image.header
    /\ \A k \in 1 .. Len(image.extents) : CheckExtent(k)
    /\ Used(Len(image.extents) + 1) = image.payload /\ ~image.rest

-----------------------------------------------------------------------------
(* The driver.                                                             *)

\* A write of sectors is done, refused (with or without an effect), or
\* accepted although one of its sectors is lost.
Write(first, contents, Continue) ==
    LET range == first .. first + Len(contents) - 1
        written == [s \in LBAs |-> IF s \in range THEN contents[s - first + 1]
                                   ELSE now[s]]
    IN  \/ /\ now' = written
           /\ Continue
           /\ UNCHANGED faults
        \/ /\ faults < MaxFaults
           /\ faults' = faults + 1
           /\ \/ /\ \E s \in range : now' = [written EXCEPT ![s] = now[s]]
                 /\ Continue
              \/ /\ now' \in {now, written}
                 /\ pc' = "done"
                 /\ message' = "incomplete"
                 /\ UNCHANGED <<sector, extent, done, offset>>

\* A flush makes everything durable, or fails.
Flush(Continue, failure) ==
    /\ UNCHANGED now
    /\ \/ /\ target.flush
          /\ stable' = now
          /\ Continue
          /\ UNCHANGED faults
       \/ /\ target.flush => faults < MaxFaults
          /\ faults' = IF target.flush THEN faults + 1 ELSE faults
          /\ stable' \in {stable, now}
          /\ pc' = "done"
          /\ message' = failure
          /\ UNCHANGED <<sector, extent, done, offset>>

\* A new phase starts at the first sector and the first extent.
Phase(p) == /\ pc' = p
            /\ sector' = 0 /\ extent' = 1 /\ done' = 0 /\ offset' = 0

-----------------------------------------------------------------------------
(* zinstall_handle.                                                        *)

Ends(m) ==
    /\ pc' = "done" /\ message' = m
    /\ UNCHANGED <<sector, extent, done, offset>>

\* The checks before the first write; "confirmed" is the word ERASE.
zinstall_start(confirmed) ==
    /\ pc = "start"
    /\ \/ /\ ~zinstall_image_valid \/ target.capacity # Sectors
          /\ Ends("refused")
          /\ UNCHANGED <<now, stable, faults>>
       \/ /\ zinstall_image_valid /\ target.capacity = Sectors
          /\ Flush(IF ~confirmed \/ target.batch = 0
                      \/ target.batch > BufferSectors
                   THEN Ends("refused")
                   ELSE Phase("erase") /\ UNCHANGED message, "refused")
    /\ UNCHANGED <<image, target>>

\* One batch of zeros.
zinstall_erase ==
    /\ pc = "erase"
    /\ sector < Sectors
    /\ LET batch == Batch(Sectors - sector)
       IN  Write(sector, [i \in 1 .. batch |-> 0],
                 /\ sector' = sector + batch
                 /\ UNCHANGED <<pc, extent, done, offset, message>>)
    /\ UNCHANGED <<image, target, stable>>

zinstall_erased ==
    /\ pc = "erase"
    /\ sector = Sectors
    /\ Flush(Phase("write") /\ UNCHANGED message, "incomplete")
    /\ UNCHANGED <<image, target>>

\* One batch of an extent; after its last the payload moves on.
zinstall_write ==
    /\ pc = "write"
    /\ extent <= Len(image.extents)
    /\ LET e == image.extents[extent]
           batch == Batch(e.n - done)
       IN  Write(e.lba + done, [i \in 1 .. batch |-> offset + done + i],
                 /\ IF done + batch < e.n
                    THEN done' = done + batch /\ UNCHANGED <<extent, offset>>
                    ELSE /\ done' = 0
                         /\ extent' = extent + 1
                         /\ offset' = offset + e.n
                 /\ UNCHANGED <<pc, sector, message>>)
    /\ UNCHANGED <<image, target, stable>>

zinstall_written ==
    /\ pc = "write"
    /\ extent > Len(image.extents)
    /\ Flush(Phase("verify") /\ UNCHANGED message, "do not reboot")
    /\ UNCHANGED <<image, target>>

\* The walk over the extents while sectors are compared: past all extents
\* that end at or before the sector. Extents are few, so the first one that
\* is left is found at once.
Advance(s) ==
    LET left == {i \in extent .. Len(image.extents) :
                     s < image.extents[i].lba + image.extents[i].n}
    IN  IF left = {} THEN Len(image.extents) + 1 ELSE Min(left)

\* The payload sectors before extent i, from the walk's own position.
OffsetAt(i) == Walk(extent, offset, i)

\* A sector inside an extent holds its payload, any other zeros.
SectorMatches(s) ==
    LET i == Advance(s)
    IN  now[s] = IF i <= Len(image.extents) /\ s >= image.extents[i].lba
                 THEN OffsetAt(i) + (s - image.extents[i].lba) + 1
                 ELSE 0

\* One batch is read back and compared.
zinstall_verify ==
    /\ pc = "verify"
    /\ sector < Sectors
    /\ LET batch == Batch(Sectors - sector)
           last == sector + batch - 1
       IN  \/ /\ \A s \in sector .. last : SectorMatches(s)
              /\ sector' = sector + batch
              /\ extent' = Advance(last)
              /\ offset' = OffsetAt(Advance(last))
              /\ UNCHANGED <<pc, done, message, faults>>
           \/ /\ \E s \in sector .. last : ~SectorMatches(s)
              /\ Ends("incomplete")
              /\ UNCHANGED faults
           \/ /\ faults < MaxFaults
              /\ faults' = faults + 1
              /\ Ends("incomplete")
    /\ UNCHANGED <<image, target, now, stable>>

zinstall_verified ==
    /\ pc = "verify"
    /\ sector = Sectors
    /\ Flush(Ends("installed"), "do not reboot")
    /\ UNCHANGED <<image, target>>

-----------------------------------------------------------------------------
Init ==
    /\ image \in Images
    /\ target \in Targets
    /\ pc = "start"
    /\ sector = 0 /\ extent = 1 /\ done = 0 /\ offset = 0
    /\ now = [s \in LBAs |-> Old]
    /\ stable = now
    /\ message = "none"
    /\ faults = 0

zinstall_handle ==
    \/ \E confirmed \in BOOLEAN : zinstall_start(confirmed)
    \/ zinstall_erase \/ zinstall_erased
    \/ zinstall_write \/ zinstall_written
    \/ zinstall_verify \/ zinstall_verified

Next == zinstall_handle

Spec == Init /\ [][Next]_vars

-----------------------------------------------------------------------------
\* What the image says a sector holds: the payload sector of each extent that
\* has it, zeros if none does.
ImageAt(s) ==
    LET Holds(i) == s \in image.extents[i].lba .. image.extents[i].lba
                                                  + image.extents[i].n - 1
        holding == {i \in DOMAIN image.extents : Holds(i)}
    IN  IF holding = {} THEN {0}
        ELSE {Walk(1, 0, i) + (s - image.extents[i].lba) + 1 : i \in holding}

\* Whatever single request the device refuses or loses, the final message of
\* zinstall_handle is true. If it says installed and verified, every sector
\* of the disk durably holds the image, zeros included, and the image gave
\* each sector one content and nothing beyond its payload. A disk that was
\* touched is never left behind a message that says no install started, an
\* untouched one never behind a warning, and an install that meets no error
\* of the device is not reported as failed.
MessagesTrue ==
    pc = "done" =>
        /\ message = "installed" =>
               \A s \in LBAs : ImageAt(s) = {stable[s]} /\ stable[s] \in 0 .. image.payload
        /\ message = "refused" => \A s \in LBAs : now[s] = Old /\ stable[s] = Old
        /\ message \in {"incomplete", "do not reboot"} => faults > 0
        /\ message # "none"
=============================================================================
