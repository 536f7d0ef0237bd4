------------------------------- MODULE Pi4Xhci -------------------------------
(***************************************************************************)
(* The Raspberry Pi 4 boot probe of the VL805 xHCI controller              *)
(* (src/kernel_stub.c, pi4_xhci_dma_probe.h, pi4_xhci_probe.h): the read-  *)
(* only PCIe probe, the capability probe with legacy handoff and reset,    *)
(* the CPU cache probe, and pi4_xhci_dma_noop_probe, which programs rings, *)
(* moves the inbound translation, grants bus mastering, enumerates what is *)
(* behind one root port, and ends in a live USB session or in a cleanup.   *)
(* The stop of a session (pi4_usb_live_stop) is here too.                  *)
(*                                                                         *)
(* A register access can abort: a read then has no value, and a write may  *)
(* or may not have landed.  With memory decoding off every access of the   *)
(* BAR aborts.  The controller executes a transfer only if its ring        *)
(* dequeue position is the position at which software has published it;    *)
(* what is published elsewhere is never seen, and the wait times out.      *)
(* hw.good says that the hardware never fails: no abort, no time-out and   *)
(* only answers in the protocol.                                           *)
(*                                                                         *)
(* g_pi4_xhci_dma_state is code, a pair of stage and result.  Codes of an  *)
(* intermediate success are left out: every path overwrites them.          *)
(***************************************************************************)
EXTENDS Integers

CONSTANTS
    BotCommands,       \* PI4_XHCI_DMA_BOT_STORAGE_COMMANDS (32)
    LiveChecks,        \* turns of the wrap test of pi4_usb_live_start (272)
    ClusterSectors     \* the values of sectors_per_cluster considered

ASSUME ProbeAssumption ==
    /\ BotCommands \in Nat /\ LiveChecks \in Nat
    /\ ClusterSectors \subseteq Nat \ {0}

VARIABLES
    pc,         \* where the boot probe is
    code,       \* g_pi4_xhci_dma_state
    hw,         \* the controller, its PCI command word and the bridge
    fw,         \* the PCI command word that the firmware left
    g,          \* globals that one probe leaves for the next
    t,          \* locals of the running probe
    dev,        \* what was found on the bus
    deq,        \* per ring: the controller's dequeue position
    fs          \* the storage probe: commands sent, and the scan of the volume

vars == <<pc, code, hw, fw, g, t, dev, deq, fs>>

Link == 255            \* the Link TRB of a ring
FirstCommand == 248    \* PI4_XHCI_DMA_COMMAND_ENABLE_SLOT_TRB
SectorLimit == 8       \* PI4_FAT32_SECTOR_LIMIT and PI4_FAT32_CLUSTER_LIMIT
FileSectors == 3       \* sectors of PI4_FAT32_TEST_BYTES (1025)

Rings == {"cmd", "ep0", "child", "in", "out"}

Command == [mse |-> hw.mse, bme |-> hw.bme]

-----------------------------------------------------------------------------
(* Steps of the probe.                                                     *)

Goto(l) == pc' = l

Fail(l, c) == pc' = l /\ code' = c

\* An access of the BAR succeeds or not.
Accessible(ok) == /\ ok => hw.mse
                  /\ hw.good /\ hw.mse => ok

\* A write of the command word that is read back.
WriteCommand(c, ok) ==
    /\ hw.good => ok
    /\ \E landed \in BOOLEAN :
        /\ ok => landed
        /\ hw' = IF landed THEN [hw EXCEPT !.mse = c.mse, !.bme = c.bme] ELSE hw

\* A write of the high word of the inbound BAR2 that is read back.
WriteBar2(v, ok) ==
    /\ hw.good => ok
    /\ \E landed \in BOOLEAN :
        /\ ok => landed
        /\ hw' = IF landed THEN [hw EXCEPT !.bar2 = v] ELSE hw

\* USBCMD is cleared, and HCHalted awaited for a second.
Halt(ok) ==
    /\ Accessible(ok)
    /\ \E landed, stopped \in BOOLEAN :
        /\ ok => landed /\ stopped
        /\ stopped => landed
        /\ hw' = [hw EXCEPT !.run = @ /\ ~landed, !.halted = @ \/ stopped]

\* A controller that was told to halt may do so late.
HaltsLate ==
    /\ ~hw.run /\ ~hw.halted
    /\ hw' = [hw EXCEPT !.halted = TRUE]
    /\ UNCHANGED <<pc, code, fw, g, t, dev, deq, fs>>

-----------------------------------------------------------------------------
(* The read-only probe of the bridge and of the first function.            *)

ProbeReadonly ==
    /\ pc = "status"
    /\ \/ Goto("first") /\ UNCHANGED g
       \/ /\ ~hw.good /\ Goto("cpu")
          /\ \E s \in {"FDT_SKIP", "MAP_FAIL", "STATUS_FAIL"} :
                g' = [g EXCEPT !.cfg = s]
    /\ UNCHANGED <<code, hw, fw, t, dev, deq, fs>>

ProbeFirstFunction ==
    /\ pc = "first"
    /\ \/ Goto("caps") /\ g' = [g EXCEPT !.cfg = "READ_OK", !.cmd = Command]
       \/ /\ ~hw.good /\ Goto("cpu")
          /\ \E s \in {"NOT_LINKED", "MAP_FAIL", "MMIO_FAIL", "NO_DEVICE"} :
                g' = [g EXCEPT !.cfg = s]
    /\ UNCHANGED <<code, hw, fw, t, dev, deq, fs>>

-----------------------------------------------------------------------------
(* pi4_xhci_probe_capabilities.                                            *)

\* Mutant: memory decoding is enabled under a mastering firmware too.
MemoryCommandAlways(c) == TRUE

\* CPU access of the BAR is permitted only while bus mastering is off.
MemoryCommand(c) == ~c.bme

\* Mutant: a write is undone only if it was verified.
UndoIfVerified(ok) == ok

\* A write is undone later even if it was reported to have failed.
MayBeSet(ok) == TRUE

\* The firmware's command word gets memory decoding if it lacks it.
CapsEnable ==
    /\ pc = "caps"
    /\ \/ /\ ~hw.good /\ Goto("cpu")
          /\ \E s \in {"BAD_BAR", "MAP_FAIL"} : g' = [g EXCEPT !.xhci = s]
          /\ UNCHANGED <<hw, t>>
       \/ /\ ~MemoryCommand(g.cmd)
          /\ Goto("cpu") /\ g' = [g EXCEPT !.xhci = "CMD_FAIL"]
          /\ UNCHANGED <<hw, t>>
       \/ /\ MemoryCommand(g.cmd)
          /\ \E ok \in BOOLEAN :
              /\ t' = [t EXCEPT !.mseSet = ~g.cmd.mse /\ MayBeSet(ok)]
              /\ IF g.cmd.mse THEN (hw.good => ok) /\ UNCHANGED hw
                 ELSE WriteCommand([mse |-> TRUE, bme |-> FALSE], ok)
              /\ IF ok THEN Goto("caps_read") /\ UNCHANGED g
                 ELSE /\ Goto("caps_restore")
                      /\ g' = [g EXCEPT !.xhci = "CFG_FAIL"]
    /\ UNCHANGED <<code, fw, dev, deq, fs>>

CapsRead ==
    /\ pc = "caps_read"
    /\ \/ Accessible(TRUE) /\ Goto("snapshot")
          /\ g' = [g EXCEPT !.xhci = "CAPS_OK"]
       \/ /\ ~hw.good /\ Goto("caps_restore")
          /\ \E s \in {"MMIO_FAIL", "CAPS_INVALID"} : g' = [g EXCEPT !.xhci = s]
    /\ UNCHANGED <<code, hw, fw, t, dev, deq, fs>>

\* USBCMD and USBSTS are read, and the legacy capability is searched for.
SnapshotState ==
    /\ pc = "snapshot"
    /\ \/ /\ Accessible(TRUE) /\ Goto("handoff")
          /\ t' = [t EXCEPT !.run = hw.run, !.halted = hw.halted]
          /\ UNCHANGED g
       \/ /\ ~hw.good /\ Goto("caps_restore")
          /\ \E s \in {"READ_FAIL", "NO_LEGACY"} : g' = [g EXCEPT !.mask = s]
          /\ UNCHANGED t
    /\ UNCHANGED <<code, hw, fw, dev, deq, fs>>

HandoffSafe(run, halted) == ~run /\ halted

\* Legacy ownership is claimed.
LegacyHandoff ==
    /\ pc = "handoff"
    /\ \/ /\ ~HandoffSafe(t.run, t.halted)
          /\ g' = [g EXCEPT !.mask = "HANDOFF_UNSAFE",
                            !.legacy = [bios |-> hw.bios, os |-> hw.os]]
          /\ Goto("caps_restore") /\ UNCHANGED hw
       \/ /\ HandoffSafe(t.run, t.halted)
          /\ \/ /\ Accessible(TRUE) /\ hw' = [hw EXCEPT !.os = TRUE]
                /\ Goto("poll") /\ UNCHANGED g
             \/ /\ ~hw.good
                /\ \E landed \in BOOLEAN : hw' = [hw EXCEPT !.os = @ \/ landed]
                /\ g' = [g EXCEPT !.mask = "HANDOFF_FAIL"]
                /\ Goto("caps_restore")
    /\ UNCHANGED <<code, fw, t, dev, deq, fs>>

\* The firmware gives the controller up.
FirmwareReleases ==
    /\ pc = "poll" /\ hw.os /\ hw.bios
    /\ hw' = [hw EXCEPT !.bios = FALSE]
    /\ UNCHANGED <<pc, code, fw, g, t, dev, deq, fs>>

\* Mutant: the firmware is awaited for as long as it takes.
LegacyPollPatient ==
    /\ pc = "poll"
    /\ \/ /\ Accessible(TRUE) /\ ~hw.bios /\ Goto("reset")
          /\ g' = [g EXCEPT !.mask = "HANDOFF_OK",
                            !.legacy = [bios |-> FALSE, os |-> hw.os]]
       \/ /\ ~hw.good /\ ~hw.bios /\ Goto("caps_restore")
          /\ g' = [g EXCEPT !.mask = "HANDOFF_FAIL"]
    /\ UNCHANGED <<code, hw, fw, t, dev, deq, fs>>

\* Ownership is polled for a second.
LegacyPoll ==
    /\ pc = "poll"
    /\ \/ /\ Accessible(TRUE) /\ ~hw.bios /\ Goto("reset")
          /\ g' = [g EXCEPT !.mask = "HANDOFF_OK",
                            !.legacy = [bios |-> FALSE, os |-> hw.os]]
       \/ /\ ~hw.good /\ Goto("caps_restore")
          /\ \/ hw.bios /\ g' = [g EXCEPT !.mask = "HANDOFF_TIMEOUT",
                                      !.legacy = [bios |-> TRUE, os |-> hw.os]]
             \/ g' = [g EXCEPT !.mask = "HANDOFF_FAIL"]
    /\ UNCHANGED <<code, hw, fw, t, dev, deq, fs>>

ResetSafe(run, halted, legacy, cmd) ==
    ~cmd.bme /\ ~run /\ halted /\ ~legacy.bios /\ legacy.os

\* HCRST, only when the handoff is complete and the controller is halted.
ResetHalted ==
    /\ pc = "reset" /\ Goto("caps_restore")
    /\ \/ /\ ~hw.good /\ g' = [g EXCEPT !.mask = "RESET_FAIL"] /\ UNCHANGED hw
       \/ /\ ~ResetSafe(hw.run, hw.halted, g.legacy, g.cmd)
          /\ g' = [g EXCEPT !.mask = "RESET_UNSAFE"] /\ UNCHANGED hw
       \/ /\ ResetSafe(hw.run, hw.halted, g.legacy, g.cmd)
          /\ \/ /\ Accessible(TRUE)
                /\ hw' = [hw EXCEPT !.ptr = "none"]
                /\ g' = [g EXCEPT !.mask = "RESET_OK"]
             \/ /\ ~hw.good
                /\ \E landed \in BOOLEAN :
                      hw' = IF landed THEN [hw EXCEPT !.ptr = "none"] ELSE hw
                /\ \E s \in {"RESET_FAIL", "RESET_TIMEOUT", "RESET_UNSAFE"} :
                      g' = [g EXCEPT !.mask = s]
    /\ UNCHANGED <<code, fw, t, dev, deq, fs>>

\* The command word is restored if it was changed, after every failure too.
CapsRestore ==
    /\ pc = "caps_restore" /\ Goto("cpu")
    /\ IF t.mseSet
       THEN \E ok \in BOOLEAN :
              /\ WriteCommand(g.cmd, ok)
              /\ g' = IF ok THEN g ELSE [g EXCEPT !.xhci = "RESTORE_FAIL"]
       ELSE UNCHANGED <<hw, g>>
    /\ t' = [t EXCEPT !.mseSet = FALSE]
    /\ UNCHANGED <<code, fw, dev, deq, fs>>

CpuCacheProbe ==
    /\ pc = "cpu" /\ Goto("gate")
    /\ \E s \in {"RESET_REQUIRED", "PASS", "FAIL"} :
        /\ (s = "RESET_REQUIRED") <=> (g.mask # "RESET_OK" \/ g.cmd.bme)
        /\ s = "FAIL" => ~hw.good
        /\ g' = [g EXCEPT !.cpu = s]
    /\ UNCHANGED <<code, hw, fw, t, dev, deq, fs>>

-----------------------------------------------------------------------------
(* pi4_xhci_dma_noop_probe: up to the running controller.                  *)

GateOpen ==
    /\ g.cfg = "READ_OK" /\ g.xhci = "CAPS_OK"
    /\ g.mask = "RESET_OK" /\ g.cpu = "PASS" /\ ~g.cmd.bme

NoopGate ==
    /\ pc = "gate"
    /\ \/ /\ ~GateOpen /\ Fail("done", <<"SKIPPED", "GATE">>) /\ UNCHANGED t
       \/ /\ GateOpen /\ ~hw.good
          /\ \E c \in {<<"LAYOUT", "BAD">>, <<"MMIO", "FAIL">>,
                       <<"PCI_ENABLE", "FAIL">>} : Fail("done", c)
          /\ UNCHANGED t
       \/ /\ GateOpen /\ ~MemoryCommand(Command)
          /\ Fail("done", <<"SKIPPED", "GATE">>) /\ UNCHANGED t
       \/ /\ GateOpen /\ MemoryCommand(Command)
          /\ Goto("mse") /\ t' = [t EXCEPT !.orig = Command] /\ UNCHANGED code
    /\ UNCHANGED <<hw, fw, g, dev, deq, fs>>

EnableMse ==
    /\ pc = "mse"
    /\ IF t.orig.mse
       THEN Goto("op") /\ UNCHANGED <<code, hw, g, t>>
       ELSE /\ \E ok \in BOOLEAN :
                /\ t' = [t EXCEPT !.mseSet = MayBeSet(ok)]
                /\ WriteCommand([mse |-> TRUE, bme |-> FALSE], ok)
                /\ IF ok THEN /\ Goto("op") /\ UNCHANGED code
                              /\ g' = [g EXCEPT !.cmd = [mse |-> TRUE, bme |-> FALSE]]
                   ELSE /\ Fail("preflight", <<"PCI_ENABLE", "FAIL">>)
                        /\ UNCHANGED g
    /\ UNCHANGED <<fw, dev, deq, fs>>

\* Operational registers, the original BAR2, the alias plan and the layout.
ReadOperational ==
    /\ pc = "op"
    /\ \/ Accessible(TRUE) /\ hw.halted /\ ~hw.run /\ Goto("alias") /\ UNCHANGED code
       \/ /\ ~hw.good
          /\ \E c \in {<<"MMIO", "FAIL">>, <<"INBOUND_CONFIG", "FAIL">>,
                       <<"LAYOUT", "BAD">>} : Fail("preflight", c)
    /\ UNCHANGED <<hw, fw, g, t, dev, deq, fs>>

\* The inbound window moves to the 16-GiB alias.
WriteAlias ==
    /\ pc = "alias"
    /\ \E ok \in BOOLEAN :
        /\ t' = [t EXCEPT !.bar2Set = MayBeSet(ok)]
        /\ WriteBar2("alias", ok)
        /\ IF ok THEN Goto("program") /\ UNCHANGED code
           ELSE Fail("preflight", <<"INBOUND_CONFIG", "FAIL">>)
    /\ UNCHANGED <<fw, g, dev, deq, fs>>

\* The rings are seeded and the controller's pointers written.
ProgramRings ==
    /\ pc = "program"
    /\ \/ /\ Accessible(TRUE) /\ hw' = [hw EXCEPT !.ptr = "ours"]
          /\ deq' = [r \in Rings |-> IF r = "cmd" THEN FirstCommand ELSE 0]
          /\ Goto("readback") /\ UNCHANGED code
       \/ /\ ~hw.good
          /\ \E p \in {hw.ptr, "ours"} : hw' = [hw EXCEPT !.ptr = p]
          /\ \E c \in {<<"MMIO", "FAIL">>, <<"LAYOUT", "BAD">>} : Fail("preflight", c)
          /\ UNCHANGED deq
    /\ UNCHANGED <<fw, g, t, dev, fs>>

ReadbackSetup ==
    /\ pc = "readback"
    /\ \/ Accessible(TRUE) /\ Goto("bme") /\ UNCHANGED code
       \/ ~hw.good /\ Fail("preflight", <<"READBACK", "FAIL">>)
    /\ UNCHANGED <<hw, fw, g, t, dev, deq, fs>>

EnableBme ==
    /\ pc = "bme"
    /\ \E ok \in BOOLEAN :
        /\ t' = [t EXCEPT !.bmeSet = MayBeSet(ok)]
        /\ WriteCommand([mse |-> TRUE, bme |-> TRUE], ok)
        /\ IF ok THEN Goto("run") /\ UNCHANGED code
           ELSE Fail("cleanup", <<"PCI_ENABLE", "FAIL">>)
    /\ UNCHANGED <<fw, g, dev, deq, fs>>

RunController ==
    /\ pc = "run"
    /\ \/ /\ Accessible(TRUE)
          /\ hw' = [hw EXCEPT !.run = TRUE, !.halted = FALSE]
          /\ \/ Goto("port") /\ UNCHANGED code
             \/ ~hw.good /\ Fail("cleanup", <<"HSE_BEFORE_DB", "BAD">>)
       \/ /\ ~hw.good
          /\ \E landed \in BOOLEAN :
               hw' = [hw EXCEPT !.run = landed, !.halted = ~landed]
          /\ \E c \in {<<"MMIO", "FAIL">>, <<"RUN", "TIMEOUT">>} : Fail("cleanup", c)
    /\ UNCHANGED <<fw, g, t, dev, deq, fs>>

\* One connected root port is reset; it becomes ready with its speed, or not.
PortResetProbe ==
    /\ pc = "port"
    /\ \/ /\ Accessible(TRUE) /\ Goto("wrap") /\ UNCHANGED code
          /\ \E s \in {"none", "high", "super"} : dev' = [dev EXCEPT !.speed = s]
       \/ /\ ~hw.good /\ Fail("cleanup", <<"MMIO", "FAIL">>) /\ UNCHANGED dev
    /\ UNCHANGED <<hw, fw, g, t, deq, fs>>

\* The event ring is tested with an MFINDEX wrap, and wrap events turned off.
MfindexWrapProbe ==
    /\ pc = "wrap"
    /\ \/ Accessible(TRUE) /\ Goto("enable_slot") /\ UNCHANGED code
       \/ /\ ~hw.good
          /\ \E c \in {<<"MMIO", "FAIL">>, <<"EVENT", "BAD">>,
                       <<"HSE_BEFORE_DB", "BAD">>} : Fail("cleanup", c)
    /\ UNCHANGED <<hw, fw, g, t, dev, deq, fs>>

-----------------------------------------------------------------------------
(* Enumeration.  A command or a control transfer is published at a fixed    *)
(* position of its ring, and its completion event awaited for a second.     *)

\* Where the controller goes on after a transfer of len entries at i; the
\* command ring wraps within the probe, the others do not reach their Link.
After(r, i, len) == IF r = "cmd" /\ i + len = Link THEN 0 ELSE i + len

\* The completion event of the transfer published at i arrives.
Completes(r, i, len) ==
    /\ Accessible(TRUE) /\ deq[r] = i
    /\ deq' = [deq EXCEPT ![r] = After(r, i, len)]

\* It does not, or it is not the one that is awaited, or what it brings is
\* rejected: the stage ends with the code of its failure.
Miss(r, i, len, name) ==
    /\ \/ /\ ~hw.good \/ deq[r] # i
          /\ code' = <<name, "TIMEOUT">> /\ UNCHANGED deq
       \/ /\ ~hw.good
          /\ code' \in {<<name, "BAD">>, <<"MMIO", "FAIL">>}
          /\ deq' \in {deq, [deq EXCEPT ![r] = After(r, i, len)]}
    /\ Goto("cleanup")

\* A stage that learns nothing: on success the probe goes on at next.
Stage(l, r, i, len, name, next) ==
    /\ pc = l
    /\ \/ Completes(r, i, len) /\ Goto(next) /\ UNCHANGED code
       \/ Miss(r, i, len, name)
    /\ UNCHANGED <<hw, fw, g, t, dev, fs>>

EnableSlot ==
    \/ Stage("enable_slot", "cmd", 248, 1, "ENABLE_SLOT", "address")
       /\ dev.speed # "none"
    \/ /\ pc = "enable_slot" /\ dev.speed = "none"
       /\ Fail("cleanup", <<"ADDRESS", "SKIP_PORT">>)
       /\ UNCHANGED <<hw, fw, g, t, dev, deq, fs>>

AddressDevice == Stage("address", "cmd", 249, 1, "ADDRESS_DEVICE", "device")

\* The device descriptor tells a hub from other devices.
DeviceDescriptor ==
    /\ pc = "device"
    /\ \/ /\ Completes("ep0", 0, 3) /\ Goto("config") /\ UNCHANGED code
          /\ \E c \in {"hub", "other"} : dev' = [dev EXCEPT !.class = c]
       \/ Miss("ep0", 0, 3, "CONTROL_TRANSFER") /\ UNCHANGED dev
    /\ UNCHANGED <<hw, fw, g, t, fs>>

\* A SuperSpeed device is attached directly, like every device but a hub.
DirectRoot == dev.speed = "super" \/ dev.class # "hub"

ConfigHeader ==
    Stage("config", "ep0", 3, 3, "CONTROL_TRANSFER",
          IF DirectRoot THEN "root_config" ELSE "hub_config")

-----------------------------------------------------------------------------
(* A device attached directly: its configuration, its bulk endpoints.      *)

\* A transfer of the direct path: any failure ends with the code bad.
Direct(l, r, i, len, bad, next) ==
    /\ pc = l
    /\ \/ Completes(r, i, len) /\ Goto(next) /\ UNCHANGED code
       \/ /\ ~hw.good \/ deq[r] # i
          /\ Fail("cleanup", <<bad, "BAD">>) /\ UNCHANGED deq
    /\ UNCHANGED <<hw, fw, g, t, dev, fs>>

RootConfigFull ==
    \/ Direct("root_config", "ep0", 6, 3, "ROOT_CONFIG", "root_set")
    \/ /\ pc = "root_config" /\ Completes("ep0", 6, 3)
       /\ Fail("cleanup", <<"ROOT", "NO_BOT">>)
       /\ UNCHANGED <<hw, fw, g, t, dev, fs>>

RootSetConfig == Direct("root_set", "ep0", 9, 2, "ROOT_SELECT", "root_get")
RootGetConfig == Direct("root_get", "ep0", 11, 3, "ROOT_SELECT", "root_lun")

RootMaxLun ==
    \/ Direct("root_lun", "ep0", 14, 3, "ROOT_MAX_LUN", "root_guard")
       /\ dev.speed = "super"
    \/ /\ pc = "root_lun" /\ dev.speed # "super"
       /\ \/ Completes("ep0", 14, 3) /\ Fail("cleanup", <<"ROOT_BOT_EP0", "PASS">>)
          \/ /\ ~hw.good \/ deq["ep0"] # 14
             /\ Fail("cleanup", <<"ROOT_MAX_LUN", "BAD">>) /\ UNCHANGED deq
       /\ UNCHANGED <<hw, fw, g, t, dev, fs>>

RootBulkGuard == Direct("root_guard", "cmd", 250, 1, "ROOT_BULK_CONFIG", "root_bulk")
RootBulkConfigure == Direct("root_bulk", "cmd", 251, 1, "ROOT_BULK_CONFIG", "inq_cbw")

\* INQUIRY: command, data and status.
InquiryCbw == Direct("inq_cbw", "out", 0, 1, "ROOT_INQUIRY", "inq_data")
InquiryData == Direct("inq_data", "in", 0, 1, "ROOT_INQUIRY", "inq_csw")
InquiryCsw == Direct("inq_csw", "in", 1, 1, "ROOT_INQUIRY", "capacity")

-----------------------------------------------------------------------------
(* The storage probe.  Command n is at entry 1 + n of the OUT ring and at   *)
(* 2 + 2n and 3 + 2n of the IN ring; there are BotCommands of them.         *)

\* k commands, each with its data and its status, can be sent.
Sendable(k) ==
    /\ Accessible(TRUE) /\ fs.n + k <= BotCommands
    /\ deq["out"] = 1 + fs.n /\ deq["in"] = 2 + 2 * fs.n

Sent(k) == deq' = [deq EXCEPT !["out"] = @ + k, !["in"] = @ + 2 * k]

\* storage_read_retry: the read succeeds, f is the scan after it and the
\* probe goes on with next; or the device asks for a retry, which REQUEST
\* SENSE explains; or the read has failed.
Read(bad, f, next) ==
    \/ /\ Sendable(1) /\ Sent(1)
       /\ fs' = [f EXCEPT !.n = fs.n + 1, !.attempt = 0]
       /\ next
    \/ /\ ~hw.good /\ Sendable(2) /\ fs.attempt < 2 /\ Sent(2)
       /\ fs' = [fs EXCEPT !.n = @ + 2, !.attempt = @ + 1]
       /\ UNCHANGED <<pc, code>>
    \/ /\ ~hw.good \/ ~Sendable(1)
       /\ Fail("cleanup", <<bad, "BAD">>) /\ UNCHANGED <<deq, fs>>

Scanning == UNCHANGED <<hw, fw, g, t, dev>>
On(l) == Goto(l) /\ UNCHANGED code

ReadCapacity ==
    pc = "capacity" /\ Read("ROOT_CAPACITY", fs, On("block")) /\ Scanning

\* Block 0 is read twice.
ReadBlock ==
    /\ pc = "block" /\ Scanning
    /\ Read(IF fs.pass = 0 THEN "ROOT_BLOCK_READ" ELSE "ROOT_BLOCK_REPEAT",
            [fs EXCEPT !.pass = 1 - @], On(IF fs.pass = 0 THEN "block" ELSE "volume"))

\* The volume starts at block 0, or in a partition, or is not of this kind.
FindVolume ==
    /\ pc = "volume" /\ UNCHANGED deq /\ Scanning
    /\ \/ /\ \E s \in ClusterSectors : fs' = [fs EXCEPT !.spc = s]
          /\ \/ On("boot")
             \/ On("root_fat")
       \/ Fail("cleanup", <<"ROOT_FS", "UNSUPPORTED">>) /\ UNCHANGED fs
       \/ ~hw.good /\ Fail("cleanup", <<"ROOT_FS", "BAD">>) /\ UNCHANGED fs

ReadBootSector ==
    pc = "boot" /\ Read("ROOT_FS", fs, On("root_fat")) /\ Scanning

\* One FAT sector per cluster of the root directory.
ReadRootFat ==
    pc = "root_fat" /\ Read("ROOT_FS", [fs EXCEPT !.sector = 0], On("root_dir"))
    /\ Scanning

\* The sectors of a cluster: the directory ends, or the limit of entries,
\* sectors or clusters is reached, or the scan goes on.
ReadRootDirectory ==
    /\ pc = "root_dir" /\ Scanning
    /\ \/ /\ fs.dir >= SectorLimit
          /\ On("find") /\ fs' = [fs EXCEPT !.sector = 0, !.hop = 0] /\ UNCHANGED deq
       \/ /\ fs.dir < SectorLimit
          /\ \/ Read("ROOT_FS", [fs EXCEPT !.dir = @ + 1, !.sector = 0, !.hop = 0],
                     On("find"))
             \/ /\ fs.sector + 1 < fs.spc
                /\ Read("ROOT_FS", [fs EXCEPT !.dir = @ + 1, !.sector = @ + 1],
                        On("root_dir"))
             \/ /\ fs.sector + 1 = fs.spc /\ fs.hop + 1 < SectorLimit
                /\ Read("ROOT_FS", [fs EXCEPT !.dir = @ + 1, !.hop = @ + 1],
                        On("root_fat"))

FindFile ==
    /\ pc = "find" /\ UNCHANGED <<deq, fs>> /\ Scanning
    /\ \/ On("file_fat")
       \/ Fail("cleanup", <<"ROOT_FILE", "MISSING">>)
       \/ ~hw.good /\ Fail("cleanup", <<"ROOT_FILE_PATTERN", "BAD">>)

ReadFileFat ==
    pc = "file_fat" /\ Read("ROOT_FILE", fs, On("file_data")) /\ Scanning

\* The file has FileSectors sectors and is read twice.
ReadFileData ==
    /\ pc = "file_data" /\ Scanning
    /\ \/ /\ fs.hop + 1 < FileSectors
          /\ Read("ROOT_FILE", [fs EXCEPT !.hop = @ + 1],
                  On(IF (fs.hop + 1) % fs.spc = 0 THEN "file_fat" ELSE "file_data"))
       \/ /\ fs.hop + 1 = FileSectors /\ fs.pass = 0
          /\ Read("ROOT_FILE", [fs EXCEPT !.hop = 0, !.pass = 1], On("file_fat"))
       \/ /\ fs.hop + 1 = FileSectors /\ fs.pass = 1
          /\ Read("ROOT_FILE", fs, Fail("cleanup", <<"ROOT_FILE", "PASS">>))

-----------------------------------------------------------------------------
(* A hub: it is configured, its ports are powered and read, and the lowest  *)
(* connected port is reset.                                                 *)

HubSetConfig == Stage("hub_config", "ep0", 6, 2, "CONTROL_TRANSFER", "hub_desc")
HubDescriptor == Stage("hub_desc", "ep0", 8, 3, "CONTROL_TRANSFER", "power")

\* Mutant: three entries for a request that has no data stage.
PowerIndexWide(i) == 11 + 3 * i

\* PORT_POWER of port i + 1.
PowerIndex(i) == 11 + 2 * i

\* GET_STATUS of port i + 1, after the n PORT_POWER requests.
StatusIndex(n, i) == 11 + 2 * n + 3 * i

PortPower ==
    /\ pc = "power"
    /\ \/ /\ Completes("ep0", PowerIndex(t.i), 2) /\ UNCHANGED code
          /\ t' = [t EXCEPT !.i = (@ + 1) % 4]
          /\ Goto(IF t.i = 3 THEN "power_wait" ELSE "power")
       \/ Miss("ep0", PowerIndex(t.i), 2, "CONTROL_TRANSFER") /\ UNCHANGED t
    /\ UNCHANGED <<hw, fw, g, dev, fs>>

PowerDelay ==
    /\ pc = "power_wait"
    /\ \/ On("port_status")
       \/ ~hw.good /\ Fail("cleanup", <<"HUB_POWER_DELAY", "FAIL">>)
    /\ UNCHANGED <<hw, fw, g, t, dev, deq, fs>>

\* After the last port it is known how many are connected.
PortStatus ==
    /\ pc = "port_status" /\ UNCHANGED <<hw, fw, g, fs>>
    /\ LET i == StatusIndex(4, t.i) IN
       \/ /\ Completes("ep0", i, 3) /\ UNCHANGED code
          /\ t' = [t EXCEPT !.i = (@ + 1) % 4]
          /\ IF t.i < 3 THEN Goto("port_status") /\ UNCHANGED dev
             ELSE /\ Goto("child_reset")
                  /\ \E k \in 0 .. 2 : dev' = [dev EXCEPT !.children = k]
       \/ /\ ~hw.good \/ deq["ep0"] # i
          /\ Fail("stop_endpoint", <<"CONTROL_TRANSFER", "TIMEOUT">>)
          /\ UNCHANGED <<t, dev, deq>>
       \/ /\ ~hw.good /\ UNCHANGED <<t, dev, deq>>
          /\ \E c \in {<<"MMIO", "FAIL">>, <<"CONTROL_TRANSFER", "BAD">>} :
                Fail("cleanup", c)

\* Stop Endpoint after the time-out of a port status, for the diagnostics.
StopEndpoint ==
    /\ pc = "stop_endpoint" /\ Goto("cleanup")
    /\ \/ Completes("cmd", 250, 1)
       \/ UNCHANGED deq
    /\ UNCHANGED <<code, hw, fw, g, t, dev, fs>>

ChildReset ==
    /\ pc = "child_reset" /\ UNCHANGED <<hw, fw, g, t, dev, fs>>
    /\ \/ /\ dev.children = 0 /\ UNCHANGED deq
          /\ Fail("cleanup", <<"HUB_CHILD", "NO_CONNECTED">>)
       \/ /\ dev.children > 0 /\ ~hw.good /\ UNCHANGED deq
          /\ Fail("cleanup", <<"HUB_CHILD", "PORT_NOT_READY">>)
       \/ /\ dev.children > 0
          /\ \/ Completes("ep0", StatusIndex(4, 3) + 3, 2) /\ On("reset_status")
             \/ Miss("ep0", StatusIndex(4, 3) + 3, 2, "HUB_CHILD_RESET")

ChildResetStatus ==
    Stage("reset_status", "ep0", StatusIndex(4, 3) + 5, 3, "HUB_CHILD_RESET", "reset_clear")
ChildResetClear ==
    Stage("reset_clear", "ep0", StatusIndex(4, 3) + 8, 2, "HUB_CHILD_RESET", "reset_final")
ChildResetFinal ==
    Stage("reset_final", "ep0", StatusIndex(4, 3) + 10, 3, "HUB_CHILD_RESET", "hub_guard")

HubGuard == Stage("hub_guard", "cmd", 250, 1, "HUB_GUARD", "hub_context")

\* The slot becomes a hub's; several children are left to the bus session.
HubConfigure ==
    Stage("hub_context", "cmd", 251, 1, "HUB_CONFIG",
          IF dev.children > 1 THEN "bus" ELSE "child_enable")

\* pi4_usb_bus_start goes on where the two rings stand.
BusStart ==
    /\ pc = "bus" /\ UNCHANGED <<hw, fw, dev, deq, fs>>
    /\ \/ /\ deq["cmd"] = 252 /\ deq["ep0"] = StatusIndex(4, 3) + 13
          /\ t' = [t EXCEPT !.inval = FirstCommand]
          /\ \E c \in {<<"BUS", "READY">>, <<"BUS", "INPUT_ONLY">>,
                       <<"BUS", "STORAGE_PENDING">>} : Fail("cleanup", c)
          /\ g' = [g EXCEPT !.session = "bus"]
       \/ /\ ~hw.good \/ deq["cmd"] # 252 \/ deq["ep0"] # StatusIndex(4, 3) + 13
          /\ Fail("cleanup", <<"BUS", "BAD">>) /\ UNCHANGED <<g, t>>

-----------------------------------------------------------------------------
(* The only child of the hub.                                              *)

ChildEnable == Stage("child_enable", "cmd", 252, 1, "CHILD_ENABLE", "child_address")
ChildAddress == Stage("child_address", "cmd", 253, 1, "CHILD_ADDRESS", "prefix")
ChildPrefix == Stage("prefix", "child", 0, 3, "CHILD_DESCRIPTOR", "repeat")
ChildRepeat == Stage("repeat", "child", 3, 3, "CHILD_REPEAT_DESCRIPTOR", "pre_config")
ChildPreEvaluate == Stage("pre_config", "child", 6, 3, "CHILD_PRE_EVALUATE", "evaluate")

\* Evaluate Context, or a No-op that keeps the last entry before the Link used.
ChildEvaluate == Stage("evaluate", "cmd", 254, 1, "CHILD_EP0_EVALUATE", "get_status")
ChildGetStatus == Stage("get_status", "child", 9, 3, "CHILD_GET_STATUS", "full")
ChildFullDescriptor == Stage("full", "child", 12, 3, "CHILD_FULL_DESCRIPTOR", "header")
ChildConfigHeader == Stage("header", "child", 15, 3, "CHILD_CONFIG_HEADER", "config_full")

\* The interfaces are known: storage, a boot keyboard, a boot mouse or none.
ChildConfigFull ==
    /\ pc = "config_full" /\ UNCHANGED <<hw, fw, g, t, fs>>
    /\ \/ /\ Completes("child", 18, 3) /\ On("set_config")
          /\ \E k \in {"storage", "keyboard", "mouse", "none"} :
                dev' = [dev EXCEPT !.kind = k]
       \/ Miss("child", 18, 3, "CHILD_CONFIG_FULL") /\ UNCHANGED dev

ChildSetConfig == Stage("set_config", "child", 21, 2, "CHILD_SET_CONFIG", "get_config")
ChildGetConfig ==
    Stage("get_config", "child", 23, 3, "CHILD_GET_CONFIG",
          IF dev.kind = "storage" THEN "max_lun"
          ELSE IF dev.kind = "none" THEN "unsupported" ELSE "hid_protocol")

\* No interface of the child is known to the kernel.
ChildUnsupported ==
    /\ pc = "unsupported" /\ Fail("cleanup", <<"MOUSE", "UNSUPPORTED">>)
    /\ UNCHANGED <<hw, fw, g, t, dev, deq, fs>>

HidName == IF dev.kind = "mouse" THEN "MOUSE" ELSE "KEYBOARD"

\* SET_PROTOCOL, GET_PROTOCOL and, for a keyboard, SET_IDLE.
HidSetProtocol == Direct("hid_protocol", "child", 26, 2, HidName, "hid_get")
HidGetProtocol ==
    Direct("hid_get", "child", 28, 3, HidName,
           IF dev.kind = "mouse" THEN "hid_guard" ELSE "hid_idle")
HidSetIdle == Direct("hid_idle", "child", 31, 2, HidName, "hid_guard")

\* The skipped entries of the command ring are made invalid for its next lap.
SkippedPrefix(inval) == FirstCommand

HidGuard ==
    /\ pc = "hid_guard" /\ t' = [t EXCEPT !.inval = SkippedPrefix(@)]
    /\ \/ Completes("cmd", 0, 1) /\ On("hid_configure")
       \/ /\ ~hw.good \/ deq["cmd"] # 0
          /\ Fail("cleanup", <<HidName, "BAD">>) /\ UNCHANGED deq
    /\ UNCHANGED <<hw, fw, g, dev, fs>>

\* Configure Endpoint, and the first report is queued: the session is live.
HidConfigure ==
    /\ pc = "hid_configure" /\ UNCHANGED <<hw, fw, t, dev, fs>>
    /\ \/ /\ Completes("cmd", 1, 1) /\ Fail("cleanup", <<HidName, "READY">>)
          /\ g' = [g EXCEPT !.session = "keyboard"]
       \/ /\ ~hw.good \/ deq["cmd"] # 1
          /\ Fail("cleanup", <<HidName, "BAD">>) /\ UNCHANGED <<deq, g>>

\* Endpoints that the speed of the port does not allow are not configured.
ChildMaxLun ==
    \/ Stage("max_lun", "child", 26, 3, "CHILD_GET_MAX_LUN", "bulk_guard")
    \/ /\ pc = "max_lun" /\ Completes("child", 26, 3)
       /\ Fail("cleanup", <<"CHILD_BULK", "SPEED_MISMATCH">>)
       /\ UNCHANGED <<hw, fw, g, t, dev, fs>>

\* After the Link: a No-op at entry 0, while entry 1 is made invalid.
ChildBulkGuard ==
    /\ pc = "bulk_guard" /\ t' = [t EXCEPT !.inval = 2]
    /\ \/ Completes("cmd", 0, 1) /\ On("bulk_configure")
       \/ Miss("cmd", 0, 1, "CHILD_BULK_CONFIG")
    /\ UNCHANGED <<hw, fw, g, dev, fs>>

ChildBulkConfigure ==
    /\ pc = "bulk_configure"
    /\ \/ Completes("cmd", 1, 1) /\ Fail("cleanup", <<"CHILD_BULK_CONFIG", "PASS">>)
       \/ Miss("cmd", 1, 1, "CHILD_BULK_CONFIG")
    /\ UNCHANGED <<hw, fw, g, t, dev, fs>>

-----------------------------------------------------------------------------
(* Cleanup, and the sessions.                                              *)

\* The Links that k entries, queued from position i on, have passed.
Wraps(i, k) == (i + k) \div Link

\* pi4_usb_live_start: LiveChecks turns of a No-op and a read of block 0,
\* then the file again; all rings must have wrapped.
LiveStarts ==
    /\ Accessible(TRUE) /\ deq["cmd"] = 252
    /\ deq["in"] = 2 + 2 * fs.n /\ deq["out"] = 1 + fs.n
    /\ Wraps(252, LiveChecks) >= 2
    /\ Wraps(deq["in"], 2 * LiveChecks) >= 2
    /\ Wraps(deq["out"], LiveChecks) >= 1
    /\ 4 * LiveChecks >= 1024

Cleanup ==
    /\ pc = "cleanup" /\ UNCHANGED <<hw, fw, dev, deq, fs>>
    /\ \/ /\ g.session # "none" /\ Goto("session") /\ UNCHANGED <<code, g, t>>
       \/ /\ g.session = "none" /\ code = <<"ROOT_FILE", "PASS">>
          /\ \/ /\ LiveStarts /\ Fail("session", <<"LIVE", "PASS">>)
                /\ g' = [g EXCEPT !.session = "live"]
                /\ t' = [t EXCEPT !.inval = SkippedPrefix(@)]
             \/ /\ ~hw.good \/ ~LiveStarts
                /\ Fail("halt", <<"LIVE", "BAD">>) /\ UNCHANGED <<g, t>>
       \/ /\ g.session = "none" /\ code # <<"ROOT_FILE", "PASS">>
          /\ Goto(IF t.bmeSet THEN "halt" ELSE "bar2") /\ UNCHANGED <<code, g, t>>


\* The controller is halted before its bus mastering is taken away.
CleanupHalt ==
    /\ pc = "halt" /\ Goto("pci")
    /\ \E ok \in BOOLEAN :
        /\ Halt(ok)
        /\ t' = [t EXCEPT !.ok = ok]
        /\ code' = IF ok THEN code ELSE <<"STOP", "TIMEOUT">>
    /\ UNCHANGED <<fw, g, dev, deq, fs>>

CleanupPci ==
    /\ pc = "pci" /\ Goto("bar2")
    /\ \E ok \in BOOLEAN :
        /\ WriteCommand(t.orig, ok)
        /\ t' = [t EXCEPT !.ok = @ /\ ok]
        /\ code' = IF ok THEN code ELSE <<"PCI_RESTORE", "FAIL">>
        /\ g' = IF ok THEN [g EXCEPT !.cmd = t.orig] ELSE g
    /\ UNCHANGED <<fw, dev, deq, fs>>

\* Mutant: the window goes back although the controller may be running.
QuietAlways(ok) == TRUE

\* The window goes back only behind a halted controller without mastering.
Quiet(ok) == ok

CleanupBar2 ==
    /\ pc = "bar2" /\ Goto("done")
    /\ IF ~t.bar2Set THEN UNCHANGED <<code, hw>>
       ELSE IF ~Quiet(t.ok)
       THEN code' = <<"INBOUND_RESTORE", "FAIL">> /\ UNCHANGED hw
       ELSE \E ok \in BOOLEAN :
              /\ WriteBar2("original", ok)
              /\ code' = IF ok THEN code ELSE <<"INBOUND_RESTORE", "FAIL">>
    /\ UNCHANGED <<fw, g, t, dev, deq, fs>>

PreflightPci ==
    /\ pc = "preflight" /\ Goto("preflight_bar2")
    /\ IF ~t.mseSet THEN UNCHANGED <<code, hw, g>>
       ELSE \E ok \in BOOLEAN :
              /\ WriteCommand(t.orig, ok)
              /\ code' = IF ok THEN code ELSE <<"PCI_RESTORE", "FAIL">>
              /\ g' = IF ok THEN [g EXCEPT !.cmd = t.orig] ELSE g
    /\ UNCHANGED <<fw, t, dev, deq, fs>>

PreflightBar2 ==
    /\ pc = "preflight_bar2" /\ Goto("done")
    /\ IF ~t.bar2Set THEN UNCHANGED <<code, hw>>
       ELSE \E ok \in BOOLEAN :
              /\ WriteBar2("original", ok)
              /\ code' = IF ok THEN code ELSE <<"INBOUND_RESTORE", "FAIL">>
    /\ UNCHANGED <<fw, g, t, dev, deq, fs>>

\* pi4_usb_live_stop, after a fault of the session or from the shell: the
\* session is over, the controller is halted and its mastering taken away.
LiveStopHalt ==
    /\ pc = "session" /\ Goto("stop_pci")
    /\ \E ok \in BOOLEAN : Halt(ok) /\ t' = [t EXCEPT !.ok = ok]
    /\ g' = [g EXCEPT !.session = "none"]
    /\ UNCHANGED <<code, fw, dev, deq, fs>>

LiveStopPci ==
    /\ pc = "stop_pci"
    /\ \E ok \in BOOLEAN :
        /\ WriteCommand(t.orig, ok)
        /\ g' = IF ok THEN [g EXCEPT !.cmd = t.orig] ELSE g
        /\ IF Quiet(ok /\ t.ok) THEN Goto("stop_bar2") /\ UNCHANGED code
           ELSE Fail("done", IF t.ok THEN <<"PCI_RESTORE", "FAIL">>
                             ELSE <<"STOP", "TIMEOUT">>)
    /\ UNCHANGED <<fw, t, dev, deq, fs>>

LiveStopBar2 ==
    /\ pc = "stop_bar2" /\ Goto("done")
    /\ \E ok \in BOOLEAN :
        /\ WriteBar2("original", ok)
        /\ code' = IF ok THEN code ELSE <<"INBOUND_RESTORE", "FAIL">>
    /\ UNCHANGED <<fw, g, t, dev, deq, fs>>

-----------------------------------------------------------------------------
\* The firmware left the controller halted or running, with or without
\* mastering and memory decoding, its own or the OS's; good hardware halted.
Init ==
    /\ \E mse, bme, run, bios, os, good \in BOOLEAN :
        /\ good => ~bme /\ ~run
        /\ hw = [mse |-> mse, bme |-> bme, run |-> run, halted |-> ~run,
                 bios |-> bios, os |-> os, bar2 |-> "original", ptr |-> "fw",
                 good |-> good]
        /\ fw = [mse |-> mse, bme |-> bme]
    /\ pc = "status" /\ code = <<"NOT", "RUN">>
    /\ g = [cfg |-> "NOT_RUN", xhci |-> "NOT_RUN", mask |-> "none",
            cmd |-> [mse |-> FALSE, bme |-> FALSE],
            legacy |-> [bios |-> FALSE, os |-> FALSE],
            cpu |-> "NOT_RUN", session |-> "none"]
    /\ t = [mseSet |-> FALSE, bmeSet |-> FALSE, bar2Set |-> FALSE, ok |-> TRUE,
            orig |-> [mse |-> FALSE, bme |-> FALSE], run |-> FALSE,
            halted |-> FALSE, i |-> 0, inval |-> 1]
    /\ dev = [speed |-> "none", class |-> "none", children |-> 0, kind |-> "none"]
    /\ deq = [r \in Rings |-> 0]
    /\ fs = [n |-> 0, attempt |-> 0, pass |-> 0, spc |-> 1, hop |-> 0,
             sector |-> 0, dir |-> 0]

PreRun ==
    \/ ProbeReadonly \/ ProbeFirstFunction
    \/ CapsEnable \/ CapsRead \/ SnapshotState \/ LegacyHandoff
    \/ LegacyPoll \/ ResetHalted \/ CapsRestore
    \/ CpuCacheProbe \/ NoopGate \/ EnableMse \/ ReadOperational
    \/ WriteAlias \/ ProgramRings \/ ReadbackSetup

Running ==
    \/ EnableBme \/ RunController \/ PortResetProbe \/ MfindexWrapProbe
    \/ EnableSlot \/ AddressDevice \/ DeviceDescriptor \/ ConfigHeader

RootDevice ==
    \/ RootConfigFull \/ RootSetConfig \/ RootGetConfig \/ RootMaxLun
    \/ RootBulkGuard \/ RootBulkConfigure
    \/ InquiryCbw \/ InquiryData \/ InquiryCsw
    \/ ReadCapacity \/ ReadBlock \/ FindVolume \/ ReadBootSector
    \/ ReadRootFat \/ ReadRootDirectory \/ FindFile \/ ReadFileFat \/ ReadFileData

Hub ==
    \/ HubSetConfig \/ HubDescriptor \/ PortPower \/ PowerDelay \/ PortStatus
    \/ StopEndpoint \/ ChildReset \/ ChildResetStatus \/ ChildResetClear
    \/ ChildResetFinal \/ HubGuard \/ HubConfigure \/ BusStart

Child ==
    \/ ChildEnable \/ ChildAddress \/ ChildPrefix \/ ChildRepeat
    \/ ChildPreEvaluate \/ ChildEvaluate \/ ChildGetStatus
    \/ ChildFullDescriptor \/ ChildConfigHeader \/ ChildConfigFull
    \/ ChildSetConfig \/ ChildGetConfig \/ ChildUnsupported
    \/ HidSetProtocol \/ HidGetProtocol \/ HidSetIdle \/ HidGuard \/ HidConfigure
    \/ ChildMaxLun \/ ChildBulkGuard \/ ChildBulkConfigure

Finish ==
    \/ Cleanup \/ CleanupHalt \/ CleanupPci \/ CleanupBar2
    \/ PreflightPci \/ PreflightBar2
    \/ LiveStopHalt \/ LiveStopPci \/ LiveStopBar2

Probe == PreRun \/ Running \/ RootDevice \/ Hub \/ Child \/ Finish

Next == Probe \/ FirmwareReleases \/ HaltsLate

\* The boot processor runs the probe to its end; every wait in it is bounded.
\* Only the firmware of good hardware is sure to give the controller up.
Spec == /\ Init /\ [][Next]_vars
        /\ WF_vars(Probe) /\ WF_vars(hw.good /\ FirmwareReleases)

-----------------------------------------------------------------------------
(* Properties.                                                             *)

\* Before the controller is claimed, and until the gate is passed.
Unclaimed == {"status", "first", "caps", "caps_read", "snapshot", "handoff",
              "poll", "reset"}
Decoding == {"caps_read", "snapshot", "handoff", "poll", "reset", "caps_restore"}
PreGate == Unclaimed \cup {"caps_restore", "cpu", "gate"}

\* From the gate until bus mastering is granted.
Setup == {"mse", "op", "alias", "program", "readback", "bme",
          "preflight", "preflight_bar2"}

\* The enumeration, from the run of the controller until its outcome is known.
Enumeration ==
    {"port", "wrap", "enable_slot", "address", "device", "config",
     "root_config", "root_set", "root_get", "root_lun", "root_guard",
     "root_bulk", "inq_cbw", "inq_data", "inq_csw", "capacity", "block",
     "volume", "boot", "root_fat", "root_dir", "find", "file_fat",
     "file_data", "hub_config", "hub_desc", "power", "power_wait",
     "port_status", "stop_endpoint", "child_reset", "reset_status",
     "reset_clear", "reset_final", "hub_guard", "hub_context", "bus",
     "child_enable", "child_address", "prefix", "repeat", "pre_config",
     "evaluate", "get_status", "full", "header", "config_full", "set_config",
     "get_config", "max_lun", "unsupported", "hid_protocol", "hid_get",
     "hid_idle", "hid_guard", "hid_configure", "bulk_guard",
     "bulk_configure", "cleanup"}

Live == Enumeration \cup {"run", "halt", "session", "pci", "stop_pci", "bar2",
                          "stop_bar2"}

Places == PreGate \cup Setup \cup Live \cup {"done"}

\* The types of the registers, of the globals and of the probe's locals.
Word == [mse : BOOLEAN, bme : BOOLEAN]

Hardware == [mse : BOOLEAN, bme : BOOLEAN, run : BOOLEAN, halted : BOOLEAN,
             bios : BOOLEAN, os : BOOLEAN, bar2 : {"original", "alias"},
             ptr : {"fw", "none", "ours"}, good : BOOLEAN]

Globals ==
    [cfg : {"NOT_RUN", "FDT_SKIP", "MAP_FAIL", "STATUS_FAIL", "READ_OK",
            "NOT_LINKED", "MMIO_FAIL", "NO_DEVICE"},
     xhci : {"NOT_RUN", "BAD_BAR", "MAP_FAIL", "CMD_FAIL", "CFG_FAIL", "CAPS_OK",
             "MMIO_FAIL", "CAPS_INVALID", "RESTORE_FAIL"},
     mask : {"none", "READ_FAIL", "NO_LEGACY", "HANDOFF_UNSAFE", "HANDOFF_FAIL",
             "HANDOFF_OK", "HANDOFF_TIMEOUT", "RESET_FAIL", "RESET_UNSAFE",
             "RESET_OK", "RESET_TIMEOUT"},
     cmd : Word, legacy : [bios : BOOLEAN, os : BOOLEAN],
     cpu : {"NOT_RUN", "RESET_REQUIRED", "PASS", "FAIL"},
     session : {"none", "live", "keyboard", "bus"}]

Locals == [mseSet : BOOLEAN, bmeSet : BOOLEAN, bar2Set : BOOLEAN, ok : BOOLEAN,
           orig : Word, run : BOOLEAN, halted : BOOLEAN, i : 0 .. 3, inval : Nat]

Found == [speed : {"none", "high", "super"}, class : {"none", "hub", "other"},
          children : 0 .. 2, kind : {"none", "storage", "keyboard", "mouse"}]

Scan == [n : 0 .. BotCommands, attempt : 0 .. 2, pass : 0 .. 1, spc : Nat \ {0},
         hop : Nat, sector : Nat, dir : 0 .. SectorLimit]

\* The second component of a state code.
Failures == {"BAD", "TIMEOUT", "FAIL", "GATE"}
Results == Failures \cup
    {"RUN", "PASS", "READY", "SKIP_PORT", "NO_BOT", "UNSUPPORTED", "MISSING",
     "INPUT_ONLY", "STORAGE_PENDING", "NO_CONNECTED", "PORT_NOT_READY",
     "SPEED_MISMATCH"}

TypeOK ==
    /\ pc \in Places /\ code[2] \in Results
    /\ hw \in Hardware /\ fw \in Word /\ g \in Globals /\ t \in Locals
    /\ deq \in [Rings -> 0 .. Link - 1] /\ fs \in Scan /\ dev \in Found

\* What a probe says that could not put the hardware back.
Reported ==
    \/ code \in {<<"STOP", "TIMEOUT">>, <<"PCI_RESTORE", "FAIL">>,
                 <<"INBOUND_RESTORE", "FAIL">>}
    \/ g.xhci = "RESTORE_FAIL"

\* The DMA addresses that a running, mastering controller uses are translated
\* by the window they were made for: our rings by the alias, the firmware's by
\* the original window.  No order of aborted writes in the preflight, in the
\* cleanup (kernel_stub.c:8018) or in pi4_usb_live_stop breaks this.
TranslationMatches ==
    hw.bme /\ ~hw.halted => ((hw.bar2 = "alias") <=> (hw.ptr = "ours"))

\* When the probe or a session is over, the PCI command word and the inbound
\* window are as the firmware left them and g_pi4_cfg_command agrees with the
\* hardware, or the state code says that they are not.
RestoredOrReported ==
    pc = "done" /\ ~Reported =>
        /\ Command = fw /\ hw.bar2 = "original"
        /\ g.cfg = "READ_OK" => g.cmd = Command

\* On hardware that never fails the probe never ends in a failure: every
\* transfer is published where the controller looks for it, on every path
\* through the rings, and the storage commands, the largest root directory
\* and test file included, fit in the command table.
GoodHardwareEnumerates ==
    /\ TypeOK
    /\ hw.good /\ pc \in {"done", "session"} =>
           code[2] \notin Failures

\* The controller is claimed from the firmware and reset only when it is
\* halted and not mastering, whatever state the firmware left it in.
ClaimedQuietly ==
    [][hw'.os # hw.os \/ (hw.ptr = "fw" /\ hw'.ptr # "fw")
         => hw.halted /\ ~hw.run /\ ~hw.bme]_vars

\* The boot probe ends, with a session or without, whatever the hardware does.
ProbeEnds == <>(pc \in {"done", "session"})
=============================================================================
