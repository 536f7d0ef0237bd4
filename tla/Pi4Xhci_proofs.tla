---------------------------- MODULE Pi4Xhci_proofs ----------------------------
(***************************************************************************)
(* Proofs about the Raspberry Pi 4 boot probe (Pi4Xhci): what it may do to *)
(* the controller on any hardware, and how it ends on hardware that never  *)
(* fails.                                                                  *)
(*                                                                         *)
(* The first invariant (SafeInv) says, for each place of the probe, what   *)
(* of the PCI command word, the inbound window and the DMA pointers is     *)
(* known, and which of the flags that guard the undoing of a write cover   *)
(* what is not known.  The second (GoodInv) gives the position of every    *)
(* ring at every place of the enumeration, and a bound on the number of    *)
(* storage commands that the scan of the volume has used.                  *)
(***************************************************************************)
EXTENDS Pi4Xhci, TLAPS

-----------------------------------------------------------------------------
(* What is known of the hardware at each place.                            *)

Typed ==
    /\ pc \in Places /\ code[2] \in Results
    /\ hw \in Hardware /\ fw \in Word /\ g \in Globals /\ t \in Locals

\* The command word is the firmware's, and g_pi4_cfg_command says so.
AsFound == Command = fw /\ g.cmd = fw

PreGateInv ==
    /\ pc \in PreGate => /\ hw.bar2 = "original" /\ hw.ptr # "ours"
                         /\ ~t.bar2Set /\ ~t.bmeSet
    /\ pc \in Unclaimed => hw.ptr = "fw" /\ g.mask # "RESET_OK"
    /\ pc \in {"status", "first"} => Command = fw /\ g.cfg # "READ_OK" /\ ~t.mseSet
    /\ pc = "caps" => AsFound /\ ~t.mseSet
    /\ pc \in Decoding => /\ g.cmd = fw /\ ~fw.bme /\ ~hw.bme
                          /\ ~t.mseSet => AsFound
    /\ pc = "handoff" => (~t.run => ~hw.run) /\ (t.halted => hw.halted)
    /\ pc \in {"cpu", "gate"} => /\ g.xhci # "RESTORE_FAIL" => Command = fw
                                 /\ g.cfg = "READ_OK" => g.cmd = fw
                                 /\ ~t.mseSet
    /\ pc \in {"caps_restore", "cpu", "gate"} =>
           (g.mask = "RESET_OK" => hw.ptr = "none" /\ hw.halted /\ ~hw.run)

SetupInv ==
    /\ pc \in Setup => /\ t.orig = fw /\ ~fw.bme /\ ~hw.bme
                       /\ hw.halted /\ ~hw.run /\ hw.ptr # "fw"
    /\ pc = "mse" => AsFound
    /\ pc \in Setup \ {"preflight_bar2"} => (~t.mseSet => AsFound)
    /\ pc \in {"mse", "op", "alias"} => hw.bar2 = "original" /\ ~t.bar2Set
    /\ pc \in {"program", "readback", "bme"} => hw.bar2 = "alias" /\ t.bar2Set
    /\ pc \in {"readback", "bme"} => hw.ptr = "ours"
    /\ pc \in {"preflight", "preflight_bar2"} => (~t.bar2Set => hw.bar2 = "original")
    /\ pc = "preflight_bar2" => Reported \/ AsFound

LiveInv ==
    /\ pc \in Live => /\ hw.bar2 = "alias" /\ hw.ptr = "ours"
                      /\ t.orig = fw /\ ~fw.bme /\ t.bar2Set /\ t.bmeSet
    /\ pc \in {"pci", "stop_pci", "bar2"} => (t.ok => hw.halted)
    /\ pc = "bar2" => (t.ok => AsFound)
    /\ pc = "stop_bar2" => AsFound /\ hw.halted

DoneInv == pc = "done" => RestoredOrReported /\ TranslationMatches

\* The inductive invariant of the probe on any hardware.
SafeInv == Typed /\ PreGateInv /\ SetupInv /\ LiveInv /\ DoneInv

-----------------------------------------------------------------------------
(* Hardware that never fails.                                              *)

\* The sizes for which the theorem about good hardware is stated: the table
\* holds the longest scan and its rings end before their Links, and the wrap
\* test of the session is long enough.  The code has 32 and 272.
Sized == BotCommands \in 32 .. 126 /\ LiveChecks \in Nat /\ LiveChecks >= 258

RingsTyped ==
    /\ deq \in [Rings -> 0 .. Link - 1] /\ fs \in Scan /\ dev \in Found

\* The positions of the command ring, of the control rings of the root device
\* and of the child.
At(c, e, k) == deq["cmd"] = c /\ deq["ep0"] = e /\ deq["child"] = k

\* The positions of the storage rings after n commands.
Bulk(n) == deq["out"] = 1 + n /\ deq["in"] = 2 + 2 * n

\* The probe up to the running controller.
GoodStart ==
    /\ pc \in {"caps_read", "snapshot", "handoff", "poll", "reset", "op", "alias",
               "program", "readback", "bme"} \cup (Live \ {"bar2", "stop_pci", "stop_bar2"})
         => hw.mse
    /\ pc \in Unclaimed => hw.halted /\ ~hw.run /\ ~fw.bme
    /\ pc \in {"snapshot", "handoff", "poll", "reset", "caps_restore", "cpu", "gate"}
         => g.xhci = "CAPS_OK"
    /\ pc \in {"poll", "reset"} => hw.os
    /\ pc = "handoff" => ~t.run /\ t.halted
    /\ pc = "reset" => ~g.legacy.bios /\ g.legacy.os
    /\ pc \in {"caps_restore", "cpu", "gate"} => g.mask = "RESET_OK" /\ ~g.cmd.bme
    /\ pc \in PreGate \ {"status", "first"} => g.cfg = "READ_OK"
    /\ pc = "gate" => g.cpu = "PASS"
    /\ pc \notin {"preflight", "preflight_bar2", "stop_endpoint"}
    /\ pc \in PreGate \cup {"mse", "op", "alias", "program"} =>
          fs.n = 0 /\ fs.pass = 0 /\ fs.hop = 0 /\ fs.dir = 0 /\ t.i = 0

\* The positions at which the next transfer of each place is published.
GoodRoot ==
    /\ pc \in {"readback", "bme", "run", "port", "wrap", "enable_slot"} => At(248, 0, 0)
    /\ pc = "address" => At(249, 0, 0)
    /\ pc = "device" => At(250, 0, 0)
    /\ pc = "config" => At(250, 3, 0)
    /\ pc = "root_config" => At(250, 6, 0)
    /\ pc = "root_set" => At(250, 9, 0)
    /\ pc = "root_get" => At(250, 11, 0)
    /\ pc = "root_lun" => At(250, 14, 0)
    /\ pc = "root_guard" => At(250, 17, 0)
    /\ pc = "root_bulk" => At(251, 17, 0)
    /\ pc \in {"inq_cbw", "inq_data", "inq_csw"} => At(252, 17, 0)

GoodHub ==
    /\ pc = "hub_config" => At(250, 6, 0)
    /\ pc = "hub_desc" => At(250, 8, 0)
    /\ pc = "power" => At(250, PowerIndex(t.i), 0)
    /\ pc = "power_wait" => At(250, 19, 0)
    /\ pc = "port_status" => At(250, StatusIndex(4, t.i), 0)
    /\ pc = "child_reset" => At(250, 31, 0)
    /\ pc = "reset_status" => At(250, 33, 0)
    /\ pc = "reset_clear" => At(250, 36, 0)
    /\ pc = "reset_final" => At(250, 38, 0)
    /\ pc = "hub_guard" => At(250, 41, 0)
    /\ pc = "hub_context" => At(251, 41, 0)
    /\ pc \in {"bus", "child_enable"} => At(252, 41, 0)
    /\ pc \in {"readback", "bme", "run", "port", "wrap", "enable_slot", "address",
               "device", "config", "hub_config", "hub_desc", "power_wait"} => t.i = 0

GoodChild ==
    /\ pc = "child_address" => At(253, 41, 0)
    /\ pc = "prefix" => At(254, 41, 0)
    /\ pc = "repeat" => At(254, 41, 3)
    /\ pc = "pre_config" => At(254, 41, 6)
    /\ pc = "evaluate" => At(254, 41, 9)
    /\ pc = "get_status" => At(0, 41, 9)
    /\ pc = "full" => At(0, 41, 12)
    /\ pc = "header" => At(0, 41, 15)
    /\ pc = "config_full" => At(0, 41, 18)
    /\ pc = "set_config" => At(0, 41, 21)
    /\ pc = "get_config" => At(0, 41, 23)
    /\ pc \in {"max_lun", "unsupported", "hid_protocol"} => At(0, 41, 26)
    /\ pc = "hid_get" => At(0, 41, 28)
    /\ pc = "hid_idle" => At(0, 41, 31)
    /\ pc \in {"hid_guard", "bulk_guard"} => deq["cmd"] = 0
    /\ pc \in {"hid_configure", "bulk_configure"} => deq["cmd"] = 1

Storage == {"capacity", "block", "volume", "boot", "root_fat", "root_dir", "find",
            "file_fat", "file_data"}

\* Where the bulk rings stand, and how many commands the scan has needed: one
\* for the capacity, two for block 0, one for the boot sector, one for each
\* sector of the root directory and for each of its clusters, and two for
\* each sector of the file in each of two passes.
GoodScan ==
    /\ pc \in {"readback", "bme", "run", "port", "wrap", "enable_slot", "address",
               "device", "config", "root_config", "root_set", "root_get",
               "root_lun", "root_guard", "root_bulk", "inq_cbw", "inq_data",
               "inq_csw", "capacity"} =>
          fs.n = 0 /\ fs.pass = 0 /\ fs.hop = 0 /\ fs.dir = 0
    /\ pc \in {"readback", "bme", "run", "port", "wrap", "enable_slot", "address",
               "device", "config", "root_config", "root_set", "root_get",
               "root_lun", "root_guard", "root_bulk", "inq_cbw"} =>
          deq["out"] = 0 /\ deq["in"] = 0
    /\ pc = "inq_data" => deq["out"] = 1 /\ deq["in"] = 0
    /\ pc = "inq_csw" => deq["out"] = 1 /\ deq["in"] = 1
    /\ pc \in Storage \/ (pc = "cleanup" /\ code = <<"ROOT_FILE", "PASS">>)
         => deq["cmd"] = 252 /\ Bulk(fs.n)
    /\ pc \in {"block", "volume", "boot"} => fs.hop = 0 /\ fs.dir = 0
    /\ pc = "block" => fs.n = 1 + fs.pass
    /\ pc \in {"volume", "boot"} => fs.n = 3 /\ fs.pass = 0
    /\ pc = "root_fat" => fs.n <= 4 + fs.dir + fs.hop /\ fs.hop <= 7 /\ fs.pass = 0
    /\ pc = "root_dir" => fs.n <= 5 + fs.dir + fs.hop /\ fs.hop <= 7 /\ fs.pass = 0
    /\ pc = "find" => fs.n <= 20 /\ fs.hop = 0 /\ fs.pass = 0
    /\ pc = "file_fat" => fs.n <= 20 + 6 * fs.pass + 2 * fs.hop /\ fs.hop <= 2
    /\ pc = "file_data" => fs.n <= 21 + 6 * fs.pass + 2 * fs.hop /\ fs.hop <= 2

GoodInv ==
    hw.good => /\ code[2] \notin Failures
               /\ pc \in {"pci", "bar2", "stop_pci", "stop_bar2"} => t.ok
               /\ GoodStart /\ GoodRoot /\ GoodHub /\ GoodChild /\ GoodScan

-----------------------------------------------------------------------------
(* Register writes.                                                        *)

\* The fields of a command word.
LEMMA Words ==
    /\ \A h \in Hardware, w \in Word :
         ([mse |-> h.mse, bme |-> h.bme] = w) <=> ((h.mse <=> w.mse) /\ (h.bme <=> w.bme))
    /\ \A w \in Word : w.mse \in BOOLEAN /\ w.bme \in BOOLEAN
    /\ \A a, b \in BOOLEAN : /\ [mse |-> a, bme |-> b] \in Word
                             /\ [mse |-> a, bme |-> b].mse = a
                             /\ [mse |-> a, bme |-> b].bme = b
BY DEF Word, Hardware

\* What a write of the command word leaves alone.
BesideCommand(h, k) ==
    /\ h \in Hardware /\ k \in Hardware
    /\ h.run = k.run /\ h.halted = k.halted /\ h.bios = k.bios /\ h.os = k.os
    /\ h.bar2 = k.bar2 /\ h.ptr = k.ptr /\ h.good = k.good

\* What a change of the legacy ownership leaves alone.
BesideOwner(h, k) ==
    /\ h \in Hardware /\ k \in Hardware
    /\ h.run = k.run /\ h.halted = k.halted /\ h.mse = k.mse /\ h.bme = k.bme
    /\ h.bar2 = k.bar2 /\ h.ptr = k.ptr /\ h.good = k.good

\* What a write of the inbound window leaves alone.
BesideBar2(h, k) ==
    /\ h \in Hardware /\ k \in Hardware
    /\ h.run = k.run /\ h.halted = k.halted /\ h.bios = k.bios /\ h.os = k.os
    /\ h.mse = k.mse /\ h.bme = k.bme /\ h.ptr = k.ptr /\ h.good = k.good

LEMMA CommandWritten ==
  ASSUME hw \in Hardware, NEW c \in Word, NEW ok \in BOOLEAN, WriteCommand(c, ok)
  PROVE  /\ BesideCommand(hw', hw)
         /\ ok => hw'.mse = c.mse /\ hw'.bme = c.bme
         /\ \/ hw'.mse = c.mse /\ hw'.bme = c.bme
            \/ hw'.mse = hw.mse /\ hw'.bme = hw.bme
         /\ hw.good => ok
<1>1. PICK landed \in BOOLEAN :
        /\ ok => landed
        /\ hw' = IF landed THEN [hw EXCEPT !.mse = c.mse, !.bme = c.bme] ELSE hw
  BY DEF WriteCommand
<1>2. c.mse \in BOOLEAN /\ c.bme \in BOOLEAN
  BY DEF Word
<1>3. QED
  BY <1>1, <1>2 DEF Hardware, BesideCommand, WriteCommand

LEMMA Bar2Written ==
  ASSUME hw \in Hardware, NEW v \in {"original", "alias"}, NEW ok \in BOOLEAN,
         WriteBar2(v, ok)
  PROVE  /\ BesideBar2(hw', hw)
         /\ ok => hw'.bar2 = v
         /\ hw'.bar2 \in {v, hw.bar2}
         /\ hw.good => ok
<1>1. PICK landed \in BOOLEAN :
        /\ ok => landed
        /\ hw' = IF landed THEN [hw EXCEPT !.bar2 = v] ELSE hw
  BY DEF WriteBar2
<1>2. QED
  BY <1>1 DEF Hardware, BesideBar2, WriteBar2

LEMMA Halted ==
  ASSUME hw \in Hardware, NEW ok \in BOOLEAN, Halt(ok)
  PROVE  /\ hw' \in Hardware
         /\ hw'.mse = hw.mse /\ hw'.bme = hw.bme /\ hw'.bar2 = hw.bar2
         /\ hw'.ptr = hw.ptr /\ hw'.os = hw.os /\ hw'.good = hw.good
         /\ ok => hw'.halted
         /\ hw.good /\ hw.mse => ok
<1>1. PICK landed, stopped \in BOOLEAN :
        /\ ok => landed /\ stopped
        /\ hw' = [hw EXCEPT !.run = @ /\ ~landed, !.halted = @ \/ stopped]
  BY DEF Halt
<1> DEFINE r == hw.run /\ ~landed
           s == hw.halted \/ stopped
<1>2. r \in BOOLEAN /\ s \in BOOLEAN /\ (ok => s)
  BY <1>1
<1>3. hw' = [hw EXCEPT !.run = r, !.halted = s]
  BY <1>1
<1> HIDE DEF r, s
<1>4. QED
  BY <1>2, <1>3 DEF Hardware, Halt, Accessible

-----------------------------------------------------------------------------
(* Any hardware.                                                           *)

LEMMA InitSafe == Init => SafeInv
<1> SUFFICES ASSUME Init PROVE SafeInv
  OBVIOUS
<1>1. Typed
  <2>1. pc \in Places /\ code[2] \in Results
    BY DEF Init, Places, PreGate, Unclaimed, Results
  <2>2. hw \in Hardware /\ fw \in Word
    BY DEF Init, Hardware, Word
  <2>3. g \in Globals
    BY DEF Init, Word, Globals
  <2>4. t \in Locals
    BY DEF Init, Word, Locals
  <2>5. QED
    BY <2>1, <2>2, <2>3, <2>4 DEF Typed
<1>2. pc = "status" /\ Command = fw /\ hw.bar2 = "original" /\ hw.ptr = "fw"
      /\ g.mask = "none" /\ g.cfg = "NOT_RUN" /\ ~t.mseSet /\ ~t.bar2Set /\ ~t.bmeSet
  BY DEF Init, Command
<1>3. QED
  BY <1>1, <1>2 DEF SafeInv, Places, PreGate, Unclaimed, Decoding, Setup, Live,
     Enumeration, PreGateInv, SetupInv, LiveInv, DoneInv

LEMMA ReadonlySafe == SafeInv /\ ProbeReadonly => SafeInv'
<1> SUFFICES ASSUME SafeInv, ProbeReadonly PROVE SafeInv'
  OBVIOUS
<1>1. pc = "status" /\ UNCHANGED <<code, hw, fw, t>>
      /\ g' \in Globals /\ g'.mask = g.mask
      /\ \/ pc' = "first" /\ g' = g
         \/ pc' = "cpu" /\ g'.cfg # "READ_OK"
  BY DEF SafeInv, Typed, Globals, ProbeReadonly, Goto
<1>2. QED
  BY <1>1 DEF SafeInv, Typed, PreGateInv, SetupInv, LiveInv, DoneInv, AsFound, Command,
     Places, PreGate, Unclaimed, Decoding, Setup, Live, Enumeration

LEMMA FirstFunctionSafe == SafeInv /\ ProbeFirstFunction => SafeInv'
<1> SUFFICES ASSUME SafeInv, ProbeFirstFunction PROVE SafeInv'
  OBVIOUS
<1>1. PICK c \in Word : c = Command
  BY DEF SafeInv, Typed, Hardware, Word, Command
<1>2. pc = "first" /\ UNCHANGED <<code, hw, fw, t>>
      /\ g' \in Globals /\ g'.mask = g.mask
      /\ \/ pc' = "caps" /\ g'.cmd = Command
         \/ pc' = "cpu" /\ g'.cfg # "READ_OK"
  BY <1>1 DEF SafeInv, Typed, Globals, ProbeFirstFunction, Goto
<1>3. QED
  BY <1>2 DEF SafeInv, Typed, PreGateInv, SetupInv, LiveInv, DoneInv, AsFound, Command,
     Places, PreGate, Unclaimed, Decoding, Setup, Live, Enumeration

LEMMA CapsEnableSafe == SafeInv /\ CapsEnable => SafeInv'
<1> SUFFICES ASSUME SafeInv, CapsEnable PROVE SafeInv'
  OBVIOUS
<1>1. pc = "caps" /\ UNCHANGED <<code, fw>> /\ AsFound /\ Typed
  BY DEF SafeInv, CapsEnable, PreGateInv
<1>2. /\ g' \in Globals /\ g'.mask = g.mask /\ g'.cmd = g.cmd
      /\ pc' \in {"cpu", "caps_read", "caps_restore"}
      /\ pc' = "cpu" => g'.xhci # "RESTORE_FAIL" /\ g'.cfg = g.cfg
  BY <1>1 DEF Typed, Globals, CapsEnable, Goto
<1>3. CASE pc' = "cpu"
  <2>1. UNCHANGED <<hw, t>>
    BY <1>1, <1>3 DEF CapsEnable, Goto
  <2>2. ~t.mseSet
    BY <1>1 DEF SafeInv, PreGateInv
  <2>3. QED
    BY <1>1, <1>2, <1>3, <2>1, <2>2 DEF SafeInv, Typed, PreGateInv, SetupInv, LiveInv, DoneInv, AsFound, Command,
     Places, PreGate, Unclaimed, Decoding, Setup, Live, Enumeration
<1>4. CASE pc' # "cpu"
  <2>1. ~g.cmd.bme /\ pc' \in {"caps_read", "caps_restore"}
    BY <1>1, <1>2, <1>4 DEF CapsEnable, Goto, MemoryCommand
  <2>2. PICK ok \in BOOLEAN :
              /\ t' = [t EXCEPT !.mseSet = ~g.cmd.mse /\ MayBeSet(ok)]
              /\ IF g.cmd.mse THEN (hw.good => ok) /\ UNCHANGED hw
                 ELSE WriteCommand([mse |-> TRUE, bme |-> FALSE], ok)
    BY <1>1, <1>4 DEF CapsEnable, Goto
  <2>3. t' \in Locals /\ t'.bar2Set = t.bar2Set /\ t'.bmeSet = t.bmeSet
        /\ t'.mseSet = ~g.cmd.mse
    <3>1. PICK b \in BOOLEAN : b = ~g.cmd.mse
      OBVIOUS
    <3>2. t' = [t EXCEPT !.mseSet = b]
      BY <2>2, <3>1 DEF MayBeSet
    <3>3. QED
      BY <1>1, <3>1, <3>2 DEF Typed, Locals
  <2>4. g.cmd = fw /\ hw.mse = fw.mse /\ hw.bme = fw.bme /\ hw \in Hardware /\ fw \in Word
    BY <1>1, Words DEF AsFound, Command, Typed
  <2>5. /\ hw' \in Hardware /\ hw'.bar2 = hw.bar2 /\ hw'.ptr = hw.ptr /\ ~hw'.bme
        /\ ~t'.mseSet => hw'.mse = fw.mse
    <3>1. CASE g.cmd.mse
      BY <2>1, <2>2, <2>4, <3>1
    <3>2. CASE ~g.cmd.mse
      <4>1. [mse |-> TRUE, bme |-> FALSE] \in Word
        BY Words
      <4>2. PICK c \in Word : c = [mse |-> TRUE, bme |-> FALSE]
        BY <4>1
      <4>3. c.bme = FALSE
        BY <4>2
      <4>4. WriteCommand(c, ok)
        BY <2>2, <3>2, <4>2
      <4>5. QED
        BY <2>1, <2>3, <2>4, <3>2, <4>3, <4>4, CommandWritten DEF BesideCommand
    <3>3. QED
      BY <3>1, <3>2
  <2>6. ~t'.mseSet => Command' = fw
    BY <2>1, <2>4, <2>5, Words DEF Command
  <2>7. QED
    BY <1>1, <1>2, <2>1, <2>3, <2>4, <2>5, <2>6 DEF SafeInv, Typed, PreGateInv, SetupInv,
       LiveInv, DoneInv, AsFound, Places, PreGate, Unclaimed, Decoding, Setup, Live, Enumeration
<1>5. QED
  BY <1>3, <1>4

LEMMA CapsReadSafe == SafeInv /\ CapsRead => SafeInv'
<1> SUFFICES ASSUME SafeInv, CapsRead PROVE SafeInv'
  OBVIOUS
<1>1. pc = "caps_read" /\ UNCHANGED <<code, hw, fw, t>>
      /\ pc' \in {"snapshot", "caps_restore"}
      /\ g' \in Globals /\ g'.mask = g.mask /\ g'.cmd = g.cmd
  BY DEF SafeInv, Typed, Globals, CapsRead, Goto
<1>2. QED
  BY <1>1 DEF SafeInv, Typed, PreGateInv, SetupInv, LiveInv, DoneInv, AsFound, Command,
     Places, PreGate, Unclaimed, Decoding, Setup, Live, Enumeration

LEMMA SnapshotSafe == SafeInv /\ SnapshotState => SafeInv'
<1> SUFFICES ASSUME SafeInv, SnapshotState PROVE SafeInv'
  OBVIOUS
<1>1. pc = "snapshot" /\ UNCHANGED <<code, hw, fw>>
      /\ pc' \in {"handoff", "caps_restore"}
      /\ g' \in Globals /\ g'.mask # "RESET_OK" /\ g'.cmd = g.cmd
  BY ZenonT(60) DEF SafeInv, Typed, Globals, SnapshotState, Goto, PreGateInv, Unclaimed
<1>2. t' \in Locals /\ t'.bar2Set = t.bar2Set /\ t'.bmeSet = t.bmeSet
      /\ t'.mseSet = t.mseSet
      /\ (pc' = "handoff" => t'.run = hw.run /\ t'.halted = hw.halted)
  BY DEF SafeInv, Typed, Locals, Hardware, SnapshotState, Goto
<1>3. Typed'
  BY <1>1, <1>2 DEF SafeInv, Typed, Places, PreGate, Unclaimed
<1>4. /\ hw.bar2 = "original" /\ hw.ptr = "fw" /\ ~t.bar2Set /\ ~t.bmeSet
      /\ g.cmd = fw /\ ~fw.bme /\ ~hw.bme /\ (~t.mseSet => AsFound)
  BY <1>1 DEF SafeInv, PreGateInv, PreGate, Unclaimed, Decoding
<1>5. ~t'.mseSet => AsFound'
  BY <1>1, <1>2, <1>4 DEF AsFound, Command
<1>6. PreGateInv'
  BY <1>1, <1>2, <1>4, <1>5 DEF PreGateInv, PreGate, Unclaimed, Decoding
<1>7. QED
  BY <1>1, <1>3, <1>6 DEF SafeInv, SetupInv, LiveInv, DoneInv, Setup, Live, Enumeration

LEMMA HandoffSafeStep == SafeInv /\ LegacyHandoff => SafeInv'
<1> SUFFICES ASSUME SafeInv, LegacyHandoff PROVE SafeInv'
  OBVIOUS
<1>1. pc = "handoff" /\ UNCHANGED <<code, fw, t>>
      /\ pc' \in {"poll", "caps_restore"}
  BY DEF LegacyHandoff, Goto
<1>2. g' \in Globals /\ g'.mask # "RESET_OK" /\ g'.cmd = g.cmd
  <2>1. PICK l \in [bios : BOOLEAN, os : BOOLEAN] : l = [bios |-> hw.bios, os |-> hw.os]
    BY DEF SafeInv, Typed, Hardware
  <2>2. g.mask # "RESET_OK" /\ g \in Globals
    BY <1>1 DEF SafeInv, Typed, PreGateInv, Unclaimed
  <2>3. \/ g' = [g EXCEPT !.mask = "HANDOFF_UNSAFE", !.legacy = l]
        \/ g' = g
        \/ g' = [g EXCEPT !.mask = "HANDOFF_FAIL"]
    BY <2>1 DEF LegacyHandoff
  <2>4. QED
    BY <2>2, <2>3, ZenonT(60) DEF Globals
<1>3. \E o \in BOOLEAN : hw' = [hw EXCEPT !.os = o]
  <2>1. CASE UNCHANGED hw
    BY <2>1 DEF SafeInv, Typed, Hardware
  <2>2. CASE hw' = [hw EXCEPT !.os = TRUE]
    BY <2>2
  <2>3. CASE \E landed \in BOOLEAN : hw' = [hw EXCEPT !.os = @ \/ landed]
    <3>1. PICK landed \in BOOLEAN : hw' = [hw EXCEPT !.os = @ \/ landed]
      BY <2>3
    <3> DEFINE o == hw.os \/ landed
    <3>2. o \in BOOLEAN /\ hw' = [hw EXCEPT !.os = o]
      BY <3>1
    <3> HIDE DEF o
    <3>3. QED
      BY <3>2
  <2>4. QED
    BY <2>1, <2>2, <2>3 DEF LegacyHandoff
<1>4. BesideOwner(hw', hw)
  BY <1>3 DEF SafeInv, Typed, Hardware, BesideOwner
<1>5. QED
  BY <1>1, <1>2, <1>4 DEF BesideOwner, SafeInv, Typed, PreGateInv, SetupInv, LiveInv, DoneInv, AsFound, Command,
     Places, PreGate, Unclaimed, Decoding, Setup, Live, Enumeration

LEMMA PollSafe == SafeInv /\ LegacyPoll => SafeInv'
<1> SUFFICES ASSUME SafeInv, LegacyPoll PROVE SafeInv'
  OBVIOUS
<1>1. pc = "poll" /\ UNCHANGED <<code, hw, fw, t>>
      /\ pc' \in {"reset", "caps_restore"}
  BY DEF LegacyPoll, Goto
<1>2. g' \in Globals /\ g'.mask # "RESET_OK" /\ g'.cmd = g.cmd
  <2>1. /\ [bios |-> FALSE, os |-> hw.os] \in [bios : BOOLEAN, os : BOOLEAN]
        /\ [bios |-> TRUE, os |-> hw.os] \in [bios : BOOLEAN, os : BOOLEAN]
    BY DEF SafeInv, Typed, Hardware
  <2>2. PICK l \in [bios : BOOLEAN, os : BOOLEAN], m \in {"HANDOFF_OK", "HANDOFF_TIMEOUT"} :
             \/ g' = [g EXCEPT !.mask = m, !.legacy = l]
             \/ g' = [g EXCEPT !.mask = "HANDOFF_FAIL"]
    BY <2>1 DEF LegacyPoll
  <2>3. QED
    BY <2>2 DEF SafeInv, Typed, Globals
<1>3. QED
  BY <1>1, <1>2 DEF SafeInv, Typed, PreGateInv, SetupInv, LiveInv, DoneInv, AsFound, Command,
     Places, PreGate, Unclaimed, Decoding, Setup, Live, Enumeration

LEMMA ReleaseSafe == SafeInv /\ FirmwareReleases => SafeInv'
<1> SUFFICES ASSUME SafeInv, FirmwareReleases PROVE SafeInv'
  OBVIOUS
<1>1. pc = "poll" /\ UNCHANGED <<pc, code, fw, g, t>>
  BY DEF FirmwareReleases
<1>2. BesideOwner(hw', hw)
  BY DEF SafeInv, Typed, Hardware, BesideOwner, FirmwareReleases
<1>3. QED
  BY <1>1, <1>2 DEF BesideOwner, SafeInv, Typed, PreGateInv, SetupInv, LiveInv, DoneInv, AsFound, Command,
     Places, PreGate, Unclaimed, Decoding, Setup, Live, Enumeration

LEMMA ResetSafeStep == SafeInv /\ ResetHalted => SafeInv'
<1> SUFFICES ASSUME SafeInv, ResetHalted PROVE SafeInv'
  OBVIOUS
<1>1. pc = "reset" /\ UNCHANGED <<code, fw, t>> /\ pc' = "caps_restore"
  BY DEF ResetHalted, Goto
<1>2. g' \in Globals /\ g'.cmd = g.cmd
  BY <1>1, ZenonT(60) DEF SafeInv, Typed, Globals, ResetHalted
<1>3. hw' \in Hardware /\ hw'.mse = hw.mse /\ hw'.bme = hw.bme /\ hw'.bar2 = hw.bar2
      /\ hw'.ptr \in {hw.ptr, "none"} /\ hw'.halted = hw.halted /\ hw'.run = hw.run
  BY <1>1 DEF SafeInv, Typed, Hardware, ResetHalted
<1>4. g'.mask = "RESET_OK" => hw'.ptr = "none" /\ hw.halted /\ ~hw.run
  BY <1>1 DEF SafeInv, Typed, Hardware, Globals, ResetHalted, ResetSafe
<1>5. QED
  BY <1>1, <1>2, <1>3, <1>4 DEF SafeInv, Typed, PreGateInv, SetupInv, LiveInv, DoneInv, AsFound, Command,
     Places, PreGate, Unclaimed, Decoding, Setup, Live, Enumeration

LEMMA RestoreSafe == SafeInv /\ CapsRestore => SafeInv'
<1> SUFFICES ASSUME SafeInv, CapsRestore PROVE SafeInv'
  OBVIOUS
<1>1. pc = "caps_restore" /\ UNCHANGED <<code, fw>> /\ pc' = "cpu"
      /\ t' = [t EXCEPT !.mseSet = FALSE]
  BY DEF CapsRestore, Goto
<1>2. t' \in Locals /\ t'.bar2Set = t.bar2Set /\ t'.bmeSet = t.bmeSet /\ ~t'.mseSet
  BY <1>1 DEF SafeInv, Typed, Locals
<1>3. g.cmd = fw /\ fw \in Word /\ hw \in Hardware /\ g \in Globals
  BY <1>1 DEF SafeInv, Typed, PreGateInv, Decoding
<1>4. CASE ~t.mseSet
  <2>1. UNCHANGED <<hw, g>>
    BY <1>4 DEF CapsRestore
  <2>2. QED
    BY <1>1, <1>2, <1>3, <1>4, <2>1 DEF SafeInv, Typed, PreGateInv, SetupInv, LiveInv, DoneInv, AsFound, Command,
     Places, PreGate, Unclaimed, Decoding, Setup, Live, Enumeration
<1>5. CASE t.mseSet
  <2>1. PICK ok \in BOOLEAN :
              /\ WriteCommand(g.cmd, ok)
              /\ g' = IF ok THEN g ELSE [g EXCEPT !.xhci = "RESTORE_FAIL"]
    BY <1>5 DEF CapsRestore
  <2>2. /\ BesideCommand(hw', hw)
        /\ ok => hw'.mse = fw.mse /\ hw'.bme = fw.bme
    BY <1>3, <2>1, CommandWritten
  <2>3. hw' \in Hardware
    BY <2>2 DEF BesideCommand
  <2>4. ok => Command' = fw
    BY <1>3, <2>2, <2>3, Words DEF Command
  <2>5. g' \in Globals /\ g'.cmd = g.cmd /\ g'.mask = g.mask /\ g'.cfg = g.cfg
        /\ (g'.xhci # "RESTORE_FAIL" => ok)
    BY <1>3, <2>1 DEF Globals
  <2>6. Typed'
    BY <1>1, <1>2, <1>3, <2>3, <2>5 DEF SafeInv, Typed, Places, PreGate
  <2>7. /\ hw.bar2 = "original" /\ hw.ptr # "ours" /\ ~t.bar2Set /\ ~t.bmeSet
        /\ g.mask = "RESET_OK" => hw.ptr = "none" /\ hw.halted /\ ~hw.run
    BY <1>1 DEF SafeInv, PreGateInv, PreGate
  <2>8. PreGateInv'
    BY <1>1, <1>2, <1>3, <2>2, <2>4, <2>5, <2>7 DEF BesideCommand, PreGateInv, PreGate,
       Unclaimed, Decoding
  <2>9. QED
    BY <1>1, <2>6, <2>8 DEF SafeInv, SetupInv, LiveInv, DoneInv, Setup, Live, Enumeration
<1>6. QED
  BY <1>4, <1>5

LEMMA CpuSafe == SafeInv /\ CpuCacheProbe => SafeInv'
<1> SUFFICES ASSUME SafeInv, CpuCacheProbe PROVE SafeInv'
  OBVIOUS
<1>1. pc = "cpu" /\ UNCHANGED <<code, hw, fw, t>> /\ pc' = "gate"
      /\ g' \in Globals /\ g'.cmd = g.cmd /\ g'.mask = g.mask /\ g'.cfg = g.cfg
      /\ g'.xhci = g.xhci
  BY DEF SafeInv, Typed, Globals, CpuCacheProbe, Goto
<1>2. QED
  BY <1>1 DEF SafeInv, Typed, PreGateInv, SetupInv, LiveInv, DoneInv, AsFound, Command,
     Places, PreGate, Unclaimed, Decoding, Setup, Live, Enumeration

LEMMA GateSafe == SafeInv /\ NoopGate => SafeInv'
<1> SUFFICES ASSUME SafeInv, NoopGate PROVE SafeInv'
  OBVIOUS
<1>1. pc = "gate" /\ UNCHANGED <<hw, fw, g>> /\ Typed
  BY DEF NoopGate, SafeInv
<1>2. /\ hw.bar2 = "original" /\ hw.ptr # "ours" /\ ~t.bar2Set /\ ~t.bmeSet /\ ~t.mseSet
      /\ g.xhci # "RESTORE_FAIL" => Command = fw
      /\ g.cfg = "READ_OK" => g.cmd = fw
      /\ g.mask = "RESET_OK" => hw.ptr = "none" /\ hw.halted /\ ~hw.run
  BY <1>1 DEF SafeInv, PreGateInv, PreGate
<1>3. CASE pc' = "done"
  <2>1. t' = t /\ code'[2] \in Results
    BY <1>3 DEF NoopGate, Fail, Goto, Results, Failures
  <2>2. Typed'
    BY <1>1, <1>3, <2>1 DEF Typed, Places
  <2>3. DoneInv'
    BY <1>1, <1>2, <1>3 DEF DoneInv, RestoredOrReported, Reported, TranslationMatches, Command
  <2>4. QED
    BY <1>3, <2>2, <2>3 DEF SafeInv, PreGateInv, SetupInv, LiveInv, PreGate, Unclaimed,
       Decoding, Setup, Live, Enumeration
<1>4. CASE pc' # "done"
  <2>1. PICK c \in Word : c = Command
    BY <1>1 DEF Typed, Hardware, Word, Command
  <2>2. pc' = "mse" /\ t' = [t EXCEPT !.orig = c] /\ code' = code /\ GateOpen /\ ~hw.bme
    BY <1>4, <2>1 DEF NoopGate, Fail, Goto, MemoryCommand, Command
  <2>3. t' \in Locals /\ t'.orig = c /\ ~t'.bar2Set /\ ~t'.mseSet
    BY <1>1, <1>2, <2>2 DEF Typed, Locals
  <2>4. AsFound /\ c = fw /\ ~fw.bme /\ hw.ptr = "none" /\ hw.halted /\ ~hw.run
    BY <1>2, <2>1, <2>2 DEF AsFound, GateOpen
  <2>5. Typed'
    BY <1>1, <2>2, <2>3 DEF Typed, Places, Setup
  <2>6. AsFound'
    BY <1>1, <2>4 DEF AsFound, Command
  <2>7. QED
    BY <1>1, <1>2, <2>2, <2>3, <2>4, <2>5, <2>6 DEF SafeInv, PreGateInv, SetupInv, LiveInv,
       DoneInv, PreGate, Unclaimed, Decoding, Setup, Live, Enumeration
<1>5. QED
  BY <1>3, <1>4

\* What SetupInv says at one place of the setup is all there is to prove there.
LEMMA SetupArrives ==
  ASSUME pc' \in Setup, Typed', SetupInv'
  PROVE  SafeInv'
BY DEF SafeInv, PreGateInv, LiveInv, DoneInv, PreGate, Unclaimed, Decoding, Setup, Live,
   Enumeration

LEMMA MseSafe == SafeInv /\ EnableMse => SafeInv'
<1> SUFFICES ASSUME SafeInv, EnableMse PROVE SafeInv'
  OBVIOUS
<1>1. pc = "mse" /\ UNCHANGED fw /\ Typed
  BY DEF EnableMse, SafeInv
<1>2. /\ t.orig = fw /\ ~fw.bme /\ ~hw.bme /\ hw.halted /\ ~hw.run /\ hw.ptr # "fw"
      /\ hw.bar2 = "original" /\ ~t.bar2Set /\ AsFound
  BY <1>1 DEF SafeInv, SetupInv, Setup
<1>3. CASE t.orig.mse
  <2>1. pc' = "op" /\ UNCHANGED <<code, hw, g, t>>
    BY <1>3 DEF EnableMse, Goto
  <2>2. Typed'
    BY <1>1, <2>1 DEF Typed, Places, Setup
  <2>3. AsFound'
    BY <1>1, <1>2, <2>1 DEF AsFound, Command
  <2>4. SetupInv'
    BY <1>1, <1>2, <2>1, <2>3 DEF SetupInv, Setup
  <2>5. QED
    BY <2>1, <2>2, <2>4, SetupArrives DEF Setup
<1>4. CASE ~t.orig.mse
  <2>1. PICK c \in Word : c = [mse |-> TRUE, bme |-> FALSE] /\ ~c.bme
    BY Words
  <2>2. PICK ok \in BOOLEAN :
                /\ t' = [t EXCEPT !.mseSet = MayBeSet(ok)]
                /\ WriteCommand(c, ok)
                /\ IF ok THEN /\ pc' = "op" /\ UNCHANGED code
                              /\ g' = [g EXCEPT !.cmd = c]
                   ELSE /\ pc' = "preflight" /\ code' = <<"PCI_ENABLE", "FAIL">>
                        /\ UNCHANGED g
    BY <1>4, <2>1 DEF EnableMse, Goto, Fail
  <2>3. t' \in Locals /\ t'.orig = t.orig /\ t'.bar2Set = t.bar2Set /\ t'.mseSet
    BY <1>1, <2>2 DEF Typed, Locals, MayBeSet
  <2>4. BesideCommand(hw', hw) /\ ~hw'.bme
    BY <1>1, <1>2, <2>1, <2>2, CommandWritten DEF Typed
  <2>5. g' \in Globals /\ code'[2] \in Results
    BY <1>1, <2>2 DEF Typed, Globals, Results, Failures
  <2>6. pc' \in {"op", "preflight"}
    BY <2>2
  <2>7. Typed'
    BY <1>1, <2>3, <2>4, <2>5, <2>6 DEF Typed, BesideCommand, Places, Setup
  <2>8. SetupInv'
    BY <1>1, <1>2, <2>3, <2>4, <2>6 DEF SetupInv, Setup, BesideCommand
  <2>9. QED
    BY <2>6, <2>7, <2>8, SetupArrives DEF Setup
<1>5. QED
  BY <1>3, <1>4

LEMMA OperationalSafe == SafeInv /\ ReadOperational => SafeInv'
<1> SUFFICES ASSUME SafeInv, ReadOperational PROVE SafeInv'
  OBVIOUS
<1>1. /\ pc = "op" /\ UNCHANGED <<hw, fw, g, t>> /\ Typed
      /\ pc' \in {"alias", "preflight"}
  BY DEF ReadOperational, SafeInv, Goto, Fail
<1>0. code'[2] \in Results
  <2>1. code[2] \in Results
    BY <1>1 DEF Typed
  <2>2. QED
    BY <2>1 DEF ReadOperational, Goto, Fail, Accessible, Results, Failures
<1>2. Typed'
  BY <1>0, <1>1 DEF Typed, Places, Setup
<1>3. SetupInv'
  BY <1>1 DEF SafeInv, SetupInv, Setup, AsFound, Command
<1>4. QED
  BY <1>1, <1>2, <1>3, SetupArrives DEF Setup

LEMMA AliasSafe == SafeInv /\ WriteAlias => SafeInv'
<1> SUFFICES ASSUME SafeInv, WriteAlias PROVE SafeInv'
  OBVIOUS
<1>1. pc = "alias" /\ UNCHANGED <<fw, g>> /\ Typed
  BY DEF WriteAlias, SafeInv
<1>2. /\ t.orig = fw /\ ~fw.bme /\ ~hw.bme /\ hw.halted /\ ~hw.run /\ hw.ptr # "fw"
      /\ ~t.mseSet => AsFound
  BY <1>1 DEF SafeInv, SetupInv, Setup
<1>3. PICK ok \in BOOLEAN :
        /\ t' = [t EXCEPT !.bar2Set = MayBeSet(ok)]
        /\ WriteBar2("alias", ok)
        /\ IF ok THEN pc' = "program" /\ UNCHANGED code
           ELSE pc' = "preflight" /\ code' = <<"INBOUND_CONFIG", "FAIL">>
  BY DEF WriteAlias, Goto, Fail
<1>4. t' \in Locals /\ t'.orig = t.orig /\ t'.mseSet = t.mseSet /\ t'.bar2Set
  BY <1>1, <1>3 DEF Typed, Locals, MayBeSet
<1>5. BesideBar2(hw', hw) /\ (ok => hw'.bar2 = "alias")
  BY <1>1, <1>3, Bar2Written DEF Typed
<1>6. pc' \in {"program", "preflight"} /\ (pc' = "program" => ok) /\ code'[2] \in Results
  BY <1>1, <1>3 DEF Typed, Results, Failures
<1>7. Typed'
  BY <1>1, <1>4, <1>5, <1>6 DEF Typed, BesideBar2, Places, Setup
<1>8. ~t'.mseSet => AsFound'
  BY <1>1, <1>2, <1>4, <1>5 DEF AsFound, Command, BesideBar2
<1>9. SetupInv'
  BY <1>1, <1>2, <1>4, <1>5, <1>6, <1>8 DEF SetupInv, Setup, BesideBar2
<1>10. QED
  BY <1>6, <1>7, <1>9, SetupArrives DEF Setup

LEMMA RingsSafe == SafeInv /\ ProgramRings => SafeInv'
<1> SUFFICES ASSUME SafeInv, ProgramRings PROVE SafeInv'
  OBVIOUS
<1>1. /\ pc = "program" /\ UNCHANGED <<fw, g, t>> /\ Typed
      /\ pc' \in {"readback", "preflight"}
  BY DEF ProgramRings, SafeInv, Goto, Fail
<1>0. code'[2] \in Results
  <2>1. code[2] \in Results
    BY <1>1 DEF Typed
  <2>2. QED
    BY <2>1 DEF ProgramRings, Goto, Fail, Accessible, Results, Failures
<1>2. /\ t.orig = fw /\ ~fw.bme /\ ~hw.bme /\ hw.halted /\ ~hw.run /\ hw.ptr # "fw"
      /\ hw.bar2 = "alias" /\ t.bar2Set
      /\ ~t.mseSet => AsFound
  BY <1>1 DEF SafeInv, SetupInv, Setup
<1>3. /\ hw' \in Hardware /\ hw'.mse = hw.mse /\ hw'.bme = hw.bme /\ hw'.bar2 = hw.bar2
      /\ hw'.ptr \in {hw.ptr, "ours"} /\ hw'.halted = hw.halted /\ hw'.run = hw.run
      /\ pc' = "readback" => hw'.ptr = "ours"
  BY <1>1 DEF Typed, Hardware, ProgramRings, Goto, Fail
<1>4. Typed'
  BY <1>0, <1>1, <1>3 DEF Typed, Places, Setup
<1>5. ~t'.mseSet => AsFound'
  BY <1>1, <1>2, <1>3 DEF AsFound, Command
<1>6. SetupInv'
  BY <1>1, <1>2, <1>3, <1>5 DEF SetupInv, Setup
<1>7. QED
  BY <1>1, <1>4, <1>6, SetupArrives DEF Setup

LEMMA ReadbackSafe == SafeInv /\ ReadbackSetup => SafeInv'
<1> SUFFICES ASSUME SafeInv, ReadbackSetup PROVE SafeInv'
  OBVIOUS
<1>1. /\ pc = "readback" /\ UNCHANGED <<hw, fw, g, t>> /\ Typed
      /\ pc' \in {"bme", "preflight"}
  BY DEF ReadbackSetup, SafeInv, Goto, Fail
<1>0. code'[2] \in Results
  <2>1. code[2] \in Results
    BY <1>1 DEF Typed
  <2>2. QED
    BY <2>1 DEF ReadbackSetup, Goto, Fail, Accessible, Results, Failures
<1>2. Typed'
  BY <1>0, <1>1 DEF Typed, Places, Setup
<1>3. SetupInv'
  BY <1>1 DEF SafeInv, SetupInv, Setup, AsFound, Command
<1>4. QED
  BY <1>1, <1>2, <1>3, SetupArrives DEF Setup

LEMMA LiveArrives ==
  ASSUME pc' \in Live, Typed', LiveInv'
  PROVE  SafeInv'
BY DEF SafeInv, PreGateInv, SetupInv, DoneInv, PreGate, Unclaimed, Decoding, Setup, Live,
   Enumeration

LEMMA DoneArrives ==
  ASSUME pc' = "done", Typed', DoneInv'
  PROVE  SafeInv'
BY DEF SafeInv, PreGateInv, SetupInv, LiveInv, PreGate, Unclaimed, Decoding, Setup, Live,
   Enumeration

LEMMA BmeSafe == SafeInv /\ EnableBme => SafeInv'
<1> SUFFICES ASSUME SafeInv, EnableBme PROVE SafeInv'
  OBVIOUS
<1>1. pc = "bme" /\ UNCHANGED <<fw, g>> /\ Typed
  BY DEF EnableBme, SafeInv
<1>2. /\ t.orig = fw /\ ~fw.bme /\ hw.ptr = "ours" /\ hw.bar2 = "alias" /\ t.bar2Set
  BY <1>1 DEF SafeInv, SetupInv, Setup
<1>3. PICK c \in Word : c = [mse |-> TRUE, bme |-> TRUE]
  BY Words
<1>4. PICK ok \in BOOLEAN :
        /\ t' = [t EXCEPT !.bmeSet = MayBeSet(ok)]
        /\ WriteCommand(c, ok)
        /\ IF ok THEN pc' = "run" /\ UNCHANGED code
           ELSE pc' = "cleanup" /\ code' = <<"PCI_ENABLE", "FAIL">>
  BY <1>3 DEF EnableBme, Goto, Fail
<1>5. t' \in Locals /\ t'.orig = t.orig /\ t'.bar2Set = t.bar2Set /\ t'.bmeSet
  BY <1>1, <1>4 DEF Typed, Locals, MayBeSet
<1>6. BesideCommand(hw', hw)
  BY <1>1, <1>4, CommandWritten DEF Typed
<1>7. pc' \in {"run", "cleanup"} /\ code'[2] \in Results
  BY <1>1, <1>4 DEF Typed, Results, Failures
<1>8. Typed'
  BY <1>1, <1>5, <1>6, <1>7 DEF Typed, BesideCommand, Places, Live, Enumeration
<1>9. LiveInv'
  BY <1>1, <1>2, <1>5, <1>6, <1>7 DEF LiveInv, BesideCommand
<1>10. QED
  BY <1>7, <1>8, <1>9, LiveArrives DEF Live, Enumeration

LEMMA RunSafe == SafeInv /\ RunController => SafeInv'
<1> SUFFICES ASSUME SafeInv, RunController PROVE SafeInv'
  OBVIOUS
<1>1. /\ pc = "run" /\ UNCHANGED <<fw, g, t>> /\ Typed
      /\ pc' \in {"port", "cleanup"}
  BY DEF RunController, SafeInv, Goto, Fail
<1>2. code'[2] \in Results
  <2>1. code' \in {code, <<"HSE_BEFORE_DB", "BAD">>, <<"MMIO", "FAIL">>, <<"RUN", "TIMEOUT">>}
    BY DEF RunController, Fail
  <2>2. QED
    BY <1>1, <2>1 DEF Typed, Results, Failures
<1>3. hw' \in Hardware /\ hw'.bar2 = hw.bar2 /\ hw'.ptr = hw.ptr
  BY <1>1 DEF Typed, Hardware, RunController
<1>4. /\ t.orig = fw /\ ~fw.bme /\ hw.ptr = "ours" /\ hw.bar2 = "alias" /\ t.bar2Set
      /\ t.bmeSet
  BY <1>1 DEF SafeInv, LiveInv, Live
<1>5. Typed'
  BY <1>1, <1>2, <1>3 DEF Typed, Places, Live, Enumeration
<1>6. LiveInv'
  BY <1>1, <1>3, <1>4 DEF LiveInv
<1>7. QED
  BY <1>1, <1>5, <1>6, LiveArrives DEF Live, Enumeration

-----------------------------------------------------------------------------
(* The enumeration leaves the controller, its registers and the flags of    *)
(* what is to be undone alone.                                             *)

EnumStep ==
    /\ pc \in Enumeration /\ pc' \in Enumeration \cup {"session", "halt"}
    /\ code'[2] \in Results /\ g' \in Globals /\ t' \in Locals
    /\ UNCHANGED <<hw, fw>>
    /\ t'.orig = t.orig /\ t'.bar2Set = t.bar2Set /\ t'.bmeSet = t.bmeSet

LEMMA EnumSafe == SafeInv /\ EnumStep => SafeInv'
<1> SUFFICES ASSUME SafeInv, EnumStep PROVE SafeInv'
  OBVIOUS
<1>1. pc' \in Live /\ pc \in Live /\ pc' \notin {"pci", "stop_pci", "bar2", "stop_bar2"}
  BY DEF EnumStep, Live, Enumeration
<1>2. Typed'
  BY <1>1 DEF EnumStep, SafeInv, Typed, Places
<1>3. LiveInv'
  BY <1>1 DEF EnumStep, SafeInv, LiveInv
<1>4. QED
  BY <1>1, <1>2, <1>3, LiveArrives

LEMMA StageSteps ==
  ASSUME Typed, NEW l \in Enumeration, NEW next \in Enumeration, NEW r, NEW i, NEW len,
         NEW name, Stage(l, r, i, len, name, next)
  PROVE  EnumStep
<1>1. "TIMEOUT" \in Results /\ "BAD" \in Results /\ "FAIL" \in Results
      /\ "cleanup" \in Enumeration /\ code[2] \in Results
  BY DEF Results, Failures, Enumeration, Typed
<1>2. pc = l /\ UNCHANGED <<hw, fw, g, t, dev, fs>>
      /\ pc' \in {next, "cleanup"}
  BY DEF Stage, Goto, Miss, Completes
<1>3. code' \in {code, <<name, "TIMEOUT">>, <<name, "BAD">>, <<"MMIO", "FAIL">>}
  BY DEF Stage, Miss
<1>4. code'[2] \in Results
  BY <1>1, <1>3
<1>5. QED
  BY <1>1, <1>2, <1>4 DEF EnumStep, Typed

LEMMA DirectSteps ==
  ASSUME Typed, NEW l \in Enumeration, NEW next \in Enumeration, NEW r, NEW i, NEW len,
         NEW bad, Direct(l, r, i, len, bad, next)
  PROVE  EnumStep
<1>1. "BAD" \in Results /\ "cleanup" \in Enumeration /\ code[2] \in Results
  BY DEF Results, Failures, Enumeration, Typed
<1>2. pc = l /\ UNCHANGED <<hw, fw, g, t, dev, fs>>
      /\ pc' \in {next, "cleanup"}
  BY DEF Direct, Goto, Fail
<1>3. code' \in {code, <<bad, "BAD">>}
  BY DEF Direct, Fail
<1>4. code'[2] \in Results
  BY <1>1, <1>3
<1>5. QED
  BY <1>1, <1>2, <1>4 DEF EnumStep, Typed

\* A step that only goes on, or ends the enumeration with some code.
LEMMA PlainSteps ==
  ASSUME Typed, pc \in Enumeration, UNCHANGED <<hw, fw, g, t>>,
         pc' \in Enumeration, code' = code \/ code'[2] \in Results
  PROVE  EnumStep
BY DEF EnumStep, Typed

LEMMA RunningSafe ==
  ASSUME SafeInv, Running PROVE SafeInv'
<1>1. CASE EnableBme \/ RunController
  BY <1>1, BmeSafe, RunSafe
<1> SUFFICES ASSUME ~(EnableBme \/ RunController) PROVE EnumStep
  BY <1>1, EnumSafe
<1>2. Typed /\ "cleanup" \in Enumeration /\ {"FAIL", "BAD", "TIMEOUT"} \subseteq Results
  BY DEF SafeInv, Enumeration, Results, Failures
<1>3. CASE PortResetProbe
  <2>1. pc = "port" /\ UNCHANGED <<hw, fw, g, t>> /\ pc' \in {"wrap", "cleanup"}
        /\ code' \in {code, <<"MMIO", "FAIL">>}
    BY <1>3 DEF PortResetProbe, Goto, Fail
  <2>2. QED
    BY <1>2, <2>1, PlainSteps DEF Enumeration
<1>4. CASE MfindexWrapProbe
  <2>1. pc = "wrap" /\ UNCHANGED <<hw, fw, g, t>> /\ pc' \in {"enable_slot", "cleanup"}
        /\ code' \in {code, <<"MMIO", "FAIL">>, <<"EVENT", "BAD">>,
                      <<"HSE_BEFORE_DB", "BAD">>}
    BY <1>4 DEF MfindexWrapProbe, Goto, Fail
  <2>2. QED
    BY <1>2, <2>1, PlainSteps DEF Enumeration
<1>5. CASE EnableSlot
  <2>1. CASE Stage("enable_slot", "cmd", 248, 1, "ENABLE_SLOT", "address")
    BY <1>2, <2>1, StageSteps DEF Enumeration
  <2>2. CASE ~Stage("enable_slot", "cmd", 248, 1, "ENABLE_SLOT", "address")
    <3>1. pc = "enable_slot" /\ UNCHANGED <<hw, fw, g, t>> /\ pc' = "cleanup"
          /\ code' = <<"ADDRESS", "SKIP_PORT">>
      BY <1>5, <2>2 DEF EnableSlot, Fail
    <3>2. code'[2] \in Results
      BY <3>1 DEF Results
    <3>3. QED
      BY <1>2, <3>1, <3>2, PlainSteps DEF Enumeration
  <2>3. QED
    BY <2>1, <2>2
<1>6. CASE AddressDevice
  BY <1>2, <1>6, StageSteps DEF AddressDevice, Enumeration
<1>7. CASE DeviceDescriptor
  <2>1. pc = "device" /\ UNCHANGED <<hw, fw, g, t>> /\ pc' \in {"config", "cleanup"}
        /\ code' \in {code, <<"CONTROL_TRANSFER", "TIMEOUT">>, <<"CONTROL_TRANSFER", "BAD">>,
                      <<"MMIO", "FAIL">>}
    BY <1>7 DEF DeviceDescriptor, Goto, Miss
  <2>2. QED
    BY <1>2, <2>1, PlainSteps DEF Enumeration
<1>8. CASE ConfigHeader
  <2>1. PICK n \in Enumeration : Stage("config", "ep0", 3, 3, "CONTROL_TRANSFER", n)
    BY <1>8 DEF ConfigHeader, Enumeration
  <2>2. QED
    BY <1>2, <2>1, StageSteps DEF Enumeration
<1>9. QED
  BY <1>3, <1>4, <1>5, <1>6, <1>7, <1>8 DEF Running

LEMMA RootSteps ==
  ASSUME Typed, RootDevice PROVE EnumStep
<1>1. /\ "cleanup" \in Enumeration
      /\ {"FAIL", "BAD", "TIMEOUT", "PASS", "READY", "NO_BOT", "UNSUPPORTED", "MISSING",
          "NO_CONNECTED", "PORT_NOT_READY", "SPEED_MISMATCH"} \subseteq Results
      /\ {"INPUT_ONLY", "STORAGE_PENDING"} \subseteq Results
  BY DEF Enumeration, Results, Failures
<1>2. CASE RootConfigFull
  <2>1. CASE Direct("root_config", "ep0", 6, 3, "ROOT_CONFIG", "root_set")
    BY <2>1, DirectSteps DEF Enumeration
  <2>2. CASE ~Direct("root_config", "ep0", 6, 3, "ROOT_CONFIG", "root_set")
    <3>1. pc = "root_config" /\ UNCHANGED <<hw, fw, g, t>> /\ pc' = "cleanup"
          /\ code' = <<"ROOT", "NO_BOT">>
      BY <1>2, <2>2 DEF RootConfigFull, Fail
    <3>2. QED
      BY <1>1, <3>1, PlainSteps DEF Enumeration
  <2>3. QED
    BY <2>1, <2>2
<1>3. CASE RootSetConfig
  BY <1>3, DirectSteps DEF RootSetConfig, Enumeration
<1>4. CASE RootGetConfig
  BY <1>4, DirectSteps DEF RootGetConfig, Enumeration
<1>5. CASE RootMaxLun
  <2>1. CASE Direct("root_lun", "ep0", 14, 3, "ROOT_MAX_LUN", "root_guard")
    BY <2>1, DirectSteps DEF Enumeration
  <2>2. CASE ~Direct("root_lun", "ep0", 14, 3, "ROOT_MAX_LUN", "root_guard")
    <3>1. pc = "root_lun" /\ UNCHANGED <<hw, fw, g, t>> /\ pc' = "cleanup"
          /\ code' \in {<<"ROOT_BOT_EP0", "PASS">>, <<"ROOT_MAX_LUN", "BAD">>}
      BY <1>5, <2>2 DEF RootMaxLun, Fail
    <3>2. QED
      BY <1>1, <3>1, PlainSteps DEF Enumeration
  <2>3. QED
    BY <2>1, <2>2
<1>6. CASE RootBulkGuard
  BY <1>6, DirectSteps DEF RootBulkGuard, Enumeration
<1>7. CASE RootBulkConfigure
  BY <1>7, DirectSteps DEF RootBulkConfigure, Enumeration
<1>8. CASE InquiryCbw
  BY <1>8, DirectSteps DEF InquiryCbw, Enumeration
<1>9. CASE InquiryData
  BY <1>9, DirectSteps DEF InquiryData, Enumeration
<1>10. CASE InquiryCsw
  BY <1>10, DirectSteps DEF InquiryCsw, Enumeration
<1>11. CASE ReadCapacity
  <2>1. pc = "capacity" /\ UNCHANGED <<hw, fw, g, t>> /\ pc' \in {"capacity", "block", "cleanup"}
        /\ code' \in {code, <<"ROOT_CAPACITY", "BAD">>}
    BY <1>11 DEF ReadCapacity, Read, On, Goto, Fail, Scanning
  <2>2. QED
    BY <1>1, <2>1, PlainSteps DEF Enumeration
<1>12. CASE ReadBlock
  <2>1. pc = "block" /\ UNCHANGED <<hw, fw, g, t>> /\ pc' \in {"block", "volume", "cleanup"}
        /\ code' \in {code, <<"ROOT_BLOCK_READ", "BAD">>, <<"ROOT_BLOCK_REPEAT", "BAD">>}
    BY <1>12 DEF ReadBlock, Read, On, Goto, Fail, Scanning
  <2>2. QED
    BY <1>1, <2>1, PlainSteps DEF Enumeration
<1>13. CASE FindVolume
  <2>1. pc = "volume" /\ UNCHANGED <<hw, fw, g, t>> /\ pc' \in {"boot", "root_fat", "cleanup"}
        /\ code' \in {code, <<"ROOT_FS", "BAD">>, <<"ROOT_FS", "UNSUPPORTED">>}
    BY <1>13 DEF FindVolume, Read, On, Goto, Fail, Scanning
  <2>2. QED
    BY <1>1, <2>1, PlainSteps DEF Enumeration
<1>14. CASE ReadBootSector
  <2>1. pc = "boot" /\ UNCHANGED <<hw, fw, g, t>> /\ pc' \in {"boot", "root_fat", "cleanup"}
        /\ code' \in {code, <<"ROOT_FS", "BAD">>}
    BY <1>14 DEF ReadBootSector, Read, On, Goto, Fail, Scanning
  <2>2. QED
    BY <1>1, <2>1, PlainSteps DEF Enumeration
<1>15. CASE ReadRootFat
  <2>1. pc = "root_fat" /\ UNCHANGED <<hw, fw, g, t>> /\ pc' \in {"root_fat", "root_dir", "cleanup"}
        /\ code' \in {code, <<"ROOT_FS", "BAD">>}
    BY <1>15 DEF ReadRootFat, Read, On, Goto, Fail, Scanning
  <2>2. QED
    BY <1>1, <2>1, PlainSteps DEF Enumeration
<1>16. CASE ReadRootDirectory
  <2>1. pc = "root_dir" /\ UNCHANGED <<hw, fw, g, t>> /\ pc' \in {"find", "root_fat", "root_dir", "cleanup"}
        /\ code' \in {code, <<"ROOT_FS", "BAD">>}
    BY <1>16 DEF ReadRootDirectory, Read, On, Goto, Fail, Scanning
  <2>2. QED
    BY <1>1, <2>1, PlainSteps DEF Enumeration
<1>17. CASE FindFile
  <2>1. pc = "find" /\ UNCHANGED <<hw, fw, g, t>> /\ pc' \in {"file_fat", "cleanup"}
        /\ code' \in {code, <<"ROOT_FILE_PATTERN", "BAD">>, <<"ROOT_FILE", "MISSING">>}
    BY <1>17 DEF FindFile, Read, On, Goto, Fail, Scanning
  <2>2. QED
    BY <1>1, <2>1, PlainSteps DEF Enumeration
<1>18. CASE ReadFileFat
  <2>1. pc = "file_fat" /\ UNCHANGED <<hw, fw, g, t>> /\ pc' \in {"file_fat", "file_data", "cleanup"}
        /\ code' \in {code, <<"ROOT_FILE", "BAD">>}
    BY <1>18 DEF ReadFileFat, Read, On, Goto, Fail, Scanning
  <2>2. QED
    BY <1>1, <2>1, PlainSteps DEF Enumeration
<1>19. CASE ReadFileData
  <2>1. pc = "file_data" /\ UNCHANGED <<hw, fw, g, t>> /\ pc' \in {"file_fat", "file_data", "cleanup"}
        /\ code' \in {code, <<"ROOT_FILE", "BAD">>, <<"ROOT_FILE", "PASS">>}
    BY <1>19 DEF ReadFileData, Read, On, Goto, Fail, Scanning
  <2>2. QED
    BY <1>1, <2>1, PlainSteps DEF Enumeration
<1>20. QED
  BY <1>2, <1>3, <1>4, <1>5, <1>6, <1>7, <1>8, <1>9, <1>10, <1>11, <1>12, <1>13, <1>14, <1>15, <1>16, <1>17, <1>18, <1>19 DEF RootDevice

LEMMA HubSteps ==
  ASSUME Typed, Hub PROVE EnumStep
<1>1. /\ "cleanup" \in Enumeration
      /\ {"FAIL", "BAD", "TIMEOUT", "PASS", "READY", "NO_BOT", "UNSUPPORTED", "MISSING",
          "NO_CONNECTED", "PORT_NOT_READY", "SPEED_MISMATCH"} \subseteq Results
      /\ {"INPUT_ONLY", "STORAGE_PENDING"} \subseteq Results
  BY DEF Enumeration, Results, Failures
<1>2. CASE HubSetConfig
  BY <1>2, StageSteps DEF HubSetConfig, Enumeration
<1>3. CASE HubDescriptor
  BY <1>3, StageSteps DEF HubDescriptor, Enumeration
<1>4. CASE PortPower
  <2>1. pc = "power" /\ UNCHANGED <<hw, fw, g>> /\ pc' \in {"power", "power_wait", "cleanup"}
        /\ code' \in {code, <<"CONTROL_TRANSFER", "TIMEOUT">>, <<"CONTROL_TRANSFER", "BAD">>,
                      <<"MMIO", "FAIL">>}
    BY <1>4 DEF PortPower, Goto, Miss
  <2>2. PICK j \in 0 .. 3 : j = (t.i + 1) % 4
    BY DEF Typed, Locals
  <2>3. t' = t \/ t' = [t EXCEPT !.i = j]
    BY <1>4, <2>2 DEF PortPower
  <2>4. t' \in Locals /\ t'.orig = t.orig /\ t'.bar2Set = t.bar2Set /\ t'.bmeSet = t.bmeSet
    BY <2>3 DEF Typed, Locals
  <2>5. code'[2] \in Results
    BY <1>1, <2>1 DEF Typed
  <2>6. QED
    BY <1>1, <2>1, <2>4, <2>5 DEF EnumStep, Enumeration, Typed
<1>5. CASE PowerDelay
  <2>1. pc = "power_wait" /\ UNCHANGED <<hw, fw, g, t>> /\ pc' \in {"port_status", "cleanup"}
        /\ code' \in {code, <<"HUB_POWER_DELAY", "FAIL">>}
    BY <1>5 DEF PowerDelay, On, Goto, Fail
  <2>2. QED
    BY <1>1, <2>1, PlainSteps DEF Enumeration
<1>6. CASE PortStatus
  <2>1. pc = "port_status" /\ UNCHANGED <<hw, fw, g>>
        /\ pc' \in {"port_status", "child_reset", "stop_endpoint", "cleanup"}
        /\ code' \in {code, <<"CONTROL_TRANSFER", "TIMEOUT">>, <<"CONTROL_TRANSFER", "BAD">>,
                      <<"MMIO", "FAIL">>}
    BY <1>6 DEF PortStatus, Goto, Fail
  <2>2. PICK j \in 0 .. 3 : j = (t.i + 1) % 4
    BY DEF Typed, Locals
  <2>3. t' = t \/ t' = [t EXCEPT !.i = j]
    BY <1>6, <2>2 DEF PortStatus
  <2>4. t' \in Locals /\ t'.orig = t.orig /\ t'.bar2Set = t.bar2Set /\ t'.bmeSet = t.bmeSet
    BY <2>3 DEF Typed, Locals
  <2>5. code'[2] \in Results
    BY <1>1, <2>1 DEF Typed
  <2>6. QED
    BY <1>1, <2>1, <2>4, <2>5 DEF EnumStep, Enumeration, Typed
<1>7. CASE StopEndpoint
  <2>1. pc = "stop_endpoint" /\ UNCHANGED <<hw, fw, g, t>> /\ pc' \in {"cleanup"}
        /\ code' \in {code}
    BY <1>7 DEF StopEndpoint, Goto
  <2>2. QED
    BY <1>1, <2>1, PlainSteps DEF Enumeration
<1>8. CASE ChildReset
  <2>1. pc = "child_reset" /\ UNCHANGED <<hw, fw, g, t>> /\ pc' \in {"reset_status", "cleanup"}
        /\ code' \in {code, <<"HUB_CHILD", "NO_CONNECTED">>, <<"HUB_CHILD", "PORT_NOT_READY">>,
                      <<"HUB_CHILD_RESET", "TIMEOUT">>, <<"HUB_CHILD_RESET", "BAD">>,
                      <<"MMIO", "FAIL">>}
    BY <1>8 DEF ChildReset, On, Goto, Fail, Miss
  <2>2. QED
    BY <1>1, <2>1, PlainSteps DEF Enumeration
<1>9. CASE ChildResetStatus
  BY <1>9, StageSteps DEF ChildResetStatus, Enumeration
<1>10. CASE ChildResetClear
  BY <1>10, StageSteps DEF ChildResetClear, Enumeration
<1>11. CASE ChildResetFinal
  BY <1>11, StageSteps DEF ChildResetFinal, Enumeration
<1>12. CASE HubGuard
  BY <1>12, StageSteps DEF HubGuard, Enumeration
<1>13. CASE HubConfigure
  <2>1. PICK n \in Enumeration : Stage("hub_context", "cmd", 251, 1, "HUB_CONFIG", n)
    BY <1>13 DEF HubConfigure, Enumeration
  <2>2. QED
    BY <2>1, StageSteps DEF Enumeration
<1>14. CASE BusStart
  <2>1. pc = "bus" /\ UNCHANGED <<hw, fw>> /\ pc' = "cleanup"
        /\ code' \in {<<"BUS", "READY">>, <<"BUS", "INPUT_ONLY">>,
                      <<"BUS", "STORAGE_PENDING">>, <<"BUS", "BAD">>}
    BY <1>14 DEF BusStart, Fail
  <2>2. t' \in {t, [t EXCEPT !.inval = 248]} /\ g' \in {g, [g EXCEPT !.session = "bus"]}
    BY <1>14 DEF BusStart, FirstCommand
  <2>3. t' \in Locals /\ t'.orig = t.orig /\ t'.bar2Set = t.bar2Set /\ t'.bmeSet = t.bmeSet
    BY <2>2 DEF Typed, Locals
  <2>4. g' \in Globals
    BY <2>2 DEF Typed, Globals
  <2>5. code'[2] \in Results
    BY <1>1, <2>1
  <2>6. QED
    BY <1>1, <2>1, <2>3, <2>4, <2>5 DEF EnumStep, Enumeration
<1>15. QED
  BY <1>2, <1>3, <1>4, <1>5, <1>6, <1>7, <1>8, <1>9, <1>10, <1>11, <1>12, <1>13, <1>14 DEF Hub

LEMMA ChildSteps ==
  ASSUME Typed, Child PROVE EnumStep
<1>1. /\ "cleanup" \in Enumeration
      /\ {"FAIL", "BAD", "TIMEOUT", "PASS", "READY", "NO_BOT", "UNSUPPORTED", "MISSING",
          "NO_CONNECTED", "PORT_NOT_READY", "SPEED_MISMATCH"} \subseteq Results
      /\ {"INPUT_ONLY", "STORAGE_PENDING"} \subseteq Results
  BY DEF Enumeration, Results, Failures
<1>2. CASE ChildEnable
  BY <1>2, StageSteps DEF ChildEnable, Enumeration
<1>3. CASE ChildAddress
  BY <1>3, StageSteps DEF ChildAddress, Enumeration
<1>4. CASE ChildPrefix
  BY <1>4, StageSteps DEF ChildPrefix, Enumeration
<1>5. CASE ChildRepeat
  BY <1>5, StageSteps DEF ChildRepeat, Enumeration
<1>6. CASE ChildPreEvaluate
  BY <1>6, StageSteps DEF ChildPreEvaluate, Enumeration
<1>7. CASE ChildEvaluate
  BY <1>7, StageSteps DEF ChildEvaluate, Enumeration
<1>8. CASE ChildGetStatus
  BY <1>8, StageSteps DEF ChildGetStatus, Enumeration
<1>9. CASE ChildFullDescriptor
  BY <1>9, StageSteps DEF ChildFullDescriptor, Enumeration
<1>10. CASE ChildConfigHeader
  BY <1>10, StageSteps DEF ChildConfigHeader, Enumeration
<1>11. CASE ChildConfigFull
  <2>1. pc = "config_full" /\ UNCHANGED <<hw, fw, g, t>> /\ pc' \in {"set_config", "cleanup"}
        /\ code' \in {code, <<"CHILD_CONFIG_FULL", "TIMEOUT">>, <<"CHILD_CONFIG_FULL", "BAD">>,
                      <<"MMIO", "FAIL">>}
    BY <1>11 DEF ChildConfigFull, On, Goto, Miss
  <2>2. QED
    BY <1>1, <2>1, PlainSteps DEF Enumeration
<1>12. CASE ChildSetConfig
  BY <1>12, StageSteps DEF ChildSetConfig, Enumeration
<1>13. CASE ChildGetConfig
  <2>1. PICK n \in Enumeration : Stage("get_config", "child", 23, 3, "CHILD_GET_CONFIG", n)
    BY <1>13 DEF ChildGetConfig, Enumeration
  <2>2. QED
    BY <2>1, StageSteps DEF Enumeration
<1>14. CASE ChildUnsupported
  <2>1. pc = "unsupported" /\ UNCHANGED <<hw, fw, g, t>> /\ pc' \in {"cleanup"}
        /\ code' \in {<<"MOUSE", "UNSUPPORTED">>}
    BY <1>14 DEF ChildUnsupported, Fail
  <2>2. QED
    BY <1>1, <2>1, PlainSteps DEF Enumeration
<1>15. CASE HidSetProtocol
  BY <1>15, DirectSteps DEF HidSetProtocol, Enumeration
<1>16. CASE HidGetProtocol
  <2>1. PICK n \in Enumeration : Direct("hid_get", "child", 28, 3, HidName, n)
    BY <1>16 DEF HidGetProtocol, Enumeration
  <2>2. QED
    BY <2>1, DirectSteps DEF Enumeration
<1>17. CASE HidSetIdle
  BY <1>17, DirectSteps DEF HidSetIdle, Enumeration
<1>18. CASE HidGuard
  <2>1. pc = "hid_guard" /\ UNCHANGED <<hw, fw, g>> /\ pc' \in {"hid_configure", "cleanup"}
        /\ code' \in {code, <<"KEYBOARD", "BAD">>, <<"MOUSE", "BAD">>}
    BY <1>18 DEF HidGuard, On, Goto, Fail, HidName
  <2>2. t' = [t EXCEPT !.inval = 248]
    BY <1>18 DEF HidGuard, SkippedPrefix, FirstCommand
  <2>3. t' \in Locals /\ t'.orig = t.orig /\ t'.bar2Set = t.bar2Set /\ t'.bmeSet = t.bmeSet
    BY <2>2 DEF Typed, Locals
  <2>4. code'[2] \in Results
    BY <1>1, <2>1 DEF Typed
  <2>5. QED
    BY <1>1, <2>1, <2>3, <2>4 DEF EnumStep, Enumeration, Typed
<1>19. CASE HidConfigure
  <2>1. pc = "hid_configure" /\ UNCHANGED <<hw, fw, t>> /\ pc' = "cleanup"
        /\ code' \in {<<"KEYBOARD", "READY">>, <<"MOUSE", "READY">>, <<"KEYBOARD", "BAD">>,
                      <<"MOUSE", "BAD">>}
    BY <1>19 DEF HidConfigure, Fail, HidName
  <2>2. g' \in {g, [g EXCEPT !.session = "keyboard"]}
    BY <1>19 DEF HidConfigure
  <2>3. g' \in Globals
    BY <2>2 DEF Typed, Globals
  <2>4. code'[2] \in Results
    BY <1>1, <2>1
  <2>5. QED
    BY <1>1, <2>1, <2>3, <2>4 DEF EnumStep, Enumeration, Typed
<1>20. CASE ChildMaxLun
  <2>1. pc = "max_lun" /\ UNCHANGED <<hw, fw, g, t>> /\ pc' \in {"bulk_guard", "cleanup"}
        /\ code' \in {code, <<"CHILD_GET_MAX_LUN", "TIMEOUT">>, <<"CHILD_GET_MAX_LUN", "BAD">>,
                      <<"MMIO", "FAIL">>, <<"CHILD_BULK", "SPEED_MISMATCH">>}
    BY <1>20 DEF ChildMaxLun, Stage, Goto, Fail, Miss
  <2>2. QED
    BY <1>1, <2>1, PlainSteps DEF Enumeration
<1>21. CASE ChildBulkGuard
  <2>1. pc = "bulk_guard" /\ UNCHANGED <<hw, fw, g>> /\ pc' \in {"bulk_configure", "cleanup"}
        /\ code' \in {code, <<"CHILD_BULK_CONFIG", "TIMEOUT">>, <<"CHILD_BULK_CONFIG", "BAD">>,
                      <<"MMIO", "FAIL">>}
    BY <1>21 DEF ChildBulkGuard, On, Goto, Miss
  <2>2. t' = [t EXCEPT !.inval = 2]
    BY <1>21 DEF ChildBulkGuard
  <2>3. t' \in Locals /\ t'.orig = t.orig /\ t'.bar2Set = t.bar2Set /\ t'.bmeSet = t.bmeSet
    BY <2>2 DEF Typed, Locals
  <2>4. code'[2] \in Results
    BY <1>1, <2>1 DEF Typed
  <2>5. QED
    BY <1>1, <2>1, <2>3, <2>4 DEF EnumStep, Enumeration, Typed
<1>22. CASE ChildBulkConfigure
  <2>1. pc = "bulk_configure" /\ UNCHANGED <<hw, fw, g, t>> /\ pc' \in {"cleanup"}
        /\ code' \in {<<"CHILD_BULK_CONFIG", "PASS">>, <<"CHILD_BULK_CONFIG", "TIMEOUT">>,
                      <<"CHILD_BULK_CONFIG", "BAD">>, <<"MMIO", "FAIL">>}
    BY <1>22 DEF ChildBulkConfigure, Goto, Fail, Miss
  <2>2. QED
    BY <1>1, <2>1, PlainSteps DEF Enumeration
<1>23. QED
  BY <1>2, <1>3, <1>4, <1>5, <1>6, <1>7, <1>8, <1>9, <1>10, <1>11, <1>12, <1>13, <1>14, <1>15, <1>16, <1>17, <1>18, <1>19, <1>20, <1>21, <1>22 DEF Child

LEMMA CleanupSteps ==
  ASSUME Typed, pc = "cleanup" => t.bmeSet, Cleanup
  PROVE  EnumStep
<1>1. pc = "cleanup" /\ UNCHANGED <<hw, fw>> /\ pc' \in {"session", "halt"}
      /\ code' \in {code, <<"LIVE", "PASS">>, <<"LIVE", "BAD">>}
  BY DEF Cleanup, Goto, Fail
<1>2. /\ t' \in {t, [t EXCEPT !.inval = 248]}
      /\ g' \in {g, [g EXCEPT !.session = "live"]}
  BY DEF Cleanup, SkippedPrefix, FirstCommand
<1>3. t' \in Locals /\ t'.orig = t.orig /\ t'.bar2Set = t.bar2Set /\ t'.bmeSet = t.bmeSet
  BY <1>2 DEF Typed, Locals
<1>4. g' \in Globals
  BY <1>2 DEF Typed, Globals
<1>5. code'[2] \in Results
  BY <1>1 DEF Typed, Results, Failures
<1>6. QED
  BY <1>1, <1>3, <1>4, <1>5 DEF EnumStep, Enumeration

-----------------------------------------------------------------------------
(* Cleanup, preflight and the stop of a session.                           *)

LEMMA HaltSafe == SafeInv /\ CleanupHalt => SafeInv'
<1> SUFFICES ASSUME SafeInv, CleanupHalt PROVE SafeInv'
  OBVIOUS
<1>1. pc = "halt" /\ pc' = "pci" /\ UNCHANGED <<fw, g>> /\ Typed
  BY DEF CleanupHalt, Goto, SafeInv
<1>2. /\ t.orig = fw /\ ~fw.bme /\ hw.ptr = "ours" /\ hw.bar2 = "alias" /\ t.bar2Set
      /\ t.bmeSet
  BY <1>1 DEF SafeInv, LiveInv, Live
<1>3. PICK ok \in BOOLEAN :
        /\ Halt(ok)
        /\ t' = [t EXCEPT !.ok = ok]
        /\ code' = IF ok THEN code ELSE <<"STOP", "TIMEOUT">>
  BY DEF CleanupHalt
<1>4. /\ t' \in Locals /\ t'.orig = t.orig /\ t'.bar2Set = t.bar2Set /\ t'.bmeSet = t.bmeSet
      /\ t'.ok = ok
  BY <1>1, <1>3 DEF Typed, Locals
<1>5. /\ hw' \in Hardware /\ hw'.bar2 = hw.bar2 /\ hw'.ptr = hw.ptr
      /\ ok => hw'.halted
  BY <1>1, <1>3, Halted DEF Typed
<1>6. code'[2] \in Results
  BY <1>1, <1>3 DEF Typed, Results, Failures
<1>7. Typed'
  BY <1>1, <1>4, <1>5, <1>6 DEF Typed, Places, Live
<1>8. LiveInv'
  BY <1>1, <1>2, <1>4, <1>5 DEF LiveInv
<1>9. QED
  BY <1>1, <1>7, <1>8, LiveArrives DEF Live

LEMMA PciSafe == SafeInv /\ CleanupPci => SafeInv'
<1> SUFFICES ASSUME SafeInv, CleanupPci PROVE SafeInv'
  OBVIOUS
<1>1. pc = "pci" /\ pc' = "bar2" /\ UNCHANGED fw /\ Typed
  BY DEF CleanupPci, Goto, SafeInv
<1>2. /\ t.orig = fw /\ ~fw.bme /\ hw.ptr = "ours" /\ hw.bar2 = "alias" /\ t.bar2Set
      /\ t.bmeSet /\ (t.ok => hw.halted)
  BY <1>1 DEF SafeInv, LiveInv, Live
<1>3. PICK ok \in BOOLEAN :
        /\ WriteCommand(t.orig, ok)
        /\ t' = [t EXCEPT !.ok = @ /\ ok]
        /\ code' = IF ok THEN code ELSE <<"PCI_RESTORE", "FAIL">>
        /\ g' = IF ok THEN [g EXCEPT !.cmd = t.orig] ELSE g
  BY DEF CleanupPci
<1>4. fw \in Word /\ g \in Globals /\ hw \in Hardware
  BY <1>1 DEF Typed
<1>5. /\ t' \in Locals /\ t'.orig = t.orig /\ t'.bar2Set = t.bar2Set /\ t'.bmeSet = t.bmeSet
      /\ t'.ok => t.ok /\ ok
  <2>1. PICK b \in BOOLEAN : b = (t.ok /\ ok)
    OBVIOUS
  <2>2. t' = [t EXCEPT !.ok = b]
    BY <1>3, <2>1
  <2>3. QED
    BY <1>1, <2>1, <2>2 DEF Typed, Locals
<1>6. /\ BesideCommand(hw', hw)
      /\ ok => hw'.mse = fw.mse /\ hw'.bme = fw.bme
  BY <1>2, <1>3, <1>4, CommandWritten
<1>7. g' \in Globals /\ (ok => g'.cmd = fw)
  BY <1>2, <1>3, <1>4 DEF Globals
<1>8. code'[2] \in Results
  BY <1>1, <1>3 DEF Typed, Results, Failures
<1>9. hw' \in Hardware
  BY <1>6 DEF BesideCommand
<1>10. ok => AsFound'
  BY <1>1, <1>4, <1>6, <1>7, <1>9, Words DEF AsFound, Command
<1>11. Typed'
  BY <1>1, <1>5, <1>7, <1>8, <1>9 DEF Typed, Places, Live
<1>12. LiveInv'
  BY <1>1, <1>2, <1>5, <1>6, <1>10 DEF LiveInv, BesideCommand
<1>13. QED
  BY <1>1, <1>11, <1>12, LiveArrives DEF Live

\* A state in which the window is back, the command word is the firmware's and
\* mastering is off ends well; so does one that is reported, with a window
\* that fits or without mastering.
LEMMA DoneWell ==
  ASSUME \/ AsFound' /\ hw'.bar2 = "original" /\ ~hw'.bme
         \/ Reported' /\ ~hw'.bme
         \/ Reported' /\ hw'.halted
         \/ Reported' /\ hw'.bar2 = "alias" /\ hw'.ptr = "ours"
  PROVE  DoneInv'
BY DEF DoneInv, RestoredOrReported, TranslationMatches, AsFound, Command

LEMMA Bar2Safe == SafeInv /\ CleanupBar2 => SafeInv'
<1> SUFFICES ASSUME SafeInv, CleanupBar2 PROVE SafeInv'
  OBVIOUS
<1>1. pc = "bar2" /\ pc' = "done" /\ UNCHANGED <<fw, g, t>> /\ Typed
  BY DEF CleanupBar2, Goto, SafeInv
<1>2. /\ hw.ptr = "ours" /\ hw.bar2 = "alias" /\ t.bar2Set /\ ~fw.bme
      /\ (t.ok => AsFound /\ hw.halted)
  BY <1>1 DEF SafeInv, LiveInv, Live
<1>3. CASE ~t.ok
  <2>1. code' = <<"INBOUND_RESTORE", "FAIL">> /\ UNCHANGED hw
    BY <1>2, <1>3 DEF CleanupBar2, Quiet
  <2>2. Typed'
    BY <1>1, <2>1 DEF Typed, Places, Results, Failures
  <2>3. Reported'
    BY <2>1 DEF Reported
  <2>4. QED
    BY <1>1, <1>2, <2>1, <2>2, <2>3, DoneWell, DoneArrives
<1>4. CASE t.ok
  <2>1. PICK ok \in BOOLEAN :
              /\ WriteBar2("original", ok)
              /\ code' = IF ok THEN code ELSE <<"INBOUND_RESTORE", "FAIL">>
    BY <1>2, <1>4 DEF CleanupBar2, Quiet
  <2>2. BesideBar2(hw', hw) /\ (ok => hw'.bar2 = "original")
    BY <1>1, <2>1, Bar2Written DEF Typed
  <2>3. Typed'
    BY <1>1, <2>1, <2>2 DEF Typed, Places, Results, Failures, BesideBar2
  <2>4. AsFound' /\ hw'.halted /\ ~hw'.bme
    <3>1. AsFound'
      BY <1>1, <1>2, <1>4, <2>2 DEF AsFound, Command, BesideBar2
    <3>2. ~hw.bme
      BY <1>1, <1>2, <1>4, Words DEF AsFound, Command, Typed
    <3>3. QED
      BY <1>2, <1>4, <2>2, <3>1, <3>2 DEF BesideBar2
  <2>5. ~ok => Reported'
    BY <2>1 DEF Reported
  <2>6. QED
    BY <1>1, <2>2, <2>3, <2>4, <2>5, DoneWell, DoneArrives
<1>5. QED
  BY <1>3, <1>4

LEMMA PreflightPciSafe == SafeInv /\ PreflightPci => SafeInv'
<1> SUFFICES ASSUME SafeInv, PreflightPci PROVE SafeInv'
  OBVIOUS
<1>1. pc = "preflight" /\ pc' = "preflight_bar2" /\ UNCHANGED <<fw, t>> /\ Typed
  BY DEF PreflightPci, Goto, SafeInv
<1>2. /\ t.orig = fw /\ ~fw.bme /\ ~hw.bme /\ hw.halted /\ ~hw.run /\ hw.ptr # "fw"
      /\ (~t.mseSet => AsFound) /\ (~t.bar2Set => hw.bar2 = "original")
  BY <1>1 DEF SafeInv, SetupInv, Setup
<1>3. CASE ~t.mseSet
  <2>1. UNCHANGED <<code, hw, g>>
    BY <1>3 DEF PreflightPci
  <2>2. Typed'
    BY <1>1, <2>1 DEF Typed, Places, Setup
  <2>3. AsFound'
    BY <1>1, <1>2, <1>3, <2>1 DEF AsFound, Command
  <2>4. SetupInv'
    BY <1>1, <1>2, <2>1, <2>3 DEF SetupInv, Setup
  <2>5. QED
    BY <1>1, <2>2, <2>4, SetupArrives DEF Setup
<1>4. CASE t.mseSet
  <2>1. PICK ok \in BOOLEAN :
              /\ WriteCommand(t.orig, ok)
              /\ code' = IF ok THEN code ELSE <<"PCI_RESTORE", "FAIL">>
              /\ g' = IF ok THEN [g EXCEPT !.cmd = t.orig] ELSE g
    BY <1>4 DEF PreflightPci
  <2>2. fw \in Word /\ g \in Globals /\ hw \in Hardware
    BY <1>1 DEF Typed
  <2>3. /\ BesideCommand(hw', hw) /\ hw' \in Hardware
        /\ ok => hw'.mse = fw.mse /\ hw'.bme = fw.bme
        /\ ~hw'.bme
    BY <1>2, <2>1, <2>2, CommandWritten DEF BesideCommand
  <2>4. g' \in Globals /\ (ok => g'.cmd = fw)
    BY <1>2, <2>1, <2>2 DEF Globals
  <2>5. code'[2] \in Results /\ (~ok => Reported')
    BY <1>1, <2>1 DEF Typed, Results, Failures, Reported
  <2>6. ok => AsFound'
    BY <1>1, <2>2, <2>3, <2>4, Words DEF AsFound, Command
  <2>7. Typed'
    BY <1>1, <2>3, <2>4, <2>5 DEF Typed, Places, Setup
  <2>8. SetupInv'
    BY <1>1, <1>2, <2>3, <2>5, <2>6 DEF SetupInv, Setup, BesideCommand
  <2>9. QED
    BY <1>1, <2>7, <2>8, SetupArrives DEF Setup
<1>5. QED
  BY <1>3, <1>4

LEMMA PreflightBar2Safe == SafeInv /\ PreflightBar2 => SafeInv'
<1> SUFFICES ASSUME SafeInv, PreflightBar2 PROVE SafeInv'
  OBVIOUS
<1>1. pc = "preflight_bar2" /\ pc' = "done" /\ UNCHANGED <<fw, g, t>> /\ Typed
  BY DEF PreflightBar2, Goto, SafeInv
<1>2. /\ ~hw.bme /\ (Reported \/ AsFound) /\ (~t.bar2Set => hw.bar2 = "original")
  BY <1>1 DEF SafeInv, SetupInv, Setup
<1>3. CASE ~t.bar2Set
  <2>1. UNCHANGED <<code, hw>>
    BY <1>3 DEF PreflightBar2
  <2>2. Typed'
    BY <1>1, <2>1 DEF Typed, Places
  <2>3. Reported' \/ AsFound'
    BY <1>1, <1>2, <2>1 DEF Reported, AsFound, Command
  <2>4. QED
    BY <1>1, <1>2, <1>3, <2>1, <2>2, <2>3, DoneWell, DoneArrives
<1>4. CASE t.bar2Set
  <2>1. PICK ok \in BOOLEAN :
              /\ WriteBar2("original", ok)
              /\ code' = IF ok THEN code ELSE <<"INBOUND_RESTORE", "FAIL">>
    BY <1>4 DEF PreflightBar2
  <2>2. BesideBar2(hw', hw) /\ (ok => hw'.bar2 = "original")
    BY <1>1, <2>1, Bar2Written DEF Typed
  <2>3. Typed'
    BY <1>1, <2>1, <2>2 DEF Typed, Places, Results, Failures, BesideBar2
  <2>4. Reported' \/ AsFound'
    <3>1. CASE Reported
      BY <1>1, <2>1, <3>1 DEF Reported
    <3>2. CASE AsFound
      BY <1>1, <2>2, <3>2 DEF AsFound, Command, BesideBar2
    <3>3. QED
      BY <1>2, <3>1, <3>2
  <2>5. ~hw'.bme /\ (~ok => Reported')
    BY <1>2, <2>1, <2>2 DEF BesideBar2, Reported
  <2>6. QED
    BY <1>1, <2>2, <2>3, <2>4, <2>5, DoneWell, DoneArrives
<1>5. QED
  BY <1>3, <1>4

LEMMA StopHaltSafe == SafeInv /\ LiveStopHalt => SafeInv'
<1> SUFFICES ASSUME SafeInv, LiveStopHalt PROVE SafeInv'
  OBVIOUS
<1>1. pc = "session" /\ pc' = "stop_pci" /\ UNCHANGED <<code, fw>> /\ Typed
  BY DEF LiveStopHalt, Goto, SafeInv
<1>2. /\ t.orig = fw /\ ~fw.bme /\ hw.ptr = "ours" /\ hw.bar2 = "alias" /\ t.bar2Set
      /\ t.bmeSet
  BY <1>1 DEF SafeInv, LiveInv, Live
<1>3. PICK ok \in BOOLEAN : Halt(ok) /\ t' = [t EXCEPT !.ok = ok]
  BY DEF LiveStopHalt
<1>4. /\ t' \in Locals /\ t'.orig = t.orig /\ t'.bar2Set = t.bar2Set /\ t'.bmeSet = t.bmeSet
      /\ t'.ok = ok
  BY <1>1, <1>3 DEF Typed, Locals
<1>5. /\ hw' \in Hardware /\ hw'.bar2 = hw.bar2 /\ hw'.ptr = hw.ptr
      /\ ok => hw'.halted
  BY <1>1, <1>3, Halted DEF Typed
<1>6. g' \in Globals
  BY <1>1 DEF Typed, Globals, LiveStopHalt
<1>7. Typed'
  BY <1>1, <1>4, <1>5, <1>6 DEF Typed, Places, Live
<1>8. LiveInv'
  BY <1>1, <1>2, <1>4, <1>5 DEF LiveInv
<1>9. QED
  BY <1>1, <1>7, <1>8, LiveArrives DEF Live

LEMMA StopPciSafe == SafeInv /\ LiveStopPci => SafeInv'
<1> SUFFICES ASSUME SafeInv, LiveStopPci PROVE SafeInv'
  OBVIOUS
<1>1. pc = "stop_pci" /\ UNCHANGED <<fw, t>> /\ Typed
  BY DEF LiveStopPci, SafeInv
<1>2. /\ t.orig = fw /\ ~fw.bme /\ hw.ptr = "ours" /\ hw.bar2 = "alias" /\ t.bar2Set
      /\ t.bmeSet /\ (t.ok => hw.halted)
  BY <1>1 DEF SafeInv, LiveInv, Live
<1>3. PICK ok \in BOOLEAN :
        /\ WriteCommand(t.orig, ok)
        /\ g' = IF ok THEN [g EXCEPT !.cmd = t.orig] ELSE g
        /\ IF ok /\ t.ok THEN pc' = "stop_bar2" /\ UNCHANGED code
           ELSE pc' = "done" /\ code' = (IF t.ok THEN <<"PCI_RESTORE", "FAIL">>
                                         ELSE <<"STOP", "TIMEOUT">>)
  BY DEF LiveStopPci, Quiet, Goto, Fail
<1>4. fw \in Word /\ g \in Globals /\ hw \in Hardware
  BY <1>1 DEF Typed
<1>5. /\ BesideCommand(hw', hw) /\ hw' \in Hardware
      /\ ok => hw'.mse = fw.mse /\ hw'.bme = fw.bme
  BY <1>2, <1>3, <1>4, CommandWritten DEF BesideCommand
<1>6. g' \in Globals /\ (ok => g'.cmd = fw)
  BY <1>2, <1>3, <1>4 DEF Globals
<1>7. code'[2] \in Results /\ pc' \in {"done", "stop_bar2"}
  BY <1>1, <1>3 DEF Typed, Results, Failures
<1>8. Typed'
  BY <1>1, <1>5, <1>6, <1>7 DEF Typed, Places, Live
<1>9. CASE ok /\ t.ok
  <2>1. AsFound' /\ pc' = "stop_bar2" /\ hw'.halted
    BY <1>1, <1>2, <1>3, <1>4, <1>5, <1>6, <1>9, Words DEF AsFound, Command, BesideCommand
  <2>2. LiveInv'
    BY <1>1, <1>2, <1>5, <2>1 DEF LiveInv, BesideCommand
  <2>3. QED
    BY <1>8, <2>1, <2>2, LiveArrives DEF Live
<1>10. CASE ~(ok /\ t.ok)
  <2>1. pc' = "done" /\ Reported'
    BY <1>3, <1>10 DEF Reported
  <2>2. hw'.bar2 = "alias" /\ hw'.ptr = "ours"
    BY <1>2, <1>5 DEF BesideCommand
  <2>3. QED
    BY <1>8, <2>1, <2>2, DoneWell, DoneArrives
<1>11. QED
  BY <1>9, <1>10

LEMMA StopBar2Safe == SafeInv /\ LiveStopBar2 => SafeInv'
<1> SUFFICES ASSUME SafeInv, LiveStopBar2 PROVE SafeInv'
  OBVIOUS
<1>1. pc = "stop_bar2" /\ pc' = "done" /\ UNCHANGED <<fw, g, t>> /\ Typed
  BY DEF LiveStopBar2, Goto, SafeInv
<1>2. ~fw.bme /\ AsFound
  BY <1>1 DEF SafeInv, LiveInv, Live
<1>3. PICK ok \in BOOLEAN :
        /\ WriteBar2("original", ok)
        /\ code' = IF ok THEN code ELSE <<"INBOUND_RESTORE", "FAIL">>
  BY DEF LiveStopBar2
<1>4. BesideBar2(hw', hw) /\ (ok => hw'.bar2 = "original")
  BY <1>1, <1>3, Bar2Written DEF Typed
<1>5. Typed'
  BY <1>1, <1>3, <1>4 DEF Typed, Places, Results, Failures, BesideBar2
<1>6. AsFound'
  BY <1>1, <1>2, <1>4 DEF AsFound, Command, BesideBar2
<1>7. ~hw'.bme
  <2>1. ~hw.bme
    BY <1>1, <1>2, Words DEF AsFound, Command, Typed
  <2>2. QED
    BY <1>4, <2>1 DEF BesideBar2
<1>8. ~ok => Reported'
  BY <1>3 DEF Reported
<1>9. QED
  BY <1>1, <1>4, <1>5, <1>6, <1>7, <1>8, DoneWell, DoneArrives

LEMMA LateSafe == SafeInv /\ HaltsLate => SafeInv'
<1> SUFFICES ASSUME SafeInv, HaltsLate PROVE SafeInv'
  OBVIOUS
<1>1. UNCHANGED <<pc, code, fw, g, t>> /\ Typed
  BY DEF HaltsLate, SafeInv
<1>2. /\ hw' \in Hardware /\ hw'.mse = hw.mse /\ hw'.bme = hw.bme /\ hw'.bar2 = hw.bar2
      /\ hw'.ptr = hw.ptr /\ hw'.run = hw.run /\ hw'.halted
  BY <1>1 DEF HaltsLate, Typed, Hardware
<1>3. Typed' /\ Command' = Command
  BY <1>1, <1>2 DEF Typed, Command
<1>4. (AsFound' <=> AsFound) /\ (Reported' <=> Reported)
  BY <1>1, <1>3 DEF AsFound, Reported
<1>5. PreGateInv'
  BY <1>1, <1>2, <1>3, <1>4 DEF SafeInv, PreGateInv
<1>6. SetupInv'
  BY <1>1, <1>2, <1>4 DEF SafeInv, SetupInv
<1>7. LiveInv'
  BY <1>1, <1>2, <1>4 DEF SafeInv, LiveInv
<1>8. DoneInv'
  BY <1>1, <1>2, <1>3, <1>4 DEF SafeInv, DoneInv, RestoredOrReported, TranslationMatches
<1>9. QED
  BY <1>3, <1>5, <1>6, <1>7, <1>8 DEF SafeInv

LEMMA EnumKeeps ==
  ASSUME SafeInv, RootDevice \/ Hub \/ Child \/ Cleanup
  PROVE  EnumStep
<1>1. Typed /\ (pc = "cleanup" => t.bmeSet)
  BY DEF SafeInv, LiveInv, Live, Enumeration
<1>2. QED
  BY <1>1, RootSteps, HubSteps, ChildSteps, CleanupSteps

LEMMA StutterSafe == SafeInv /\ UNCHANGED vars => SafeInv'
<1> SUFFICES ASSUME SafeInv, UNCHANGED vars PROVE SafeInv'
  OBVIOUS
<1>1. UNCHANGED <<pc, code, hw, fw, g, t>>
  BY DEF vars
<1>2. Typed' /\ Command' = Command
  BY <1>1 DEF SafeInv, Typed, Command
<1>3. (AsFound' <=> AsFound) /\ (Reported' <=> Reported)
  BY <1>1, <1>2 DEF AsFound, Reported
<1>4. PreGateInv' /\ SetupInv' /\ LiveInv'
  BY <1>1, <1>2, <1>3 DEF SafeInv, PreGateInv, SetupInv, LiveInv
<1>5. DoneInv'
  BY <1>1, <1>2, <1>3 DEF SafeInv, DoneInv, RestoredOrReported, TranslationMatches
<1>6. QED
  BY <1>2, <1>4, <1>5 DEF SafeInv

LEMMA NextSafe ==
  ASSUME SafeInv, [Next]_vars
  PROVE  SafeInv'
<1>1. CASE PreRun
  BY <1>1, ReadonlySafe, FirstFunctionSafe, CapsEnableSafe, CapsReadSafe, SnapshotSafe,
     HandoffSafeStep, PollSafe, ResetSafeStep, RestoreSafe, CpuSafe, GateSafe, MseSafe,
     OperationalSafe, AliasSafe, RingsSafe, ReadbackSafe DEF PreRun
<1>2. CASE Running
  BY <1>2, RunningSafe
<1>3. CASE RootDevice \/ Hub \/ Child \/ Cleanup
  BY <1>3, EnumKeeps, EnumSafe
<1>4. CASE Finish
  BY <1>3, <1>4, HaltSafe, PciSafe, Bar2Safe, PreflightPciSafe, PreflightBar2Safe,
     StopHaltSafe, StopPciSafe, StopBar2Safe DEF Finish
<1>5. CASE FirmwareReleases \/ HaltsLate
  BY <1>5, ReleaseSafe, LateSafe
<1>6. CASE UNCHANGED vars
  BY <1>6, StutterSafe
<1>7. QED
  BY <1>1, <1>2, <1>3, <1>4, <1>5, <1>6 DEF Next, Probe

\* At every place of the probe the registers that it has written are known, or
\* a flag says that they have to be put back (pi4_xhci_dma_noop_probe and
\* pi4_xhci_probe_capabilities, kernel_stub.c).
THEOREM ProbeInvariant == Spec => []SafeInv
<1>1. Init => SafeInv
  BY InitSafe
<1>2. SafeInv /\ [Next]_vars => SafeInv'
  BY NextSafe
<1>3. QED
  BY <1>1, <1>2, PTL DEF Spec

\* On any hardware, a running controller that masters the bus uses addresses
\* that the inbound window translates as they were meant: no order of aborted
\* writes in the preflight, in the cleanup or in the stop of a session takes
\* the window away under it.
THEOREM WindowMatches == Spec => []TranslationMatches
<1>1. SafeInv => TranslationMatches
  <2> SUFFICES ASSUME SafeInv PROVE TranslationMatches
    OBVIOUS
  <2>1. CASE pc \in PreGate
    BY <2>1 DEF SafeInv, PreGateInv, TranslationMatches
  <2>2. CASE pc \in Setup
    BY <2>2 DEF SafeInv, SetupInv, TranslationMatches
  <2>3. CASE pc \in Live
    BY <2>3 DEF SafeInv, LiveInv, TranslationMatches
  <2>4. CASE pc = "done"
    BY <2>4 DEF SafeInv, DoneInv
  <2>5. QED
    BY <2>1, <2>2, <2>3, <2>4 DEF SafeInv, Typed, Places
<1>2. QED
  BY <1>1, ProbeInvariant, PTL

\* On any hardware, when the probe or a session is over the PCI command word
\* and the inbound window are the firmware's and g_pi4_cfg_command agrees with
\* the hardware, or the state code reports that they are not.
THEOREM EndsRestored == Spec => []RestoredOrReported
<1>1. SafeInv => RestoredOrReported
  BY DEF SafeInv, DoneInv, RestoredOrReported
<1>2. QED
  BY <1>1, ProbeInvariant, PTL

-----------------------------------------------------------------------------
(* What is claimed of the firmware.                                        *)

\* The step claims the controller or takes its pointers away.
Claims == hw'.os # hw.os \/ (hw.ptr = "fw" /\ hw'.ptr # "fw")

LEMMA PreRunClaims ==
  ASSUME SafeInv, PreRun, Claims
  PROVE  hw.halted /\ ~hw.run /\ ~hw.bme
<1>1. Typed
  BY DEF SafeInv
<1>2. hw' # hw
  BY DEF Claims
<1>3. CASE CapsEnable
  <2>1. PICK c \in Word : c = [mse |-> TRUE, bme |-> FALSE]
    BY Words
  <2>2. \E ok \in BOOLEAN : WriteCommand(c, ok)
    BY <1>2, <1>3, <2>1 DEF CapsEnable
  <2>3. QED
    BY <1>1, <2>2, CommandWritten DEF Typed, Claims, BesideCommand
<1>4. CASE LegacyHandoff
  <2>1. pc = "handoff" /\ HandoffSafe(t.run, t.halted)
    BY <1>2, <1>4 DEF LegacyHandoff
  <2>2. QED
    BY <2>1 DEF SafeInv, PreGateInv, Decoding, HandoffSafe
<1>5. CASE ResetHalted
  <2>1. pc = "reset" /\ hw.halted /\ ~hw.run
    BY <1>2, <1>5 DEF ResetHalted, ResetSafe
  <2>2. QED
    BY <2>1 DEF SafeInv, PreGateInv, Decoding
<1>6. CASE CapsRestore
  <2>1. g.cmd \in Word
    BY <1>1 DEF Typed, Globals
  <2>2. PICK c \in Word : c = g.cmd
    BY <2>1
  <2>3. \E ok \in BOOLEAN : WriteCommand(c, ok)
    BY <1>2, <1>6, <2>2 DEF CapsRestore
  <2>4. QED
    BY <1>1, <2>3, CommandWritten DEF Typed, Claims, BesideCommand
<1>7. CASE EnableMse
  <2>1. PICK c \in Word : c = [mse |-> TRUE, bme |-> FALSE]
    BY Words
  <2>2. \E ok \in BOOLEAN : WriteCommand(c, ok)
    BY <1>2, <1>7, <2>1 DEF EnableMse
  <2>3. QED
    BY <1>1, <2>2, CommandWritten DEF Typed, Claims, BesideCommand
<1>8. CASE WriteAlias
  <2>1. \E ok \in BOOLEAN : WriteBar2("alias", ok)
    BY <1>8 DEF WriteAlias
  <2>2. QED
    BY <1>1, <2>1, Bar2Written DEF Typed, Claims, BesideBar2
<1>9. CASE ProgramRings
  <2>1. pc = "program"
    BY <1>9 DEF ProgramRings
  <2>2. QED
    BY <2>1 DEF SafeInv, SetupInv, Setup
<1>10. QED
  BY <1>2, <1>3, <1>4, <1>5, <1>6, <1>7, <1>8, <1>9 DEF PreRun, ProbeReadonly,
     ProbeFirstFunction, CapsRead, SnapshotState, LegacyPoll, CpuCacheProbe, NoopGate,
     ReadOperational, ReadbackSetup

LEMMA LaterClaims ==
  ASSUME SafeInv, Running \/ Finish \/ FirmwareReleases \/ HaltsLate
  PROVE  ~Claims
<1>1. Typed
  BY DEF SafeInv
<1>2. ASSUME NEW c \in Word, NEW ok \in BOOLEAN, WriteCommand(c, ok) PROVE ~Claims
  BY <1>1, <1>2, CommandWritten DEF Typed, Claims, BesideCommand
<1>3. ASSUME NEW ok \in BOOLEAN, WriteBar2("original", ok) PROVE ~Claims
  BY <1>1, <1>3, Bar2Written DEF Typed, Claims, BesideBar2
<1>4. ASSUME NEW ok \in BOOLEAN, Halt(ok) PROVE ~Claims
  BY <1>1, <1>4, Halted DEF Typed, Claims
<1>5. ASSUME hw' = hw PROVE ~Claims
  BY <1>5 DEF Claims
<1>6. PICK o \in Word : o = t.orig
  BY <1>1 DEF Typed, Locals
<1>7. PICK c \in Word : c = [mse |-> TRUE, bme |-> TRUE]
  BY Words
<1>8. CASE EnableBme
  <2>1. \E ok \in BOOLEAN : WriteCommand(c, ok)
    BY <1>7, <1>8 DEF EnableBme
  <2>2. QED
    BY <1>2, <2>1
<1>9. CASE RunController
  BY <1>1, <1>9 DEF RunController, Typed, Hardware, Claims
<1>10. CASE CleanupHalt \/ LiveStopHalt
  <2>1. \E ok \in BOOLEAN : Halt(ok)
    BY <1>10 DEF CleanupHalt, LiveStopHalt
  <2>2. QED
    BY <1>4, <2>1
<1>11. CASE CleanupPci \/ PreflightPci \/ LiveStopPci
  <2>1. hw' = hw \/ \E ok \in BOOLEAN : WriteCommand(o, ok)
    BY <1>6, <1>11 DEF CleanupPci, PreflightPci, LiveStopPci
  <2>2. QED
    BY <1>2, <1>5, <2>1
<1>12. CASE CleanupBar2 \/ PreflightBar2 \/ LiveStopBar2
  <2>1. hw' = hw \/ \E ok \in BOOLEAN : WriteBar2("original", ok)
    BY <1>12 DEF CleanupBar2, PreflightBar2, LiveStopBar2
  <2>2. QED
    BY <1>3, <1>5, <2>1
<1>13. CASE FirmwareReleases \/ HaltsLate
  BY <1>1, <1>13 DEF FirmwareReleases, HaltsLate, Typed, Hardware, Claims
<1>14. CASE Cleanup
  BY <1>5, <1>14 DEF Cleanup
<1>15. CASE Running /\ ~EnableBme /\ ~RunController
  BY <1>5, <1>15 DEF Running, PortResetProbe, MfindexWrapProbe, EnableSlot, AddressDevice,
     DeviceDescriptor, ConfigHeader, Stage
<1>16. QED
  BY <1>8, <1>9, <1>10, <1>11, <1>12, <1>13, <1>14, <1>15 DEF Finish

\* The legacy ownership is claimed, and the controller's pointers are taken
\* away by the reset or by the programming of our rings, only while the
\* controller is halted and does not master the bus, whatever state the
\* firmware left it in and whichever accesses abort
\* (pi4_xhci_probe_capabilities, kernel_stub.c).
THEOREM ClaimsQuietly == Spec => ClaimedQuietly
<1>1. ASSUME SafeInv, [Next]_vars
      PROVE  [Claims => hw.halted /\ ~hw.run /\ ~hw.bme]_vars
  <2>1. CASE PreRun
    BY <1>1, <2>1, PreRunClaims
  <2>2. CASE Running \/ Finish \/ FirmwareReleases \/ HaltsLate
    BY <1>1, <2>2, LaterClaims
  <2>3. CASE RootDevice \/ Hub \/ Child
    BY <1>1, <2>3, EnumKeeps DEF EnumStep, Claims
  <2>4. QED
    BY <1>1, <2>1, <2>2, <2>3 DEF Next, Probe
<1>2. QED
  BY <1>1, ProbeInvariant, PTL DEF Spec, ClaimedQuietly, Claims

-----------------------------------------------------------------------------
(* The positions of the rings, the scan and what was found have their types. *)

LEMMA RingMoves ==
  ASSUME RingsTyped, NEW r \in Rings, NEW i \in Nat, NEW len \in Nat, i + len <= Link,
         r # "cmd" => i + len < Link,
         deq' = deq \/ deq' = [deq EXCEPT ![r] = After(r, i, len)],
         fs' = fs, dev' \in Found
  PROVE  RingsTyped'
<1>1. After(r, i, len) \in 0 .. Link - 1
  BY DEF After, Link
<1>2. PICK a \in 0 .. Link - 1 : a = After(r, i, len)
  BY <1>1
<1>3. QED
  BY <1>2 DEF RingsTyped

LEMMA StageRings ==
  ASSUME RingsTyped, NEW l, NEW next, NEW r \in Rings, NEW i \in Nat, NEW len \in Nat,
         i + len <= Link, r # "cmd" => i + len < Link,
         NEW name, Stage(l, r, i, len, name, next)
  PROVE  RingsTyped'
<1>1. deq' = deq \/ deq' = [deq EXCEPT ![r] = After(r, i, len)]
  BY DEF Stage, Completes, Miss
<1>2. fs' = fs /\ dev' \in Found
  BY DEF Stage, RingsTyped
<1>3. QED
  BY <1>1, <1>2, RingMoves

LEMMA DirectRings ==
  ASSUME RingsTyped, NEW l, NEW next, NEW r \in Rings, NEW i \in Nat, NEW len \in Nat,
         i + len <= Link, r # "cmd" => i + len < Link,
         NEW bad, Direct(l, r, i, len, bad, next)
  PROVE  RingsTyped'
<1>1. deq' = deq \/ deq' = [deq EXCEPT ![r] = After(r, i, len)]
  BY DEF Direct, Completes
<1>2. fs' = fs /\ dev' \in Found
  BY DEF Direct, RingsTyped
<1>3. QED
  BY <1>1, <1>2, RingMoves

\* A read moves the scan on by one command, or by two if it is retried.
Moves(f) ==
    \/ /\ Sendable(1) /\ Sent(1)
       /\ fs' = [f EXCEPT !.n = fs.n + 1, !.attempt = 0]
    \/ /\ Sendable(2) /\ fs.attempt < 2 /\ Sent(2)
       /\ fs' = [fs EXCEPT !.n = @ + 2, !.attempt = @ + 1]
    \/ UNCHANGED <<deq, fs>>

LEMMA ReadRings ==
  ASSUME Sized, RingsTyped, dev' = dev, NEW f \in Scan, Moves(f)
  PROVE  RingsTyped'
<1>1. BotCommands \in Nat /\ BotCommands <= 126 /\ fs \in Scan
      /\ deq \in [Rings -> 0 .. Link - 1] /\ dev \in Found
  BY DEF Sized, RingsTyped
<1>2. fs.n \in 0 .. BotCommands /\ fs.attempt \in 0 .. 2
  BY <1>1 DEF Scan
<1>3. ASSUME NEW k \in 1 .. 2, Sendable(k), Sent(k)
      PROVE  /\ deq' \in [Rings -> 0 .. Link - 1]
             /\ fs.n + k \in 0 .. BotCommands
  <2>1. fs.n + k \in 0 .. BotCommands /\ deq["out"] = 1 + fs.n /\ deq["in"] = 2 + 2 * fs.n
    BY <1>1, <1>2, <1>3 DEF Sendable
  <2>2. PICK a, b \in 0 .. Link - 1 : a = deq["out"] + k /\ b = deq["in"] + 2 * k
    <3>1. PICK m \in Nat : m = fs.n
      BY <1>1, <1>2
    <3>2. m + k <= 126 /\ k \in 1 .. 2
      BY <1>1, <2>1, <3>1
    <3>3. 1 + m + k \in 0 .. 254 /\ 2 + 2 * m + 2 * k \in 0 .. 254
      BY <3>2
    <3>4. PICK a \in 0 .. 254, b \in 0 .. 254 : a = 1 + m + k /\ b = 2 + 2 * m + 2 * k
      BY <3>3
    <3>5. a = deq["out"] + k
      BY <2>1, <3>1, <3>4
    <3>6. b = deq["in"] + 2 * k
      BY <2>1, <3>1, <3>4
    <3>7. a \in 0 .. Link - 1 /\ b \in 0 .. Link - 1
      BY DEF Link
    <3>8. QED
      BY <3>5, <3>6, <3>7
  <2>3. deq' = [deq EXCEPT !["out"] = a, !["in"] = b]
    BY <1>1, <1>3, <2>2 DEF Sent, Rings
  <2>4. QED
    BY <1>1, <2>1, <2>3
<1>4. CASE /\ Sendable(1) /\ Sent(1)
           /\ fs' = [f EXCEPT !.n = fs.n + 1, !.attempt = 0]
  <2>1. PICK m \in 0 .. BotCommands : m = fs.n + 1
    BY <1>3, <1>4
  <2>2. fs' = [f EXCEPT !.n = m, !.attempt = 0]
    BY <1>4, <2>1
  <2>3. fs' \in Scan
    <3>1. 0 \in 0 .. 2 /\ f \in Scan
      OBVIOUS
    <3>2. QED
      BY <2>2, <3>1 DEF Scan
  <2>4. QED
    BY <1>1, <1>3, <1>4, <2>3 DEF RingsTyped
<1>5. CASE /\ Sendable(2) /\ fs.attempt < 2 /\ Sent(2)
           /\ fs' = [fs EXCEPT !.n = @ + 2, !.attempt = @ + 1]
  <2>1. PICK m \in 0 .. BotCommands : m = fs.n + 2
    BY <1>3, <1>5
  <2>2. PICK a \in 0 .. 2 : a = fs.attempt + 1
    BY <1>2, <1>5
  <2>3. fs' = [fs EXCEPT !.n = m, !.attempt = a]
    BY <1>5, <2>1, <2>2
  <2>4. fs' \in Scan
    BY <1>1, <2>3 DEF Scan
  <2>5. QED
    BY <1>1, <1>3, <1>5, <2>4 DEF RingsTyped
<1>6. CASE UNCHANGED <<deq, fs>>
  BY <1>6 DEF RingsTyped
<1>7. QED
  BY <1>4, <1>5, <1>6 DEF Moves

LEMMA PreRunRings ==
  ASSUME Sized, Typed, RingsTyped, PreRun PROVE RingsTyped'
<1>1. /\ {"cmd", "ep0", "child", "in", "out"} = Rings /\ Link = 255
      /\ fs \in Scan /\ dev \in Found
  BY DEF Rings, Link, RingsTyped
<1>2. CASE ProgramRings
  <2>1. UNCHANGED <<dev, fs>>
    BY <1>2 DEF ProgramRings
  <2>2. deq' = deq \/ deq' = [r \in Rings |-> IF r = "cmd" THEN 248 ELSE 0]
    BY <1>2 DEF ProgramRings, FirstCommand
  <2>3. deq' \in [Rings -> 0 .. Link - 1]
    BY <1>1, <2>2 DEF RingsTyped
  <2>4. QED
    BY <2>1, <2>3 DEF RingsTyped
<1>3. CASE ProbeReadonly \/ ProbeFirstFunction \/ CapsEnable \/ CapsRead \/ SnapshotState \/ LegacyHandoff \/ LegacyPoll \/ ResetHalted \/ CapsRestore \/ CpuCacheProbe \/ NoopGate \/ EnableMse \/ ReadOperational \/ WriteAlias \/ ReadbackSetup
  <2>1. UNCHANGED <<dev, deq, fs>>
    BY <1>3 DEF Scanning, ProbeReadonly, ProbeFirstFunction, CapsEnable, CapsRead, SnapshotState, LegacyHandoff, LegacyPoll, ResetHalted, CapsRestore, CpuCacheProbe, NoopGate, EnableMse, ReadOperational, WriteAlias, ReadbackSetup
  <2>2. QED
    BY <2>1 DEF RingsTyped
<1>4. QED
  BY <1>2, <1>3 DEF PreRun

LEMMA RunningRings ==
  ASSUME Sized, Typed, RingsTyped, Running PROVE RingsTyped'
<1>1. /\ {"cmd", "ep0", "child", "in", "out"} = Rings /\ Link = 255
      /\ fs \in Scan /\ dev \in Found
  BY DEF Rings, Link, RingsTyped
<1>2. CASE PortResetProbe
  <2>1. dev' \in Found /\ UNCHANGED <<deq, fs>>
    BY <1>1, <1>2 DEF PortResetProbe, Found
  <2>2. QED
    BY <2>1 DEF RingsTyped
<1>3. CASE EnableSlot
  <2>1. dev' \in Found
    BY <1>1, <1>3 DEF EnableSlot, Stage
  <2>2. deq' = deq \/ deq' = [deq EXCEPT !["cmd"] = After("cmd", 248, 1)]
    BY <1>3 DEF EnableSlot, Stage, Completes, Miss
  <2>3. fs' = fs
    BY <1>3 DEF EnableSlot, Stage
  <2>4. QED
    BY <1>1, <2>1, <2>2, <2>3, RingMoves
<1>4. CASE AddressDevice
  BY <1>1, <1>4, StageRings DEF AddressDevice
<1>5. CASE DeviceDescriptor
  <2>1. dev' \in Found
    BY <1>1, <1>5 DEF DeviceDescriptor, Found
  <2>2. deq' = deq \/ deq' = [deq EXCEPT !["ep0"] = After("ep0", 0, 3)]
    BY <1>5 DEF DeviceDescriptor, Completes, Miss
  <2>3. fs' = fs
    BY <1>5 DEF DeviceDescriptor
  <2>4. QED
    BY <1>1, <2>1, <2>2, <2>3, RingMoves
<1>6. CASE ConfigHeader
  BY <1>1, <1>6, StageRings DEF ConfigHeader
<1>7. CASE EnableBme \/ RunController \/ MfindexWrapProbe
  <2>1. UNCHANGED <<dev, deq, fs>>
    BY <1>7 DEF Scanning, EnableBme, RunController, MfindexWrapProbe
  <2>2. QED
    BY <2>1 DEF RingsTyped
<1>8. QED
  BY <1>2, <1>3, <1>4, <1>5, <1>6, <1>7 DEF Running

LEMMA RootRings ==
  ASSUME Sized, Typed, RingsTyped, RootDevice PROVE RingsTyped'
<1>1. /\ {"cmd", "ep0", "child", "in", "out"} = Rings /\ Link = 255
      /\ fs \in Scan /\ dev \in Found
  BY DEF Rings, Link, RingsTyped
<1>2. CASE RootConfigFull
  <2>1. dev' \in Found
    BY <1>1, <1>2 DEF RootConfigFull, Direct
  <2>2. deq' = deq \/ deq' = [deq EXCEPT !["ep0"] = After("ep0", 6, 3)]
    BY <1>2 DEF RootConfigFull, Direct, Completes, Fail
  <2>3. fs' = fs
    BY <1>2 DEF RootConfigFull, Direct
  <2>4. QED
    BY <1>1, <2>1, <2>2, <2>3, RingMoves
<1>3. CASE RootSetConfig
  BY <1>1, <1>3, DirectRings DEF RootSetConfig
<1>4. CASE RootGetConfig
  BY <1>1, <1>4, DirectRings DEF RootGetConfig
<1>5. CASE RootMaxLun
  <2>1. dev' \in Found
    BY <1>1, <1>5 DEF RootMaxLun, Direct
  <2>2. deq' = deq \/ deq' = [deq EXCEPT !["ep0"] = After("ep0", 14, 3)]
    BY <1>5 DEF RootMaxLun, Direct, Completes, Fail
  <2>3. fs' = fs
    BY <1>5 DEF RootMaxLun, Direct
  <2>4. QED
    BY <1>1, <2>1, <2>2, <2>3, RingMoves
<1>6. CASE RootBulkGuard
  BY <1>1, <1>6, DirectRings DEF RootBulkGuard
<1>7. CASE RootBulkConfigure
  BY <1>1, <1>7, DirectRings DEF RootBulkConfigure
<1>8. CASE InquiryCbw
  BY <1>1, <1>8, DirectRings DEF InquiryCbw
<1>9. CASE InquiryData
  BY <1>1, <1>9, DirectRings DEF InquiryData
<1>10. CASE InquiryCsw
  BY <1>1, <1>10, DirectRings DEF InquiryCsw
<1>11. CASE ReadCapacity
  <2>1. Moves(fs) /\ dev' = dev
    BY <1>11 DEF ReadCapacity, Read, Moves, Scanning
  <2>2. QED
    BY <1>1, <2>1, ReadRings
<1>12. CASE ReadBlock
  <2>1. PICK p \in 0 .. 1 : p = 1 - fs.pass
    BY <1>1 DEF Scan
  <2>2. PICK f \in Scan : f = [fs EXCEPT !.pass = p]
    BY <1>1 DEF Scan
  <2>3. Moves(f) /\ dev' = dev
    BY <1>12, <2>1, <2>2 DEF ReadBlock, Read, Moves, Scanning
  <2>4. QED
    BY <2>3, ReadRings
<1>13. CASE FindVolume
  <2>1. UNCHANGED <<dev, deq>>
    BY <1>13 DEF FindVolume, Scanning
  <2>2. fs' = fs \/ \E s \in Nat \ {0} : fs' = [fs EXCEPT !.spc = s]
    BY <1>13, ProbeAssumption DEF FindVolume
  <2>3. fs' \in Scan
    BY <1>1, <2>2 DEF Scan
  <2>4. QED
    BY <2>1, <2>3 DEF RingsTyped
<1>14. CASE ReadBootSector
  <2>1. Moves(fs) /\ dev' = dev
    BY <1>14 DEF ReadBootSector, Read, Moves, Scanning
  <2>2. QED
    BY <1>1, <2>1, ReadRings
<1>15. CASE ReadRootFat
  <2>1. PICK f \in Scan : f = [fs EXCEPT !.sector = 0]
    BY <1>1 DEF Scan
  <2>2. Moves(f) /\ dev' = dev
    BY <1>15, <2>1 DEF ReadRootFat, Read, Moves, Scanning
  <2>3. QED
    BY <2>2, ReadRings
<1>16. CASE ReadRootDirectory
  <2>1. dev' = dev
    BY <1>16 DEF ReadRootDirectory, Scanning
  <2>2. CASE fs.dir >= SectorLimit
    <3>1. deq' = deq /\ fs' = [fs EXCEPT !.sector = 0, !.hop = 0]
      BY <1>1, <1>16, <2>2 DEF ReadRootDirectory, Scan, SectorLimit
    <3>2. fs' \in Scan
      BY <1>1, <3>1 DEF Scan
    <3>3. QED
      BY <2>1, <3>1, <3>2 DEF RingsTyped
  <2>3. CASE fs.dir < SectorLimit
    <3>1. PICK d \in 0 .. SectorLimit, s \in Nat, h \in Nat :
             d = fs.dir + 1 /\ s = fs.sector + 1 /\ h = fs.hop + 1
      BY <1>1, <2>3 DEF Scan, SectorLimit
    <3>2. PICK f1 \in Scan : f1 = [fs EXCEPT !.dir = d, !.sector = 0, !.hop = 0]
      BY <1>1 DEF Scan
    <3>3. PICK f2 \in Scan : f2 = [fs EXCEPT !.dir = d, !.sector = s]
      BY <1>1 DEF Scan
    <3>4. PICK f3 \in Scan : f3 = [fs EXCEPT !.dir = d, !.hop = h]
      BY <1>1 DEF Scan
    <3>5. ~(fs.dir >= SectorLimit)
      BY <1>1, <2>3 DEF Scan, SectorLimit
    <3>6. Moves(f1) \/ Moves(f2) \/ Moves(f3)
      BY <1>16, <3>1, <3>2, <3>3, <3>4, <3>5 DEF ReadRootDirectory, Read, Moves
    <3>7. QED
      BY <2>1, <3>6, ReadRings
  <2>4. QED
    BY <1>1, <2>2, <2>3 DEF Scan, SectorLimit
<1>17. CASE ReadFileFat
  <2>1. Moves(fs) /\ dev' = dev
    BY <1>17 DEF ReadFileFat, Read, Moves, Scanning
  <2>2. QED
    BY <1>1, <2>1, ReadRings
<1>18. CASE ReadFileData
  <2>1. dev' = dev
    BY <1>18 DEF ReadFileData, Scanning
  <2>2. PICK h \in Nat : h = fs.hop + 1
    BY <1>1 DEF Scan
  <2>3. PICK f1 \in Scan : f1 = [fs EXCEPT !.hop = h]
    BY <1>1 DEF Scan
  <2>4. PICK f2 \in Scan : f2 = [fs EXCEPT !.hop = 0, !.pass = 1]
    <3>1. 1 \in 0 .. 1 /\ 0 \in Nat
      OBVIOUS
    <3>2. [fs EXCEPT !.hop = 0, !.pass = 1] \in Scan
      BY <1>1, <3>1 DEF Scan
    <3>3. QED
      BY <3>2
  <2>5. Moves(f1) \/ Moves(f2) \/ Moves(fs)
    BY <1>18, <2>2, <2>3, <2>4 DEF ReadFileData, Read, Moves
  <2>6. QED
    BY <1>1, <2>1, <2>5, ReadRings
<1>19. CASE FindFile
  <2>1. UNCHANGED <<dev, deq, fs>>
    BY <1>19 DEF Scanning, FindFile
  <2>2. QED
    BY <2>1 DEF RingsTyped
<1>20. QED
  BY <1>2, <1>3, <1>4, <1>5, <1>6, <1>7, <1>8, <1>9, <1>10, <1>11, <1>12, <1>13, <1>14, <1>15, <1>16, <1>17, <1>18, <1>19 DEF RootDevice

LEMMA HubRings ==
  ASSUME Sized, Typed, RingsTyped, Hub PROVE RingsTyped'
<1>1. /\ {"cmd", "ep0", "child", "in", "out"} = Rings /\ Link = 255
      /\ fs \in Scan /\ dev \in Found
  BY DEF Rings, Link, RingsTyped
<1>2. CASE HubSetConfig
  BY <1>1, <1>2, StageRings DEF HubSetConfig
<1>3. CASE HubDescriptor
  BY <1>1, <1>3, StageRings DEF HubDescriptor
<1>4. CASE PortPower
  <2>1. UNCHANGED <<dev, fs>> /\ t.i \in 0 .. 3
    BY <1>4 DEF PortPower, Typed, Locals
  <2>2. PICK i \in 11 .. 17 : i = PowerIndex(t.i)
    BY <2>1 DEF PowerIndex
  <2>3. deq' = deq \/ deq' = [deq EXCEPT !["ep0"] = After("ep0", i, 2)]
    BY <1>4, <2>2 DEF PortPower, Completes, Miss
  <2>4. i \in Nat /\ i + 2 < 255
    OBVIOUS
  <2>5. QED
    BY <1>1, <2>1, <2>3, <2>4, RingMoves
<1>5. CASE PortStatus
  <2>1. fs' = fs /\ t.i \in 0 .. 3
    BY <1>5 DEF PortStatus, Typed, Locals
  <2>2. dev' \in Found
    BY <1>1, <1>5 DEF PortStatus, Found
  <2>3. PICK i \in 19 .. 28 : i = StatusIndex(4, t.i)
    BY <2>1 DEF StatusIndex
  <2>4. deq' = deq \/ deq' = [deq EXCEPT !["ep0"] = After("ep0", i, 3)]
    BY <1>5, <2>3 DEF PortStatus, Completes
  <2>5. i \in Nat /\ i + 3 < 255
    OBVIOUS
  <2>6. QED
    BY <1>1, <2>1, <2>2, <2>4, <2>5, RingMoves
<1>6. CASE StopEndpoint
  <2>1. dev' \in Found
    BY <1>1, <1>6 DEF StopEndpoint
  <2>2. deq' = deq \/ deq' = [deq EXCEPT !["cmd"] = After("cmd", 250, 1)]
    BY <1>6 DEF StopEndpoint, Completes
  <2>3. fs' = fs
    BY <1>6 DEF StopEndpoint
  <2>4. QED
    BY <1>1, <2>1, <2>2, <2>3, RingMoves
<1>7. CASE ChildReset
  <2>1. UNCHANGED <<dev, fs>>
    BY <1>7 DEF ChildReset
  <2>2. deq' = deq \/ deq' = [deq EXCEPT !["ep0"] = After("ep0", 31, 2)]
    <3>1. StatusIndex(4, 3) + 3 = 31
      BY DEF StatusIndex
    <3>2. QED
      BY <1>7, <3>1 DEF ChildReset, Completes, Miss
  <2>3. QED
    BY <1>1, <2>1, <2>2, RingMoves
<1>8. CASE ChildResetStatus
  BY <1>1, <1>8, StageRings DEF ChildResetStatus, StatusIndex
<1>9. CASE ChildResetClear
  BY <1>1, <1>9, StageRings DEF ChildResetClear, StatusIndex
<1>10. CASE ChildResetFinal
  BY <1>1, <1>10, StageRings DEF ChildResetFinal, StatusIndex
<1>11. CASE HubGuard
  BY <1>1, <1>11, StageRings DEF HubGuard
<1>12. CASE HubConfigure
  BY <1>1, <1>12, StageRings DEF HubConfigure
<1>13. CASE PowerDelay \/ BusStart
  <2>1. UNCHANGED <<dev, deq, fs>>
    BY <1>13 DEF Scanning, PowerDelay, BusStart
  <2>2. QED
    BY <2>1 DEF RingsTyped
<1>14. QED
  BY <1>2, <1>3, <1>4, <1>5, <1>6, <1>7, <1>8, <1>9, <1>10, <1>11, <1>12, <1>13 DEF Hub

LEMMA ChildRings ==
  ASSUME Sized, Typed, RingsTyped, Child PROVE RingsTyped'
<1>1. /\ {"cmd", "ep0", "child", "in", "out"} = Rings /\ Link = 255
      /\ fs \in Scan /\ dev \in Found
  BY DEF Rings, Link, RingsTyped
<1>2. CASE ChildEnable
  BY <1>1, <1>2, StageRings DEF ChildEnable
<1>3. CASE ChildAddress
  BY <1>1, <1>3, StageRings DEF ChildAddress
<1>4. CASE ChildPrefix
  BY <1>1, <1>4, StageRings DEF ChildPrefix
<1>5. CASE ChildRepeat
  BY <1>1, <1>5, StageRings DEF ChildRepeat
<1>6. CASE ChildPreEvaluate
  BY <1>1, <1>6, StageRings DEF ChildPreEvaluate
<1>7. CASE ChildEvaluate
  BY <1>1, <1>7, StageRings DEF ChildEvaluate
<1>8. CASE ChildGetStatus
  BY <1>1, <1>8, StageRings DEF ChildGetStatus
<1>9. CASE ChildFullDescriptor
  BY <1>1, <1>9, StageRings DEF ChildFullDescriptor
<1>10. CASE ChildConfigHeader
  BY <1>1, <1>10, StageRings DEF ChildConfigHeader
<1>11. CASE ChildConfigFull
  <2>1. dev' \in Found
    BY <1>1, <1>11 DEF ChildConfigFull, Found
  <2>2. deq' = deq \/ deq' = [deq EXCEPT !["child"] = After("child", 18, 3)]
    BY <1>11 DEF ChildConfigFull, Completes, Miss
  <2>3. fs' = fs
    BY <1>11 DEF ChildConfigFull
  <2>4. QED
    BY <1>1, <2>1, <2>2, <2>3, RingMoves
<1>12. CASE ChildSetConfig
  BY <1>1, <1>12, StageRings DEF ChildSetConfig
<1>13. CASE ChildGetConfig
  BY <1>1, <1>13, StageRings DEF ChildGetConfig
<1>14. CASE HidSetProtocol
  BY <1>1, <1>14, DirectRings DEF HidSetProtocol
<1>15. CASE HidGetProtocol
  BY <1>1, <1>15, DirectRings DEF HidGetProtocol
<1>16. CASE HidSetIdle
  BY <1>1, <1>16, DirectRings DEF HidSetIdle
<1>17. CASE HidGuard
  <2>1. dev' \in Found
    BY <1>1, <1>17 DEF HidGuard
  <2>2. deq' = deq \/ deq' = [deq EXCEPT !["cmd"] = After("cmd", 0, 1)]
    BY <1>17 DEF HidGuard, Completes
  <2>3. fs' = fs
    BY <1>17 DEF HidGuard
  <2>4. QED
    BY <1>1, <2>1, <2>2, <2>3, RingMoves
<1>18. CASE HidConfigure
  <2>1. dev' \in Found
    BY <1>1, <1>18 DEF HidConfigure
  <2>2. deq' = deq \/ deq' = [deq EXCEPT !["cmd"] = After("cmd", 1, 1)]
    BY <1>18 DEF HidConfigure, Completes
  <2>3. fs' = fs
    BY <1>18 DEF HidConfigure
  <2>4. QED
    BY <1>1, <2>1, <2>2, <2>3, RingMoves
<1>19. CASE ChildMaxLun
  <2>1. dev' \in Found
    BY <1>1, <1>19 DEF ChildMaxLun, Stage
  <2>2. deq' = deq \/ deq' = [deq EXCEPT !["child"] = After("child", 26, 3)]
    BY <1>19 DEF ChildMaxLun, Stage, Completes, Miss
  <2>3. fs' = fs
    BY <1>19 DEF ChildMaxLun, Stage
  <2>4. QED
    BY <1>1, <2>1, <2>2, <2>3, RingMoves
<1>20. CASE ChildBulkGuard
  <2>1. dev' \in Found
    BY <1>1, <1>20 DEF ChildBulkGuard
  <2>2. deq' = deq \/ deq' = [deq EXCEPT !["cmd"] = After("cmd", 0, 1)]
    BY <1>20 DEF ChildBulkGuard, Completes, Miss
  <2>3. fs' = fs
    BY <1>20 DEF ChildBulkGuard
  <2>4. QED
    BY <1>1, <2>1, <2>2, <2>3, RingMoves
<1>21. CASE ChildBulkConfigure
  <2>1. dev' \in Found
    BY <1>1, <1>21 DEF ChildBulkConfigure
  <2>2. deq' = deq \/ deq' = [deq EXCEPT !["cmd"] = After("cmd", 1, 1)]
    BY <1>21 DEF ChildBulkConfigure, Completes, Miss
  <2>3. fs' = fs
    BY <1>21 DEF ChildBulkConfigure
  <2>4. QED
    BY <1>1, <2>1, <2>2, <2>3, RingMoves
<1>22. CASE ChildUnsupported
  <2>1. UNCHANGED <<dev, deq, fs>>
    BY <1>22 DEF Scanning, ChildUnsupported
  <2>2. QED
    BY <2>1 DEF RingsTyped
<1>23. QED
  BY <1>2, <1>3, <1>4, <1>5, <1>6, <1>7, <1>8, <1>9, <1>10, <1>11, <1>12, <1>13, <1>14, <1>15, <1>16, <1>17, <1>18, <1>19, <1>20, <1>21, <1>22 DEF Child

LEMMA NextRings ==
  ASSUME Sized, Typed, RingsTyped, [Next]_vars PROVE RingsTyped'
<1>1. CASE PreRun \/ Running \/ RootDevice \/ Hub \/ Child
  BY <1>1, PreRunRings, RunningRings, RootRings, HubRings, ChildRings
<1>2. CASE Finish \/ FirmwareReleases \/ HaltsLate \/ UNCHANGED vars
  <2>1. UNCHANGED <<dev, deq, fs>>
    BY <1>2 DEF Finish, Cleanup, CleanupHalt, CleanupPci, CleanupBar2, PreflightPci,
       PreflightBar2, LiveStopHalt, LiveStopPci, LiveStopBar2, FirmwareReleases,
       HaltsLate, vars
  <2>2. QED
    BY <2>1 DEF RingsTyped
<1>3. QED
  BY <1>1, <1>2 DEF Next, Probe

LEMMA InitRings ==
  ASSUME Sized, Init PROVE RingsTyped
<1>1. deq \in [Rings -> 0 .. Link - 1]
  BY DEF Init, Link
<1>2. dev \in Found
  BY DEF Init, Found
<1>3. 0 \in 0 .. BotCommands
  BY DEF Sized
<1>4. fs \in Scan
  BY <1>3 DEF Init, Scan, SectorLimit
<1>5. QED
  BY <1>1, <1>2, <1>4 DEF RingsTyped

-----------------------------------------------------------------------------
(* Hardware that never fails: up to the running controller.                *)

Positions == GoodRoot /\ GoodHub /\ GoodChild /\ GoodScan

Early == PreGate \cup {"mse", "op", "alias", "program"}
Late == {"done", "session", "halt", "pci", "bar2", "stop_pci", "stop_bar2"}

\* No position is claimed before the rings are programmed.
LEMMA NoPositions ==
  ASSUME pc' \in Early \cup Late
  PROVE  Positions'
BY DEF Positions, GoodRoot, GoodHub, GoodChild, GoodScan, Early, Late, PreGate, Unclaimed,
   Storage

\* A step that ends before the rings are programmed.
LEMMA EarlyGood ==
  ASSUME GoodInv, hw.good, code' = code, pc' \in Early, GoodStart'
  PROVE  GoodInv'
<1>1. pc' \notin {"pci", "bar2", "stop_pci", "stop_bar2"}
  BY DEF Early, PreGate, Unclaimed
<1>2. QED
  BY <1>1, NoPositions DEF GoodInv, Positions

LEMMA GoodProbeReadonly ==
  ASSUME SafeInv, GoodInv, hw.good, ProbeReadonly
  PROVE  GoodInv'
<1>1. GoodStart /\ hw \in Hardware /\ fw \in Word /\ g \in Globals /\ t \in Locals
  BY DEF SafeInv, Typed, GoodInv
<1>2. /\ pc = "status" /\ pc' = "first" /\ UNCHANGED <<code, hw, fw, g, t, fs>>
  BY <1>1 DEF ProbeReadonly, Goto
<1>3. GoodStart'
  BY <1>1, <1>2 DEF GoodStart, PreGate, Unclaimed, Live, Enumeration
<1>4. QED
  BY <1>2, <1>3, EarlyGood DEF Early, PreGate, Unclaimed

LEMMA GoodProbeFirstFunction ==
  ASSUME SafeInv, GoodInv, hw.good, ProbeFirstFunction
  PROVE  GoodInv'
<1>1. GoodStart /\ hw \in Hardware /\ fw \in Word /\ g \in Globals /\ t \in Locals
  BY DEF SafeInv, Typed, GoodInv
<1>2. /\ pc = "first" /\ pc' = "caps" /\ UNCHANGED <<code, hw, fw, t, fs>>
      /\ g'.cfg = "READ_OK"
  BY <1>1 DEF ProbeFirstFunction, Goto, Globals
<1>3. GoodStart'
  BY <1>1, <1>2 DEF GoodStart, PreGate, Unclaimed, Live, Enumeration
<1>4. QED
  BY <1>2, <1>3, EarlyGood DEF Early, PreGate, Unclaimed

LEMMA GoodCapsEnable ==
  ASSUME SafeInv, GoodInv, hw.good, CapsEnable
  PROVE  GoodInv'
<1>1. GoodStart /\ hw \in Hardware /\ fw \in Word /\ g \in Globals /\ t \in Locals
  BY DEF SafeInv, Typed, GoodInv
<1>2. pc = "caps" /\ g.cmd = fw /\ Command = fw /\ ~g.cmd.bme
  <2>1. pc = "caps"
    BY DEF CapsEnable
  <2>2. g.cmd = fw /\ Command = fw
    BY <2>1 DEF SafeInv, PreGateInv, AsFound
  <2>3. QED
    BY <1>1, <2>1, <2>2 DEF GoodStart, Unclaimed
<1>3. PICK ok \in BOOLEAN :
        /\ t' = [t EXCEPT !.mseSet = ~g.cmd.mse /\ MayBeSet(ok)]
        /\ IF g.cmd.mse THEN (hw.good => ok) /\ UNCHANGED hw
           ELSE WriteCommand([mse |-> TRUE, bme |-> FALSE], ok)
        /\ IF ok THEN pc' = "caps_read" /\ UNCHANGED g ELSE pc' = "caps_restore"
  BY <1>2 DEF CapsEnable, MemoryCommand, Goto
<1>4. ok /\ hw'.mse /\ hw'.halted = hw.halted /\ hw'.run = hw.run
  <2>1. CASE g.cmd.mse
    <3>1. hw.mse
      BY <1>1, <1>2, <2>1, Words DEF Command
    <3>2. QED
      BY <1>3, <2>1, <3>1
  <2>2. CASE ~g.cmd.mse
    <3>1. PICK c \in Word : c = [mse |-> TRUE, bme |-> FALSE] /\ c.mse
      BY Words
    <3>2. WriteCommand(c, ok)
      BY <1>3, <2>2, <3>1
    <3>3. QED
      BY <1>1, <3>1, <3>2, CommandWritten DEF BesideCommand
  <2>3. QED
    BY <2>1, <2>2
<1>5. t'.i = t.i
  <2>1. PICK b : t' = [t EXCEPT !.mseSet = b]
    BY <1>3
  <2>2. QED
    BY <1>1, <2>1 DEF Locals
<1>6. UNCHANGED <<code, fw, fs>>
  BY DEF CapsEnable
<1>7. GoodStart'
  BY <1>1, <1>2, <1>3, <1>4, <1>5, <1>6 DEF GoodStart, PreGate, Unclaimed, Live, Enumeration
<1>8. QED
  BY <1>3, <1>4, <1>6, <1>7, EarlyGood DEF Early, PreGate, Unclaimed

LEMMA GoodCapsRead ==
  ASSUME SafeInv, GoodInv, hw.good, CapsRead
  PROVE  GoodInv'
<1>1. GoodStart /\ hw \in Hardware /\ fw \in Word /\ g \in Globals /\ t \in Locals
  BY DEF SafeInv, Typed, GoodInv
<1>2. /\ pc = "caps_read" /\ pc' = "snapshot" /\ UNCHANGED <<code, hw, fw, t, fs>>
      /\ g'.cfg = g.cfg /\ g'.xhci = "CAPS_OK"
  BY <1>1 DEF CapsRead, Goto, Globals
<1>3. GoodStart'
  BY <1>1, <1>2 DEF GoodStart, PreGate, Unclaimed, Live, Enumeration
<1>4. QED
  BY <1>2, <1>3, EarlyGood DEF Early, PreGate, Unclaimed

LEMMA GoodSnapshotState ==
  ASSUME SafeInv, GoodInv, hw.good, SnapshotState
  PROVE  GoodInv'
<1>1. GoodStart /\ hw \in Hardware /\ fw \in Word /\ g \in Globals /\ t \in Locals
  BY DEF SafeInv, Typed, GoodInv
<1>2. /\ pc = "snapshot" /\ pc' = "handoff" /\ UNCHANGED <<code, hw, fw, g, fs>>
      /\ t'.run = hw.run /\ t'.halted = hw.halted /\ t'.i = t.i
  BY <1>1 DEF SnapshotState, Goto, Locals, Hardware
<1>3. GoodStart'
  BY <1>1, <1>2 DEF GoodStart, PreGate, Unclaimed, Live, Enumeration
<1>4. QED
  BY <1>2, <1>3, EarlyGood DEF Early, PreGate, Unclaimed

LEMMA GoodLegacyHandoff ==
  ASSUME SafeInv, GoodInv, hw.good, LegacyHandoff
  PROVE  GoodInv'
<1>1. GoodStart /\ hw \in Hardware /\ fw \in Word /\ g \in Globals /\ t \in Locals
  BY DEF SafeInv, Typed, GoodInv
<1>2. pc = "handoff" /\ UNCHANGED <<code, fw, t, fs>>
  BY DEF LegacyHandoff
<1>3. HandoffSafe(t.run, t.halted)
  BY <1>1, <1>2 DEF HandoffSafe, GoodStart
<1>4. pc' = "poll" /\ hw' = [hw EXCEPT !.os = TRUE] /\ UNCHANGED g
  BY <1>3 DEF LegacyHandoff, Goto
<1>5. hw'.mse = hw.mse /\ hw'.halted = hw.halted /\ hw'.run = hw.run /\ hw'.os
  BY <1>1, <1>4 DEF Hardware
<1>6. GoodStart'
  BY <1>1, <1>2, <1>4, <1>5 DEF GoodStart, PreGate, Unclaimed, Live, Enumeration
<1>7. QED
  BY <1>2, <1>4, <1>6, EarlyGood DEF Early, PreGate, Unclaimed

LEMMA GoodLegacyPoll ==
  ASSUME SafeInv, GoodInv, hw.good, LegacyPoll
  PROVE  GoodInv'
<1>1. GoodStart /\ hw \in Hardware /\ fw \in Word /\ g \in Globals /\ t \in Locals
  BY DEF SafeInv, Typed, GoodInv
<1>2. pc = "poll" /\ pc' = "reset" /\ UNCHANGED <<code, hw, fw, t, fs>>
      /\ g' = [g EXCEPT !.mask = "HANDOFF_OK", !.legacy = [bios |-> FALSE, os |-> hw.os]]
  BY DEF LegacyPoll, Goto
<1>3. PICK l : l = [bios |-> FALSE, os |-> hw.os]
  OBVIOUS
<1>4. l.os = hw.os /\ ~l.bios
  BY <1>3
<1>5. g' = [g EXCEPT !.mask = "HANDOFF_OK", !.legacy = l]
  BY <1>2, <1>3
<1>6. g'.xhci = g.xhci /\ g'.cfg = g.cfg /\ g'.legacy = l
  BY <1>1, <1>5 DEF Globals
<1>7. GoodStart'
  BY <1>1, <1>2, <1>4, <1>6 DEF GoodStart, PreGate, Unclaimed, Live, Enumeration
<1>8. QED
  BY <1>2, <1>7, EarlyGood DEF Early, PreGate, Unclaimed

LEMMA GoodResetHalted ==
  ASSUME SafeInv, GoodInv, hw.good, ResetHalted
  PROVE  GoodInv'
<1>1. GoodStart /\ hw \in Hardware /\ fw \in Word /\ g \in Globals /\ t \in Locals
  BY DEF SafeInv, Typed, GoodInv
<1>2. pc = "reset" /\ pc' = "caps_restore" /\ UNCHANGED <<code, fw, t, fs>>
  BY DEF ResetHalted, Goto
<1>3. g.cmd = fw
  BY <1>2 DEF SafeInv, PreGateInv, Decoding
<1>4. ResetSafe(hw.run, hw.halted, g.legacy, g.cmd)
  BY <1>1, <1>2, <1>3 DEF GoodStart, Unclaimed, ResetSafe
<1>5. hw' = [hw EXCEPT !.ptr = "none"] /\ g' = [g EXCEPT !.mask = "RESET_OK"]
  BY <1>4 DEF ResetHalted
<1>6. g'.xhci = g.xhci /\ g'.cfg = g.cfg /\ g'.mask = "RESET_OK" /\ g'.cmd = g.cmd
  BY <1>1, <1>5 DEF Globals
<1>7. GoodStart'
  BY <1>1, <1>2, <1>3, <1>6 DEF GoodStart, PreGate, Unclaimed, Live, Enumeration
<1>8. QED
  BY <1>2, <1>7, EarlyGood DEF Early, PreGate, Unclaimed

LEMMA GoodCapsRestore ==
  ASSUME SafeInv, GoodInv, hw.good, CapsRestore
  PROVE  GoodInv'
<1>1. GoodStart /\ hw \in Hardware /\ fw \in Word /\ g \in Globals /\ t \in Locals
  BY DEF SafeInv, Typed, GoodInv
<1>2. pc = "caps_restore" /\ pc' = "cpu" /\ UNCHANGED <<code, fw, fs>>
      /\ t' = [t EXCEPT !.mseSet = FALSE]
  BY DEF CapsRestore, Goto
<1>3. t'.i = t.i
  BY <1>1, <1>2 DEF Locals
<1>4. g' = g
  BY DEF CapsRestore, WriteCommand
<1>5. GoodStart'
  BY <1>1, <1>2, <1>3, <1>4 DEF GoodStart, PreGate, Unclaimed, Live, Enumeration
<1>6. QED
  BY <1>2, <1>5, EarlyGood DEF Early, PreGate, Unclaimed

LEMMA GoodCpuCacheProbe ==
  ASSUME SafeInv, GoodInv, hw.good, CpuCacheProbe
  PROVE  GoodInv'
<1>1. GoodStart /\ hw \in Hardware /\ fw \in Word /\ g \in Globals /\ t \in Locals
  BY DEF SafeInv, Typed, GoodInv
<1>2. pc = "cpu" /\ pc' = "gate" /\ UNCHANGED <<code, hw, fw, t, fs>>
  BY DEF CpuCacheProbe, Goto
<1>3. g' = [g EXCEPT !.cpu = "PASS"]
  BY <1>1, <1>2 DEF CpuCacheProbe, GoodStart
<1>4. g'.xhci = g.xhci /\ g'.cfg = g.cfg /\ g'.mask = g.mask /\ g'.cmd = g.cmd
      /\ g'.cpu = "PASS"
  BY <1>1, <1>3 DEF Globals
<1>5. GoodStart'
  BY <1>1, <1>2, <1>4 DEF GoodStart, PreGate, Unclaimed, Live, Enumeration
<1>6. QED
  BY <1>2, <1>5, EarlyGood DEF Early, PreGate, Unclaimed

LEMMA GoodNoopGate ==
  ASSUME SafeInv, GoodInv, hw.good, NoopGate
  PROVE  GoodInv'
<1>1. GoodStart /\ hw \in Hardware /\ fw \in Word /\ g \in Globals /\ t \in Locals
  BY DEF SafeInv, Typed, GoodInv
<1>2. pc = "gate" /\ UNCHANGED <<hw, fw, g, fs>>
  BY DEF NoopGate
<1>3. GateOpen
  BY <1>1, <1>2 DEF GoodStart, GateOpen, PreGate
<1>4. MemoryCommand(Command)
  <2>1. Command = fw /\ g.cmd = fw
    BY <1>2, <1>3 DEF SafeInv, PreGateInv, GateOpen
  <2>2. QED
    BY <1>3, <2>1 DEF GateOpen, MemoryCommand
<1>5. pc' = "mse" /\ code' = code /\ t' = [t EXCEPT !.orig = Command]
  BY <1>3, <1>4 DEF NoopGate, Goto
<1>6. t'.i = t.i
  <2>1. PICK b : t' = [t EXCEPT !.orig = b]
    BY <1>5
  <2>2. QED
    BY <1>1, <2>1 DEF Locals
<1>7. GoodStart'
  BY <1>1, <1>2, <1>5, <1>6 DEF GoodStart, PreGate, Unclaimed, Live, Enumeration
<1>8. QED
  BY <1>2, <1>5, <1>7, EarlyGood DEF Early

LEMMA GoodEnableMse ==
  ASSUME SafeInv, GoodInv, hw.good, EnableMse
  PROVE  GoodInv'
<1>1. GoodStart /\ hw \in Hardware /\ fw \in Word /\ g \in Globals /\ t \in Locals
  BY DEF SafeInv, Typed, GoodInv
<1>2. pc = "mse" /\ UNCHANGED <<fw, fs>>
  BY DEF EnableMse
<1>3. t.orig = fw /\ Command = fw
  BY <1>2 DEF SafeInv, SetupInv, Setup, AsFound
<1>4. pc' = "op" /\ code' = code /\ t'.i = t.i /\ hw'.mse
  <2>1. CASE t.orig.mse
    BY <1>1, <1>3, <2>1, Words DEF EnableMse, Goto, Command
  <2>2. CASE ~t.orig.mse
    <3>1. PICK c \in Word : c = [mse |-> TRUE, bme |-> FALSE] /\ c.mse
      BY Words
    <3>2. PICK ok \in BOOLEAN :
                /\ t' = [t EXCEPT !.mseSet = MayBeSet(ok)]
                /\ WriteCommand(c, ok)
                /\ ok => pc' = "op" /\ UNCHANGED code
      BY <2>2, <3>1 DEF EnableMse, Goto
    <3>3. t'.i = t.i
      BY <1>1, <3>2 DEF Locals, MayBeSet
    <3>4. QED
      BY <1>1, <3>1, <3>2, <3>3, CommandWritten
  <2>3. QED
    BY <2>1, <2>2
<1>5. GoodStart'
  BY <1>1, <1>2, <1>4 DEF GoodStart, PreGate, Unclaimed, Live, Enumeration
<1>6. QED
  BY <1>2, <1>4, <1>5, EarlyGood DEF Early

LEMMA GoodReadOperational ==
  ASSUME SafeInv, GoodInv, hw.good, ReadOperational
  PROVE  GoodInv'
<1>1. GoodStart /\ hw \in Hardware /\ fw \in Word /\ g \in Globals /\ t \in Locals
  BY DEF SafeInv, Typed, GoodInv
<1>2. pc = "op" /\ pc' = "alias" /\ UNCHANGED <<code, hw, fw, g, t, fs>>
  BY DEF ReadOperational, Goto
<1>3. GoodStart'
  BY <1>1, <1>2 DEF GoodStart, PreGate, Unclaimed, Live, Enumeration
<1>4. QED
  BY <1>2, <1>3, EarlyGood DEF Early

LEMMA GoodWriteAlias ==
  ASSUME SafeInv, GoodInv, hw.good, WriteAlias
  PROVE  GoodInv'
<1>1. GoodStart /\ hw \in Hardware /\ fw \in Word /\ g \in Globals /\ t \in Locals
  BY DEF SafeInv, Typed, GoodInv
<1>2. pc = "alias" /\ UNCHANGED <<fw, g, fs>>
  BY DEF WriteAlias
<1>3. PICK ok \in BOOLEAN :
        /\ t' = [t EXCEPT !.bar2Set = MayBeSet(ok)]
        /\ WriteBar2("alias", ok)
        /\ ok => pc' = "program" /\ UNCHANGED code
  BY DEF WriteAlias, Goto
<1>4. t'.i = t.i
  BY <1>1, <1>3 DEF Locals, MayBeSet
<1>5. ok /\ hw'.mse = hw.mse
  BY <1>1, <1>3, Bar2Written DEF BesideBar2
<1>6. GoodStart'
  BY <1>1, <1>2, <1>3, <1>4, <1>5 DEF GoodStart, PreGate, Unclaimed, Live, Enumeration
<1>7. QED
  BY <1>2, <1>3, <1>5, <1>6, EarlyGood DEF Early

\* A step of the enumeration: the positions are what is left to prove.
LEMMA LiveGood ==
  ASSUME GoodInv, hw.good, hw'.mse, code'[2] \notin Failures,
         pc' \in {"readback", "bme", "run", "halt", "session"} \cup Enumeration,
         pc' # "stop_endpoint", Positions'
  PROVE  GoodInv'
<1>1. GoodStart' /\ pc' \notin {"pci", "bar2", "stop_pci", "stop_bar2"}
  BY DEF GoodStart, PreGate, Unclaimed, Live, Enumeration
<1>2. QED
  BY <1>1 DEF GoodInv, Positions

LEMMA GoodProgramRings ==
  ASSUME SafeInv, GoodInv, hw.good, ProgramRings
  PROVE  GoodInv'
<1>1. GoodStart /\ hw \in Hardware /\ fw \in Word /\ g \in Globals /\ t \in Locals
  BY DEF SafeInv, Typed, GoodInv
<1>2. /\ pc = "program" /\ pc' = "readback" /\ UNCHANGED <<code, fw, g, t, dev, fs>>
      /\ deq' = [r \in Rings |-> IF r = "cmd" THEN 248 ELSE 0]
      /\ hw' = [hw EXCEPT !.ptr = "ours"]
  BY DEF ProgramRings, Goto, Fail, FirstCommand
<1>3. hw'.mse
  BY <1>1, <1>2 DEF Hardware, GoodStart
<1>4. At(248, 0, 0)' /\ deq'["in"] = 0 /\ deq'["out"] = 0
  BY <1>2 DEF At, Rings
<1>5. fs'.n = 0 /\ fs'.pass = 0 /\ fs'.hop = 0 /\ fs'.dir = 0 /\ t'.i = 0
  BY <1>1, <1>2 DEF GoodStart
<1>6. Positions'
  BY <1>2, <1>4, <1>5 DEF Positions, GoodRoot, GoodHub, GoodChild, GoodScan, Storage
<1>7. code'[2] \notin Failures
  BY <1>2 DEF GoodInv
<1>8. QED
  BY <1>2, <1>3, <1>6, <1>7, LiveGood

LEMMA GoodReadbackSetup ==
  ASSUME SafeInv, GoodInv, hw.good, ReadbackSetup
  PROVE  GoodInv'
<1>1. GoodStart /\ hw \in Hardware /\ fw \in Word /\ g \in Globals /\ t \in Locals
  BY DEF SafeInv, Typed, GoodInv
<1>2. pc = "readback" /\ pc' = "bme" /\ UNCHANGED <<code, hw, fw, g, t, dev, deq, fs>>
  BY DEF ReadbackSetup, Goto
<1>3. Positions'
  BY <1>2 DEF GoodInv, Positions, GoodRoot, GoodHub, GoodChild, GoodScan, At, Bulk, Storage
<1>4. hw'.mse /\ code'[2] \notin Failures
  BY <1>1, <1>2 DEF GoodInv, GoodStart
<1>5. QED
  BY <1>2, <1>3, <1>4, LiveGood

-----------------------------------------------------------------------------
(* Hardware that never fails: the enumeration.                             *)

\* Ring r is now at a, the others are where they were.
MovedTo(r, a) ==
    /\ deq'["cmd"] = IF r = "cmd" THEN a ELSE deq["cmd"]
    /\ deq'["ep0"] = IF r = "ep0" THEN a ELSE deq["ep0"]
    /\ deq'["child"] = IF r = "child" THEN a ELSE deq["child"]
    /\ deq'["in"] = IF r = "in" THEN a ELSE deq["in"]
    /\ deq'["out"] = IF r = "out" THEN a ELSE deq["out"]

\* What GoodInv says of a running controller.
LEMMA GoodFacts ==
  ASSUME GoodInv, hw.good
  PROVE  /\ code[2] \notin Failures /\ Positions
         /\ pc \in Enumeration \cup {"bme", "run", "halt", "session"} => hw.mse
         /\ pc # "stop_endpoint"
BY DEF GoodInv, Positions, GoodStart, Live, Enumeration

LEMMA CompletesAt ==
  ASSUME RingsTyped, NEW r \in Rings, NEW i \in Nat, NEW len \in Nat, Completes(r, i, len)
  PROVE  MovedTo(r, After(r, i, len))
<1>1. PICK a : a = After(r, i, len)
  OBVIOUS
<1>2. deq' = [deq EXCEPT ![r] = a] /\ DOMAIN deq = Rings
  BY <1>1 DEF Completes, RingsTyped
<1>3. MovedTo(r, a)
  BY <1>2 DEF MovedTo, Rings
<1>4. QED
  BY <1>1, <1>3

\* A transfer that is published where the controller looks for it completes.
GoesTo(r, a, next) ==
    /\ pc' = next /\ UNCHANGED <<code, hw, g, t, dev, fs>> /\ MovedTo(r, a)

LEMMA StageGoes ==
  ASSUME RingsTyped, hw.good, NEW l, NEW next, NEW r \in Rings, NEW i \in Nat,
         NEW len \in Nat, NEW name, deq[r] = i, Stage(l, r, i, len, name, next)
  PROVE  GoesTo(r, After(r, i, len), next)
<1>1. ~Miss(r, i, len, name)
  BY DEF Miss
<1>2. Completes(r, i, len) /\ pc' = next /\ UNCHANGED <<code, hw, g, t, dev, fs>>
  BY <1>1 DEF Stage, Goto
<1>3. QED
  BY <1>2, CompletesAt DEF GoesTo

LEMMA DirectGoes ==
  ASSUME RingsTyped, hw.good, NEW l, NEW next, NEW r \in Rings, NEW i \in Nat,
         NEW len \in Nat, NEW bad, deq[r] = i, Direct(l, r, i, len, bad, next)
  PROVE  GoesTo(r, After(r, i, len), next)
<1>1. Completes(r, i, len) /\ pc' = next /\ UNCHANGED <<code, hw, g, t, dev, fs>>
  BY DEF Direct, Goto
<1>2. QED
  BY <1>1, CompletesAt DEF GoesTo

\* The positions after a step decide whether the invariant is kept.
LEMMA EnumGood ==
  ASSUME GoodInv, hw.good, hw' = hw, pc \in Enumeration,
         pc' \in Enumeration \cup {"halt", "session"}, pc' # "stop_endpoint",
         code' = code \/ code'[2] \notin Failures, Positions'
  PROVE  GoodInv'
BY GoodFacts, LiveGood

LEMMA GoodEnableBme ==
  ASSUME SafeInv, GoodInv, hw.good, EnableBme
  PROVE  GoodInv'
<1>1. PICK c \in Word : c = [mse |-> TRUE, bme |-> TRUE] /\ c.mse
  BY Words
<1>2. PICK ok \in BOOLEAN :
        /\ t' = [t EXCEPT !.bmeSet = MayBeSet(ok)]
        /\ WriteCommand(c, ok)
        /\ ok => pc' = "run" /\ UNCHANGED code
  BY <1>1 DEF EnableBme, Goto
<1>3. pc = "bme" /\ UNCHANGED <<fw, g, dev, deq, fs>> /\ hw \in Hardware /\ t \in Locals
  BY DEF EnableBme, SafeInv, Typed
<1>4. ok /\ hw'.mse
  BY <1>1, <1>2, <1>3, CommandWritten
<1>5. t'.i = t.i
  BY <1>2, <1>3 DEF Locals, MayBeSet
<1>6. Positions'
  BY <1>2, <1>3, <1>4, <1>5, GoodFacts DEF Positions, GoodRoot, GoodHub, GoodChild, GoodScan, At, Bulk, Storage
<1>7. code'[2] \notin Failures
  BY <1>2, <1>4, GoodFacts
<1>8. QED
  BY <1>2, <1>4, <1>6, <1>7, LiveGood

LEMMA GoodRunController ==
  ASSUME SafeInv, GoodInv, hw.good, RunController
  PROVE  GoodInv'
<1>1. /\ pc = "run" /\ pc' = "port" /\ UNCHANGED <<code, fw, g, t, dev, deq, fs>>
      /\ hw' = [hw EXCEPT !.run = TRUE, !.halted = FALSE] /\ hw \in Hardware
  BY DEF RunController, Goto, SafeInv, Typed
<1>2. hw'.mse
  BY <1>1, GoodFacts DEF Hardware
<1>3. Positions'
  BY <1>1, GoodFacts DEF Positions, GoodRoot, GoodHub, GoodChild, GoodScan, At, Bulk, Storage
<1>4. code'[2] \notin Failures
  BY <1>1, GoodFacts
<1>5. QED
  BY <1>1, <1>2, <1>3, <1>4, LiveGood DEF Enumeration

LEMMA GoodRunning ==
  ASSUME SafeInv, RingsTyped, GoodInv, hw.good, Running
  PROVE  GoodInv'
<1>1. {"cmd", "ep0", "child", "in", "out"} = Rings
  BY DEF Rings
<1>2. Positions /\ code[2] \notin Failures /\ pc # "stop_endpoint"
  BY GoodFacts
<1>3. CASE PortResetProbe
  <2>1. pc = "port" /\ pc' = "wrap" /\ UNCHANGED <<code, hw, fw, g, t, deq, fs>>
    BY <1>3 DEF PortResetProbe, Goto
  <2>2. Positions'
    BY <1>2, <2>1 DEF Positions, GoodRoot, GoodHub, GoodChild, GoodScan, At, Bulk, Storage
  <2>3. QED
    BY <2>1, <2>2, EnumGood DEF Enumeration
<1>4. CASE MfindexWrapProbe
  <2>1. pc = "wrap" /\ pc' = "enable_slot" /\ UNCHANGED <<code, hw, fw, g, t, deq, fs>>
    BY <1>4 DEF MfindexWrapProbe, Goto
  <2>2. Positions'
    BY <1>2, <2>1 DEF Positions, GoodRoot, GoodHub, GoodChild, GoodScan, At, Bulk, Storage
  <2>3. QED
    BY <2>1, <2>2, EnumGood DEF Enumeration
<1>5. CASE EnableSlot
  <2>1. pc = "enable_slot" /\ At(248, 0, 0)
    BY <1>2, <1>5 DEF EnableSlot, Stage, Positions, GoodRoot
  <2>2. CASE Stage("enable_slot", "cmd", 248, 1, "ENABLE_SLOT", "address")
    <3>1. GoesTo("cmd", After("cmd", 248, 1), "address")
      BY <1>1, <2>1, <2>2, StageGoes DEF At
    <3>2. After("cmd", 248, 1) = 249
      BY DEF After, Link
    <3>3. Positions'
      BY <1>2, <2>1, <3>1, <3>2 DEF GoesTo, MovedTo, Positions, GoodRoot, GoodHub, GoodChild, GoodScan, At, Bulk, Storage
    <3>4. QED
      BY <2>1, <3>1, <3>3, EnumGood DEF GoesTo, Enumeration
  <2>3. CASE pc' = "cleanup" /\ code' = <<"ADDRESS", "SKIP_PORT">> /\ hw' = hw
    <3>1. Positions'
      BY <2>3 DEF Positions, GoodRoot, GoodHub, GoodChild, GoodScan, At, Bulk, Storage
    <3>2. code'[2] \notin Failures
      BY <2>3 DEF Failures
    <3>3. QED
      BY <2>1, <2>3, <3>1, <3>2, EnumGood DEF Enumeration
  <2>4. QED
    BY <1>5, <2>2, <2>3 DEF EnableSlot, Fail
<1>6. CASE AddressDevice
  <2>1. pc = "address" /\ deq["cmd"] = 249
    BY <1>2, <1>6 DEF AddressDevice, Stage, Positions, GoodRoot, GoodHub, GoodChild, GoodScan, At, Bulk, Storage
  <2>2. GoesTo("cmd", After("cmd", 249, 1), "device")
    BY <1>1, <1>6, <2>1, StageGoes DEF AddressDevice
  <2>3. After("cmd", 249, 1) = 250
    BY DEF After, Link
  <2>4. Positions'
    BY <1>2, <2>1, <2>2, <2>3 DEF GoesTo, MovedTo, Positions, GoodRoot, GoodHub, GoodChild, GoodScan, At, Bulk, Storage
  <2>5. QED
    BY <2>1, <2>2, <2>4, EnumGood DEF GoesTo, Enumeration
<1>7. CASE DeviceDescriptor
  <2>1. pc = "device" /\ At(250, 0, 0)
    BY <1>2, <1>7 DEF DeviceDescriptor, Positions, GoodRoot
  <2>2. ~Miss("ep0", 0, 3, "CONTROL_TRANSFER")
    BY <2>1 DEF Miss, At
  <2>3. Completes("ep0", 0, 3) /\ pc' = "config" /\ UNCHANGED <<code, hw, t, fs>>
    BY <1>7, <2>2 DEF DeviceDescriptor, Goto
  <2>4. MovedTo("ep0", After("ep0", 0, 3)) /\ After("ep0", 0, 3) = 3
    BY <1>1, <2>3, CompletesAt DEF After
  <2>5. Positions'
    BY <1>2, <2>1, <2>3, <2>4 DEF MovedTo, Positions, GoodRoot, GoodHub, GoodChild, GoodScan, At, Bulk, Storage
  <2>6. QED
    BY <2>1, <2>3, <2>5, EnumGood DEF Enumeration
<1>8. CASE ConfigHeader
  <2>1. pc = "config" /\ deq["ep0"] = 3
    BY <1>2, <1>8 DEF ConfigHeader, Stage, Positions, GoodRoot, GoodHub, GoodChild, GoodScan, At, Bulk, Storage
  <2>2. GoesTo("ep0", After("ep0", 3, 3), IF DirectRoot THEN "root_config" ELSE "hub_config")
    BY <1>1, <1>8, <2>1, StageGoes DEF ConfigHeader
  <2>3. After("ep0", 3, 3) = 6
    BY DEF After, Link
  <2>4. Positions'
    BY <1>2, <2>1, <2>2, <2>3 DEF GoesTo, MovedTo, Positions, GoodRoot, GoodHub, GoodChild, GoodScan, At, Bulk, Storage
  <2>5. QED
    BY <2>1, <2>2, <2>4, EnumGood DEF GoesTo, Enumeration
<1>9. QED
  BY GoodEnableBme, GoodRunController, <1>3, <1>4, <1>5, <1>6, <1>7, <1>8 DEF Running

DirectPart ==
    \/ RootConfigFull \/ RootSetConfig \/ RootGetConfig \/ RootMaxLun \/ RootBulkGuard
    \/ RootBulkConfigure \/ InquiryCbw \/ InquiryData \/ InquiryCsw

LEMMA GoodDirect ==
  ASSUME SafeInv, RingsTyped, GoodInv, hw.good, DirectPart
  PROVE  GoodInv'
<1>1. {"cmd", "ep0", "child", "in", "out"} = Rings
  BY DEF Rings
<1>2. Positions /\ code[2] \notin Failures /\ pc # "stop_endpoint"
  BY GoodFacts
<1>3. CASE RootConfigFull
  <2>1. pc = "root_config" /\ deq["ep0"] = 6
    BY <1>2, <1>3 DEF RootConfigFull, Direct, Positions, GoodRoot, GoodHub, GoodChild, GoodScan, At, Bulk, Storage
  <2>2. CASE Direct("root_config", "ep0", 6, 3, "ROOT_CONFIG", "root_set")
    <3>1. GoesTo("ep0", After("ep0", 6, 3), "root_set")
      BY <1>1, <2>1, <2>2, DirectGoes
    <3>2. After("ep0", 6, 3) = 9
      BY DEF After, Link
    <3>3. Positions'
      BY <1>2, <2>1, <3>1, <3>2 DEF GoesTo, MovedTo, Positions, GoodRoot, GoodHub, GoodChild, GoodScan, At, Bulk, Storage
    <3>4. QED
      BY <2>1, <3>1, <3>3, EnumGood DEF GoesTo, Enumeration
  <2>3. CASE pc' = "cleanup" /\ code' = <<"ROOT", "NO_BOT">> /\ hw' = hw
    <3>1. Positions'
      BY <2>3 DEF Positions, GoodRoot, GoodHub, GoodChild, GoodScan, At, Bulk, Storage
    <3>2. code'[2] \notin Failures
      BY <2>3 DEF Failures
    <3>3. QED
      BY <2>1, <2>3, <3>1, <3>2, EnumGood DEF Enumeration
  <2>4. QED
    BY <1>3, <2>1, <2>2, <2>3 DEF RootConfigFull, Fail
<1>4. CASE RootSetConfig
  <2>1. pc = "root_set" /\ deq["ep0"] = 9
    BY <1>2, <1>4 DEF RootSetConfig, Direct, Positions, GoodRoot, GoodHub, GoodChild, GoodScan, At, Bulk, Storage
  <2>2. GoesTo("ep0", After("ep0", 9, 2), "root_get")
    BY <1>1, <1>4, <2>1, DirectGoes DEF RootSetConfig
  <2>3. After("ep0", 9, 2) = 11
    BY DEF After, Link
  <2>4. Positions'
    BY <1>2, <2>1, <2>2, <2>3 DEF GoesTo, MovedTo, Positions, GoodRoot, GoodHub, GoodChild, GoodScan, At, Bulk, Storage
  <2>5. QED
    BY <2>1, <2>2, <2>4, EnumGood DEF GoesTo, Enumeration
<1>5. CASE RootGetConfig
  <2>1. pc = "root_get" /\ deq["ep0"] = 11
    BY <1>2, <1>5 DEF RootGetConfig, Direct, Positions, GoodRoot, GoodHub, GoodChild, GoodScan, At, Bulk, Storage
  <2>2. GoesTo("ep0", After("ep0", 11, 3), "root_lun")
    BY <1>1, <1>5, <2>1, DirectGoes DEF RootGetConfig
  <2>3. After("ep0", 11, 3) = 14
    BY DEF After, Link
  <2>4. Positions'
    BY <1>2, <2>1, <2>2, <2>3 DEF GoesTo, MovedTo, Positions, GoodRoot, GoodHub, GoodChild, GoodScan, At, Bulk, Storage
  <2>5. QED
    BY <2>1, <2>2, <2>4, EnumGood DEF GoesTo, Enumeration
<1>6. CASE RootMaxLun
  <2>1. pc = "root_lun" /\ deq["ep0"] = 14
    BY <1>2, <1>6 DEF RootMaxLun, Direct, Positions, GoodRoot, GoodHub, GoodChild, GoodScan, At, Bulk, Storage
  <2>2. CASE Direct("root_lun", "ep0", 14, 3, "ROOT_MAX_LUN", "root_guard")
    <3>1. GoesTo("ep0", After("ep0", 14, 3), "root_guard")
      BY <1>1, <2>1, <2>2, DirectGoes
    <3>2. After("ep0", 14, 3) = 17
      BY DEF After, Link
    <3>3. Positions'
      BY <1>2, <2>1, <3>1, <3>2 DEF GoesTo, MovedTo, Positions, GoodRoot, GoodHub, GoodChild, GoodScan, At, Bulk, Storage
    <3>4. QED
      BY <2>1, <3>1, <3>3, EnumGood DEF GoesTo, Enumeration
  <2>3. CASE pc' = "cleanup" /\ code' = <<"ROOT_BOT_EP0", "PASS">> /\ hw' = hw
    <3>1. Positions'
      BY <2>3 DEF Positions, GoodRoot, GoodHub, GoodChild, GoodScan, At, Bulk, Storage
    <3>2. code'[2] \notin Failures
      BY <2>3 DEF Failures
    <3>3. QED
      BY <2>1, <2>3, <3>1, <3>2, EnumGood DEF Enumeration
  <2>4. QED
    BY <1>6, <2>1, <2>2, <2>3 DEF RootMaxLun, Fail
<1>7. CASE RootBulkGuard
  <2>1. pc = "root_guard" /\ deq["cmd"] = 250
    BY <1>2, <1>7 DEF RootBulkGuard, Direct, Positions, GoodRoot, GoodHub, GoodChild, GoodScan, At, Bulk, Storage
  <2>2. GoesTo("cmd", After("cmd", 250, 1), "root_bulk")
    BY <1>1, <1>7, <2>1, DirectGoes DEF RootBulkGuard
  <2>3. After("cmd", 250, 1) = 251
    BY DEF After, Link
  <2>4. Positions'
    BY <1>2, <2>1, <2>2, <2>3 DEF GoesTo, MovedTo, Positions, GoodRoot, GoodHub, GoodChild, GoodScan, At, Bulk, Storage
  <2>5. QED
    BY <2>1, <2>2, <2>4, EnumGood DEF GoesTo, Enumeration
<1>8. CASE RootBulkConfigure
  <2>1. pc = "root_bulk" /\ deq["cmd"] = 251
    BY <1>2, <1>8 DEF RootBulkConfigure, Direct, Positions, GoodRoot, GoodHub, GoodChild, GoodScan, At, Bulk, Storage
  <2>2. GoesTo("cmd", After("cmd", 251, 1), "inq_cbw")
    BY <1>1, <1>8, <2>1, DirectGoes DEF RootBulkConfigure
  <2>3. After("cmd", 251, 1) = 252
    BY DEF After, Link
  <2>4. Positions'
    BY <1>2, <2>1, <2>2, <2>3 DEF GoesTo, MovedTo, Positions, GoodRoot, GoodHub, GoodChild, GoodScan, At, Bulk, Storage
  <2>5. QED
    BY <2>1, <2>2, <2>4, EnumGood DEF GoesTo, Enumeration
<1>9. CASE InquiryCbw
  <2>1. pc = "inq_cbw" /\ deq["out"] = 0
    BY <1>2, <1>9 DEF InquiryCbw, Direct, Positions, GoodRoot, GoodHub, GoodChild, GoodScan, At, Bulk, Storage
  <2>2. GoesTo("out", After("out", 0, 1), "inq_data")
    BY <1>1, <1>9, <2>1, DirectGoes DEF InquiryCbw
  <2>3. After("out", 0, 1) = 1
    BY DEF After, Link
  <2>4. Positions'
    BY <1>2, <2>1, <2>2, <2>3 DEF GoesTo, MovedTo, Positions, GoodRoot, GoodHub, GoodChild, GoodScan, At, Bulk, Storage
  <2>5. QED
    BY <2>1, <2>2, <2>4, EnumGood DEF GoesTo, Enumeration
<1>10. CASE InquiryData
  <2>1. pc = "inq_data" /\ deq["in"] = 0
    BY <1>2, <1>10 DEF InquiryData, Direct, Positions, GoodRoot, GoodHub, GoodChild, GoodScan, At, Bulk, Storage
  <2>2. GoesTo("in", After("in", 0, 1), "inq_csw")
    BY <1>1, <1>10, <2>1, DirectGoes DEF InquiryData
  <2>3. After("in", 0, 1) = 1
    BY DEF After, Link
  <2>4. Positions'
    BY <1>2, <2>1, <2>2, <2>3 DEF GoesTo, MovedTo, Positions, GoodRoot, GoodHub, GoodChild, GoodScan, At, Bulk, Storage
  <2>5. QED
    BY <2>1, <2>2, <2>4, EnumGood DEF GoesTo, Enumeration
<1>11. CASE InquiryCsw
  <2>1. pc = "inq_csw" /\ deq["in"] = 1
    BY <1>2, <1>11 DEF InquiryCsw, Direct, Positions, GoodRoot, GoodHub, GoodChild, GoodScan, At, Bulk, Storage
  <2>2. GoesTo("in", After("in", 1, 1), "capacity")
    BY <1>1, <1>11, <2>1, DirectGoes DEF InquiryCsw
  <2>3. After("in", 1, 1) = 2
    BY DEF After, Link
  <2>4. Positions'
    BY <1>2, <2>1, <2>2, <2>3 DEF GoesTo, MovedTo, Positions, GoodRoot, GoodHub, GoodChild, GoodScan, At, Bulk, Storage
  <2>5. QED
    BY <2>1, <2>2, <2>4, EnumGood DEF GoesTo, Enumeration
<1>12. QED
  BY <1>3, <1>4, <1>5, <1>6, <1>7, <1>8, <1>9, <1>10, <1>11 DEF DirectPart

-----------------------------------------------------------------------------
(* Hardware that never fails: the storage probe.                           *)

\* One command more, and the scan is as f says.
Advanced(f) ==
    /\ fs'.n = fs.n + 1 /\ fs'.pass = f.pass /\ fs'.hop = f.hop /\ fs'.dir = f.dir
    /\ deq'["cmd"] = deq["cmd"] /\ deq'["out"] = 1 + fs'.n /\ deq'["in"] = 2 + 2 * fs'.n

LEMMA CanSend ==
  ASSUME Sized, RingsTyped, hw.good, hw.mse, Bulk(fs.n), fs.n <= 31
  PROVE  Sendable(1)
<1>1. fs.n \in Nat /\ BotCommands \in Nat /\ BotCommands >= 32
  BY DEF RingsTyped, Scan, Sized
<1>2. QED
  BY <1>1 DEF Sendable, Accessible, Bulk

LEMMA ScanAdvances ==
  ASSUME RingsTyped, Bulk(fs.n), NEW f \in Scan, Sent(1),
         fs' = [f EXCEPT !.n = fs.n + 1, !.attempt = 0]
  PROVE  Advanced(f)
<1>1. PICK m \in Nat : m = fs.n
  BY DEF RingsTyped, Scan
<1>2. PICK k \in Nat : k = m + 1
  BY <1>1
<1>3. fs' = [f EXCEPT !.n = k, !.attempt = 0]
  BY <1>1, <1>2
<1>4. fs'.n = k /\ fs'.pass = f.pass /\ fs'.hop = f.hop /\ fs'.dir = f.dir
  BY <1>3 DEF Scan
<1>5. deq["out"] = 1 + m /\ deq["in"] = 2 + 2 * m /\ deq \in [Rings -> 0 .. Link - 1]
  BY <1>1 DEF Bulk, RingsTyped
<1>6. PICK a, b \in Nat : a = deq["out"] + 1 /\ b = deq["in"] + 2 * 1
  BY <1>5
<1>7. deq' = [deq EXCEPT !["out"] = a, !["in"] = b]
  BY <1>5, <1>6 DEF Sent, Rings
<1>8. deq'["cmd"] = deq["cmd"] /\ deq'["out"] = a /\ deq'["in"] = b
  BY <1>5, <1>7 DEF Rings
<1>9. a = 1 + k /\ b = 2 + 2 * k
  BY <1>2, <1>5, <1>6
<1>10. QED
  BY <1>1, <1>2, <1>4, <1>8, <1>9 DEF Advanced

StoragePart ==
    \/ ReadCapacity \/ ReadBlock \/ FindVolume \/ ReadBootSector \/ ReadRootFat
    \/ ReadRootDirectory \/ FindFile \/ ReadFileFat \/ ReadFileData

LEMMA GoodStorage ==
  ASSUME Sized, SafeInv, RingsTyped, GoodInv, hw.good, StoragePart
  PROVE  GoodInv'
<1>1. pc \in Storage /\ hw' = hw
  BY DEF StoragePart, ReadCapacity, ReadBlock, FindVolume, ReadBootSector, ReadRootFat,
     ReadRootDirectory, FindFile, ReadFileFat, ReadFileData, Scanning, Storage
<1>2. /\ Positions /\ code[2] \notin Failures /\ hw.mse /\ pc \in Enumeration
      /\ deq["cmd"] = 252 /\ Bulk(fs.n)
  BY <1>1, GoodFacts DEF Storage, Enumeration, Positions, GoodScan
<1>3. /\ fs \in Scan /\ fs.n \in Nat /\ fs.pass \in 0 .. 1 /\ fs.hop \in Nat
      /\ fs.dir \in 0 .. 8 /\ fs.sector \in Nat /\ fs.spc \in Nat \ {0}
  BY DEF RingsTyped, Scan, SectorLimit
<1>4. ASSUME pc' \in Storage, code' = code, Positions' PROVE GoodInv'
  BY <1>1, <1>2, <1>4, EnumGood DEF Storage, Enumeration
<1>5. ASSUME pc' = "cleanup", code'[2] \notin Failures, Positions' PROVE GoodInv'
  BY <1>1, <1>2, <1>5, EnumGood DEF Enumeration
<1>6. CASE ReadCapacity
  <2>1. pc = "capacity"
    BY <1>6 DEF ReadCapacity
  <2>2. Sendable(1)
    BY <1>2, <1>3, <2>1, CanSend DEF Positions, GoodScan
  <2>3. PICK f \in Scan : f = fs
    BY <1>3
  <2>4. pc' = "block" /\ code' = code /\ Sent(1)
        /\ fs' = [f EXCEPT !.n = fs.n + 1, !.attempt = 0]
    BY <1>6, <2>2, <2>3 DEF ReadCapacity, Read, On, Goto
  <2>5. Advanced(f)
    BY <1>2, <2>4, ScanAdvances
  <2>6. fs.n = 0 /\ fs.pass = 0 /\ fs.hop = 0 /\ fs.dir = 0
    BY <1>2, <2>1 DEF Positions, GoodScan
  <2>7. /\ fs'.n = 1 /\ fs'.pass = 0 /\ fs'.hop = 0 /\ fs'.dir = 0
        /\ deq'["cmd"] = 252 /\ deq'["out"] = 1 + fs'.n /\ deq'["in"] = 2 + 2 * fs'.n
    BY <1>2, <2>3, <2>5, <2>6 DEF Advanced
  <2>8. Positions'
    BY <2>4, <2>7 DEF Positions, GoodRoot, GoodHub, GoodChild, GoodScan, At, Bulk, Storage
  <2>9. QED
    BY <1>4, <2>4, <2>8 DEF Storage
<1>7. CASE ReadBlock
  <2>1. pc = "block" /\ fs.n = 1 + fs.pass /\ fs.hop = 0 /\ fs.dir = 0
    BY <1>2, <1>7 DEF ReadBlock, Positions, GoodScan
  <2>2. Sendable(1)
    BY <1>2, <1>3, <2>1, CanSend
  <2>3. PICK p \in 0 .. 1 : p = 1 - fs.pass
    BY <1>3
  <2>4. PICK f \in Scan : f = [fs EXCEPT !.pass = p]
    BY <1>3 DEF Scan
  <2>5. f.pass = p /\ f.hop = fs.hop /\ f.dir = fs.dir
    BY <1>3, <2>4 DEF Scan
  <2>6. pc' = (IF fs.pass = 0 THEN "block" ELSE "volume") /\ code' = code /\ Sent(1)
        /\ fs' = [f EXCEPT !.n = fs.n + 1, !.attempt = 0]
    BY <1>7, <2>2, <2>3, <2>4 DEF ReadBlock, Read, On, Goto
  <2>7. Advanced(f)
    BY <1>2, <2>6, ScanAdvances
  <2>8. Positions'
    BY <1>2, <1>3, <2>1, <2>3, <2>5, <2>6, <2>7 DEF Advanced, Positions, GoodRoot, GoodHub, GoodChild, GoodScan, At, Bulk, Storage
  <2>9. QED
    BY <1>4, <2>6, <2>8 DEF Storage
<1>8. CASE FindVolume
  <2>1. pc = "volume" /\ deq' = deq
    BY <1>8 DEF FindVolume
  <2>2. CASE pc' = "cleanup" /\ code' = <<"ROOT_FS", "UNSUPPORTED">>
    <3>1. Positions'
      BY <2>2 DEF Positions, GoodRoot, GoodHub, GoodChild, GoodScan, At, Bulk, Storage
    <3>2. code'[2] \notin Failures
      BY <2>2 DEF Failures
    <3>3. QED
      BY <1>5, <2>2, <3>1, <3>2
  <2>3. CASE pc' \in {"boot", "root_fat"} /\ code' = code
             /\ \E s \in ClusterSectors : fs' = [fs EXCEPT !.spc = s]
    <3>1. PICK s : fs' = [fs EXCEPT !.spc = s]
      BY <2>3
    <3>2. fs'.n = fs.n /\ fs'.pass = fs.pass /\ fs'.hop = fs.hop /\ fs'.dir = fs.dir
      BY <1>3, <3>1 DEF Scan
    <3>3. Positions'
      BY <1>2, <1>3, <2>1, <2>3, <3>2 DEF Positions, GoodRoot, GoodHub, GoodChild, GoodScan, At, Bulk, Storage
    <3>4. QED
      BY <1>4, <2>3, <3>3 DEF Storage
  <2>4. QED
    BY <1>8, <2>2, <2>3 DEF FindVolume, On, Goto, Fail
<1>9. CASE ReadBootSector
  <2>1. pc = "boot"
    BY <1>9 DEF ReadBootSector
  <2>2. Sendable(1)
    BY <1>2, <1>3, <2>1, CanSend DEF Positions, GoodScan
  <2>3. PICK f \in Scan : f = fs
    BY <1>3
  <2>4. pc' = "root_fat" /\ code' = code /\ Sent(1)
        /\ fs' = [f EXCEPT !.n = fs.n + 1, !.attempt = 0]
    BY <1>9, <2>2, <2>3 DEF ReadBootSector, Read, On, Goto
  <2>5. Advanced(f)
    BY <1>2, <2>4, ScanAdvances
  <2>6. Positions'
    BY <1>2, <1>3, <2>1, <2>3, <2>4, <2>5 DEF Advanced, Positions, GoodRoot, GoodHub, GoodChild, GoodScan, At, Bulk, Storage
  <2>7. QED
    BY <1>4, <2>4, <2>6 DEF Storage
<1>10. CASE ReadRootFat
  <2>1. pc = "root_fat" /\ fs.n <= 4 + fs.dir + fs.hop /\ fs.hop <= 7 /\ fs.pass = 0
    BY <1>2, <1>10 DEF ReadRootFat, Positions, GoodScan
  <2>2. Sendable(1)
    BY <1>2, <1>3, <2>1, CanSend
  <2>3. PICK f \in Scan : f = [fs EXCEPT !.sector = 0]
    BY <1>3 DEF Scan
  <2>4. f.pass = fs.pass /\ f.hop = fs.hop /\ f.dir = fs.dir
    BY <1>3, <2>3 DEF Scan
  <2>5. pc' = "root_dir" /\ code' = code /\ Sent(1)
        /\ fs' = [f EXCEPT !.n = fs.n + 1, !.attempt = 0]
    BY <1>10, <2>2, <2>3 DEF ReadRootFat, Read, On, Goto
  <2>6. Advanced(f)
    BY <1>2, <2>5, ScanAdvances
  <2>7. Positions'
    BY <1>2, <1>3, <2>1, <2>4, <2>5, <2>6 DEF Advanced, Positions, GoodRoot, GoodHub, GoodChild, GoodScan, At, Bulk, Storage
  <2>8. QED
    BY <1>4, <2>5, <2>7 DEF Storage
<1>11. CASE ReadRootDirectory
  <2>1. pc = "root_dir" /\ fs.n <= 5 + fs.dir + fs.hop /\ fs.hop <= 7 /\ fs.pass = 0
    BY <1>2, <1>11 DEF ReadRootDirectory, Positions, GoodScan
  <2>2. Sendable(1)
    BY <1>2, <1>3, <2>1, CanSend
  <2>3. CASE fs.dir >= SectorLimit
    <3>1. pc' = "find" /\ code' = code /\ deq' = deq
          /\ fs' = [fs EXCEPT !.sector = 0, !.hop = 0]
      BY <1>3, <1>11, <2>3 DEF ReadRootDirectory, SectorLimit, On, Goto
    <3>2. fs'.n = fs.n /\ fs'.pass = fs.pass /\ fs'.hop = 0
      BY <1>3, <3>1 DEF Scan
    <3>3. Positions'
      BY <1>2, <1>3, <2>1, <3>1, <3>2 DEF Positions, GoodRoot, GoodHub, GoodChild, GoodScan, At, Bulk, Storage
    <3>4. QED
      BY <1>4, <3>1, <3>3 DEF Storage
  <2>4. CASE fs.dir < SectorLimit
    <3>1. ~(fs.dir >= SectorLimit)
      BY <1>3, <2>4 DEF SectorLimit
    <3>2. PICK d \in 0 .. SectorLimit, s \in Nat, h \in Nat :
             d = fs.dir + 1 /\ s = fs.sector + 1 /\ h = fs.hop + 1
      BY <1>3, <2>4 DEF SectorLimit
    <3>3. PICK f1 \in Scan : f1 = [fs EXCEPT !.dir = d, !.sector = 0, !.hop = 0]
      BY <1>3 DEF Scan
    <3>4. PICK f2 \in Scan : f2 = [fs EXCEPT !.dir = d, !.sector = s]
      BY <1>3 DEF Scan
    <3>5. PICK f3 \in Scan : f3 = [fs EXCEPT !.dir = d, !.hop = h]
      BY <1>3 DEF Scan
    <3>6. /\ f1.pass = fs.pass /\ f1.hop = 0 /\ f1.dir = d
          /\ f2.pass = fs.pass /\ f2.hop = fs.hop /\ f2.dir = d
          /\ f3.pass = fs.pass /\ f3.hop = h /\ f3.dir = d
      BY <1>3, <3>3, <3>4, <3>5 DEF Scan
    <3>7. /\ code' = code /\ Sent(1)
          /\ \/ pc' = "find" /\ fs' = [f1 EXCEPT !.n = fs.n + 1, !.attempt = 0]
             \/ pc' = "root_dir" /\ fs' = [f2 EXCEPT !.n = fs.n + 1, !.attempt = 0]
             \/ /\ fs.hop + 1 < SectorLimit
                /\ pc' = "root_fat" /\ fs' = [f3 EXCEPT !.n = fs.n + 1, !.attempt = 0]
      BY <1>11, <2>2, <3>1, <3>2, <3>3, <3>4, <3>5 DEF ReadRootDirectory, Read, On, Goto
    <3>8. \/ pc' = "find" /\ Advanced(f1)
          \/ pc' = "root_dir" /\ Advanced(f2)
          \/ pc' = "root_fat" /\ Advanced(f3) /\ h <= 7
      <4>1. CASE pc' = "find" /\ fs' = [f1 EXCEPT !.n = fs.n + 1, !.attempt = 0]
        BY <1>2, <3>7, <4>1, ScanAdvances
      <4>2. CASE pc' = "root_dir" /\ fs' = [f2 EXCEPT !.n = fs.n + 1, !.attempt = 0]
        BY <1>2, <3>7, <4>2, ScanAdvances
      <4>3. CASE /\ fs.hop + 1 < SectorLimit /\ pc' = "root_fat"
                 /\ fs' = [f3 EXCEPT !.n = fs.n + 1, !.attempt = 0]
        <5>1. Advanced(f3)
          BY <1>2, <3>7, <4>3, ScanAdvances
        <5>2. h <= 7
          BY <1>3, <3>2, <4>3 DEF SectorLimit
        <5>3. QED
          BY <4>3, <5>1, <5>2
      <4>4. QED
        BY <3>7, <4>1, <4>2, <4>3
    <3>9. fs.dir + 1 = d /\ d <= 8
      BY <3>2 DEF SectorLimit
    <3>10. Positions'
      BY <1>2, <1>3, <2>1, <3>2, <3>6, <3>8, <3>9 DEF Advanced, Positions, GoodRoot, GoodHub, GoodChild, GoodScan, At, Bulk, Storage
    <3>11. QED
      BY <1>4, <3>7, <3>10 DEF Storage
  <2>5. QED
    BY <1>3, <2>3, <2>4 DEF SectorLimit
<1>12. CASE FindFile
  <2>1. pc = "find" /\ UNCHANGED <<deq, fs>>
    BY <1>12 DEF FindFile
  <2>2. CASE pc' = "cleanup" /\ code' = <<"ROOT_FILE", "MISSING">>
    <3>1. Positions'
      BY <2>2 DEF Positions, GoodRoot, GoodHub, GoodChild, GoodScan, At, Bulk, Storage
    <3>2. code'[2] \notin Failures
      BY <2>2 DEF Failures
    <3>3. QED
      BY <1>5, <2>2, <3>1, <3>2
  <2>3. CASE pc' = "file_fat" /\ code' = code
    <3>1. Positions'
      BY <1>2, <1>3, <2>1, <2>3 DEF Positions, GoodRoot, GoodHub, GoodChild, GoodScan, At, Bulk, Storage
    <3>2. QED
      BY <1>4, <2>3, <3>1 DEF Storage
  <2>4. QED
    BY <1>12, <2>2, <2>3 DEF FindFile, On, Goto, Fail
<1>13. CASE ReadFileFat
  <2>1. pc = "file_fat"
    BY <1>13 DEF ReadFileFat
  <2>2. Sendable(1)
    BY <1>2, <1>3, <2>1, CanSend DEF Positions, GoodScan
  <2>3. PICK f \in Scan : f = fs
    BY <1>3
  <2>4. pc' = "file_data" /\ code' = code /\ Sent(1)
        /\ fs' = [f EXCEPT !.n = fs.n + 1, !.attempt = 0]
    BY <1>13, <2>2, <2>3 DEF ReadFileFat, Read, On, Goto
  <2>5. Advanced(f)
    BY <1>2, <2>4, ScanAdvances
  <2>6. Positions'
    BY <1>2, <1>3, <2>1, <2>3, <2>4, <2>5 DEF Advanced, Positions, GoodRoot, GoodHub, GoodChild, GoodScan, At, Bulk, Storage
  <2>7. QED
    BY <1>4, <2>4, <2>6 DEF Storage
<1>14. CASE ReadFileData
  <2>1. pc = "file_data" /\ fs.n <= 21 + 6 * fs.pass + 2 * fs.hop /\ fs.hop <= 2
    BY <1>2, <1>14 DEF ReadFileData, Positions, GoodScan
  <2>2. Sendable(1)
    BY <1>2, <1>3, <2>1, CanSend
  <2>3. PICK h \in Nat : h = fs.hop + 1
    BY <1>3
  <2>4. PICK f1 \in Scan : f1 = [fs EXCEPT !.hop = h]
    BY <1>3 DEF Scan
  <2>5. PICK f2 \in Scan : f2 = [fs EXCEPT !.hop = 0, !.pass = 1]
    <3>1. 1 \in 0 .. 1 /\ 0 \in Nat
      OBVIOUS
    <3>2. [fs EXCEPT !.hop = 0, !.pass = 1] \in Scan
      BY <1>3, <3>1 DEF Scan
    <3>3. QED
      BY <3>2
  <2>6. f1.hop = h /\ f1.pass = fs.pass /\ f2.hop = 0 /\ f2.pass = 1
    BY <1>3, <2>4, <2>5 DEF Scan
  <2>7. PICK f \in Scan : f = fs
    BY <1>3
  <2>8. \/ /\ h < 3 /\ pc' \in {"file_fat", "file_data"} /\ code' = code /\ Sent(1)
           /\ fs' = [f1 EXCEPT !.n = fs.n + 1, !.attempt = 0]
        \/ /\ h = 3 /\ fs.pass = 0 /\ pc' = "file_fat" /\ code' = code /\ Sent(1)
           /\ fs' = [f2 EXCEPT !.n = fs.n + 1, !.attempt = 0]
        \/ /\ pc' = "cleanup" /\ code' = <<"ROOT_FILE", "PASS">> /\ Sent(1)
           /\ fs' = [f EXCEPT !.n = fs.n + 1, !.attempt = 0]
    BY <1>14, <2>2, <2>3, <2>4, <2>5, <2>7 DEF ReadFileData, Read, On, Goto, Fail, FileSectors
  <2>9. CASE code' = code /\ pc' \in {"file_fat", "file_data"}
    <3>1. \/ h < 3 /\ Advanced(f1)
          \/ h = 3 /\ fs.pass = 0 /\ pc' = "file_fat" /\ Advanced(f2)
      BY <1>2, <2>8, <2>9, ScanAdvances
    <3>2. Positions'
      BY <1>2, <1>3, <2>1, <2>3, <2>6, <2>9, <3>1 DEF Advanced, Positions, GoodRoot, GoodHub, GoodChild, GoodScan, At, Bulk, Storage
    <3>3. QED
      BY <1>4, <2>9, <3>2 DEF Storage
  <2>10. CASE pc' = "cleanup" /\ code' = <<"ROOT_FILE", "PASS">>
    <3>1. Advanced(f)
      BY <1>2, <2>8, <2>10, ScanAdvances
    <3>2. Positions'
      BY <1>2, <1>3, <2>10, <3>1 DEF Advanced, Positions, GoodRoot, GoodHub, GoodChild, GoodScan, At, Bulk, Storage
    <3>3. code'[2] \notin Failures
      BY <2>10 DEF Failures
    <3>4. QED
      BY <1>5, <2>10, <3>2, <3>3
  <2>11. QED
    BY <2>8, <2>9, <2>10
<1>15. QED
  BY <1>6, <1>7, <1>8, <1>9, <1>10, <1>11, <1>12, <1>13, <1>14 DEF StoragePart

-----------------------------------------------------------------------------
(* Hardware that never fails: a hub and its only child.                    *)

\* GET_STATUS of the last port is at 28, after the four PORT_POWER requests.
LEMMA LastStatus == StatusIndex(4, 3) = 28
BY DEF StatusIndex

LEMMA GoodHubSteps ==
  ASSUME SafeInv, RingsTyped, GoodInv, hw.good, Hub
  PROVE  GoodInv'
<1>1. {"cmd", "ep0", "child", "in", "out"} = Rings
  BY DEF Rings
<1>2. Positions /\ code[2] \notin Failures /\ pc # "stop_endpoint"
  BY GoodFacts
<1>3. CASE HubSetConfig
  <2>1. pc = "hub_config" /\ deq["ep0"] = 6
    BY <1>2, <1>3 DEF HubSetConfig, Stage, Positions, GoodRoot, GoodHub, GoodChild, GoodScan, At, Bulk, Storage
  <2>2. GoesTo("ep0", After("ep0", 6, 2), "hub_desc")
    BY <1>1, <1>3, <2>1, StageGoes DEF HubSetConfig
  <2>3. After("ep0", 6, 2) = 8
    BY DEF After, Link
  <2>4. Positions'
    BY <1>2, <2>1, <2>2, <2>3 DEF GoesTo, MovedTo, Positions, GoodRoot, GoodHub, GoodChild, GoodScan, At, Bulk, Storage
  <2>5. QED
    BY <2>1, <2>2, <2>4, EnumGood DEF GoesTo, Enumeration
<1>4. CASE HubDescriptor
  <2>1. pc = "hub_desc" /\ deq["ep0"] = 8
    BY <1>2, <1>4 DEF HubDescriptor, Stage, Positions, GoodRoot, GoodHub, GoodChild, GoodScan, At, Bulk, Storage
  <2>2. GoesTo("ep0", After("ep0", 8, 3), "power")
    BY <1>1, <1>4, <2>1, StageGoes DEF HubDescriptor
  <2>3. After("ep0", 8, 3) = 11
    BY DEF After, Link
  <2>4. Positions'
    BY <1>2, <2>1, <2>2, <2>3 DEF GoesTo, MovedTo, Positions, GoodRoot, GoodHub, GoodChild, GoodScan, At, Bulk, Storage, PowerIndex
  <2>5. QED
    BY <2>1, <2>2, <2>4, EnumGood DEF GoesTo, Enumeration
<1>5. CASE PortPower
  <2>1. pc = "power" /\ t \in Locals /\ t.i \in 0 .. 3 /\ UNCHANGED <<hw, fs>>
    BY <1>5 DEF PortPower, SafeInv, Typed, Locals
  <2>2. PICK i \in Nat : i = PowerIndex(t.i) /\ i = 11 + 2 * t.i
    BY <2>1 DEF PowerIndex
  <2>3. deq["cmd"] = 250 /\ deq["ep0"] = i /\ deq["child"] = 0
    BY <1>2, <2>1, <2>2 DEF Positions, GoodHub, At
  <2>4. ~Miss("ep0", i, 2, "CONTROL_TRANSFER")
    BY <2>3 DEF Miss
  <2>5. /\ Completes("ep0", i, 2) /\ code' = code
        /\ t' = [t EXCEPT !.i = (@ + 1) % 4]
        /\ pc' = IF t.i = 3 THEN "power_wait" ELSE "power"
    BY <1>5, <2>2, <2>4 DEF PortPower, Goto
  <2>6. MovedTo("ep0", i + 2)
    <3>1. After("ep0", i, 2) = i + 2
      BY DEF After
    <3>2. QED
      BY <1>1, <2>5, <3>1, CompletesAt
  <2>7. deq'["cmd"] = 250 /\ deq'["ep0"] = i + 2 /\ deq'["child"] = 0
    BY <2>3, <2>6 DEF MovedTo
  <2>8. PICK k \in 0 .. 3 : k = (t.i + 1) % 4
    BY <2>1
  <2>9. t'.i = k /\ (t.i = 3 => k = 0) /\ (t.i # 3 => k = t.i + 1)
    <3>1. t' = [t EXCEPT !.i = k]
      BY <2>5, <2>8
    <3>2. t'.i = k
      BY <2>1, <3>1 DEF Locals
    <3>3. QED
      BY <2>1, <2>8, <3>2
  <2>10. CASE t.i = 3
    <3>1. At(250, 19, 0)' /\ t'.i = 0 /\ pc' = "power_wait"
      BY <2>2, <2>5, <2>7, <2>9, <2>10 DEF At
    <3>2. Positions'
      BY <3>1 DEF Positions, GoodRoot, GoodHub, GoodChild, GoodScan, At, Bulk, Storage
    <3>3. QED
      BY <2>1, <2>5, <3>1, <3>2, EnumGood DEF Enumeration
  <2>11. CASE t.i # 3
    <3>1. pc' = "power" /\ t'.i = t.i + 1
      BY <2>5, <2>9, <2>11
    <3>2. i + 2 = 11 + 2 * t'.i
      BY <2>1, <2>2, <3>1
    <3>3. At(250, PowerIndex(t.i), 0)'
      BY <2>7, <3>2 DEF At, PowerIndex
    <3>4. Positions'
      BY <3>1, <3>3 DEF Positions, GoodRoot, GoodHub, GoodChild, GoodScan, At, Bulk, Storage
    <3>5. QED
      BY <2>1, <2>5, <3>1, <3>4, EnumGood DEF Enumeration
  <2>12. QED
    BY <2>10, <2>11
<1>6. CASE PowerDelay
  <2>1. pc = "power_wait" /\ pc' = "port_status" /\ UNCHANGED <<code, hw, t, deq, fs>>
    BY <1>6 DEF PowerDelay, On, Goto
  <2>2. At(250, 19, 0) /\ t.i = 0
    BY <1>2, <2>1 DEF Positions, GoodHub
  <2>3. At(250, StatusIndex(4, t.i), 0)'
    BY <2>1, <2>2 DEF At, StatusIndex
  <2>4. Positions'
    BY <2>1, <2>3 DEF Positions, GoodRoot, GoodHub, GoodChild, GoodScan, At, Bulk, Storage
  <2>5. QED
    BY <2>1, <2>4, EnumGood DEF Enumeration
<1>7. CASE PortStatus
  <2>1. pc = "port_status" /\ t \in Locals /\ t.i \in 0 .. 3 /\ UNCHANGED <<hw, fs>>
    BY <1>7 DEF PortStatus, SafeInv, Typed, Locals
  <2>2. PICK i \in Nat : i = StatusIndex(4, t.i) /\ i = 19 + 3 * t.i
    BY <2>1 DEF StatusIndex
  <2>3. deq["cmd"] = 250 /\ deq["ep0"] = i /\ deq["child"] = 0
    BY <1>2, <2>1, <2>2 DEF Positions, GoodHub, At
  <2>4. /\ Completes("ep0", i, 3) /\ code' = code
        /\ t' = [t EXCEPT !.i = (@ + 1) % 4]
        /\ pc' = IF t.i < 3 THEN "port_status" ELSE "child_reset"
    BY <1>7, <2>2, <2>3 DEF PortStatus, Goto
  <2>5. MovedTo("ep0", i + 3)
    <3>1. After("ep0", i, 3) = i + 3
      BY DEF After
    <3>2. QED
      BY <1>1, <2>4, <3>1, CompletesAt
  <2>6. deq'["cmd"] = 250 /\ deq'["ep0"] = i + 3 /\ deq'["child"] = 0
    BY <2>3, <2>5 DEF MovedTo
  <2>7. CASE t.i = 3
    <3>1. At(250, 31, 0)' /\ pc' = "child_reset"
      BY <2>2, <2>4, <2>6, <2>7 DEF At
    <3>2. Positions'
      BY <3>1 DEF Positions, GoodRoot, GoodHub, GoodChild, GoodScan, At, Bulk, Storage
    <3>3. QED
      BY <2>1, <2>4, <3>1, <3>2, EnumGood DEF Enumeration
  <2>8. CASE t.i # 3
    <3>1. PICK k \in 0 .. 3 : k = (t.i + 1) % 4 /\ k = t.i + 1
      BY <2>1, <2>8
    <3>2. t' = [t EXCEPT !.i = k]
      BY <2>4, <3>1
    <3>3. pc' = "port_status" /\ t'.i = k
      BY <2>1, <2>4, <2>8, <3>2 DEF Locals
    <3>4. i + 3 = 11 + 2 * 4 + 3 * k
      BY <2>1, <2>2, <3>1
    <3>5. At(250, StatusIndex(4, t.i), 0)'
      BY <2>6, <3>3, <3>4 DEF At, StatusIndex
    <3>6. Positions'
      BY <3>3, <3>5 DEF Positions, GoodRoot, GoodHub, GoodChild, GoodScan, At, Bulk, Storage
    <3>7. QED
      BY <2>1, <2>4, <3>3, <3>6, EnumGood DEF Enumeration
  <2>9. QED
    BY <2>7, <2>8
<1>8. CASE StopEndpoint
  BY <1>2, <1>8 DEF StopEndpoint
<1>9. CASE ChildReset
  <2>1. pc = "child_reset" /\ UNCHANGED <<hw, t, fs>> /\ At(250, 31, 0)
    BY <1>2, <1>9 DEF ChildReset, Positions, GoodHub
  <2>2. CASE pc' = "cleanup" /\ code' = <<"HUB_CHILD", "NO_CONNECTED">>
    <3>1. Positions'
      BY <2>2 DEF Positions, GoodRoot, GoodHub, GoodChild, GoodScan, At, Bulk, Storage
    <3>2. code'[2] \notin Failures
      BY <2>2 DEF Failures
    <3>3. QED
      BY <2>1, <2>2, <3>1, <3>2, EnumGood DEF Enumeration
  <2>3. CASE Completes("ep0", 31, 2) /\ pc' = "reset_status" /\ code' = code
    <3>1. MovedTo("ep0", 33)
      <4>1. After("ep0", 31, 2) = 33
        BY DEF After
      <4>2. QED
        BY <1>1, <2>3, <4>1, CompletesAt
    <3>2. Positions'
      BY <2>1, <2>3, <3>1 DEF MovedTo, Positions, GoodRoot, GoodHub, GoodChild, GoodScan, At, Bulk, Storage
    <3>3. QED
      BY <2>1, <2>3, <3>2, EnumGood DEF Enumeration
  <2>4. ~Miss("ep0", 31, 2, "HUB_CHILD_RESET")
    BY <2>1 DEF Miss, At
  <2>5. StatusIndex(4, 3) + 3 = 31
    BY LastStatus
  <2>6. QED
    BY <1>9, <2>2, <2>3, <2>4, <2>5 DEF ChildReset, Fail, On, Goto
<1>10. CASE ChildResetStatus
  <2>1. pc = "reset_status" /\ deq["ep0"] = 33
    BY <1>2, <1>10 DEF ChildResetStatus, Stage, Positions, GoodRoot, GoodHub, GoodChild, GoodScan, At, Bulk, Storage
  <2>2. Stage("reset_status", "ep0", 33, 3, "HUB_CHILD_RESET", "reset_clear")
    BY <1>10, LastStatus DEF ChildResetStatus
  <2>3. GoesTo("ep0", After("ep0", 33, 3), "reset_clear")
    BY <1>1, <2>1, <2>2, StageGoes
  <2>4. After("ep0", 33, 3) = 36
    BY DEF After
  <2>5. Positions'
    BY <1>2, <2>1, <2>3, <2>4 DEF GoesTo, MovedTo, Positions, GoodRoot, GoodHub, GoodChild, GoodScan, At, Bulk, Storage
  <2>6. QED
    BY <2>1, <2>3, <2>5, EnumGood DEF GoesTo, Enumeration
<1>11. CASE ChildResetClear
  <2>1. pc = "reset_clear" /\ deq["ep0"] = 36
    BY <1>2, <1>11 DEF ChildResetClear, Stage, Positions, GoodRoot, GoodHub, GoodChild, GoodScan, At, Bulk, Storage
  <2>2. Stage("reset_clear", "ep0", 36, 2, "HUB_CHILD_RESET", "reset_final")
    BY <1>11, LastStatus DEF ChildResetClear
  <2>3. GoesTo("ep0", After("ep0", 36, 2), "reset_final")
    BY <1>1, <2>1, <2>2, StageGoes
  <2>4. After("ep0", 36, 2) = 38
    BY DEF After
  <2>5. Positions'
    BY <1>2, <2>1, <2>3, <2>4 DEF GoesTo, MovedTo, Positions, GoodRoot, GoodHub, GoodChild, GoodScan, At, Bulk, Storage
  <2>6. QED
    BY <2>1, <2>3, <2>5, EnumGood DEF GoesTo, Enumeration
<1>12. CASE ChildResetFinal
  <2>1. pc = "reset_final" /\ deq["ep0"] = 38
    BY <1>2, <1>12 DEF ChildResetFinal, Stage, Positions, GoodRoot, GoodHub, GoodChild, GoodScan, At, Bulk, Storage
  <2>2. Stage("reset_final", "ep0", 38, 3, "HUB_CHILD_RESET", "hub_guard")
    BY <1>12, LastStatus DEF ChildResetFinal
  <2>3. GoesTo("ep0", After("ep0", 38, 3), "hub_guard")
    BY <1>1, <2>1, <2>2, StageGoes
  <2>4. After("ep0", 38, 3) = 41
    BY DEF After
  <2>5. Positions'
    BY <1>2, <2>1, <2>3, <2>4 DEF GoesTo, MovedTo, Positions, GoodRoot, GoodHub, GoodChild, GoodScan, At, Bulk, Storage
  <2>6. QED
    BY <2>1, <2>3, <2>5, EnumGood DEF GoesTo, Enumeration
<1>13. CASE HubGuard
  <2>1. pc = "hub_guard" /\ deq["cmd"] = 250
    BY <1>2, <1>13 DEF HubGuard, Stage, Positions, GoodRoot, GoodHub, GoodChild, GoodScan, At, Bulk, Storage
  <2>2. GoesTo("cmd", After("cmd", 250, 1), "hub_context")
    BY <1>1, <1>13, <2>1, StageGoes DEF HubGuard
  <2>3. After("cmd", 250, 1) = 251
    BY DEF After, Link
  <2>4. Positions'
    BY <1>2, <2>1, <2>2, <2>3 DEF GoesTo, MovedTo, Positions, GoodRoot, GoodHub, GoodChild, GoodScan, At, Bulk, Storage
  <2>5. QED
    BY <2>1, <2>2, <2>4, EnumGood DEF GoesTo, Enumeration
<1>14. CASE HubConfigure
  <2>1. pc = "hub_context" /\ deq["cmd"] = 251
    BY <1>2, <1>14 DEF HubConfigure, Stage, Positions, GoodRoot, GoodHub, GoodChild, GoodScan, At, Bulk, Storage
  <2>2. GoesTo("cmd", After("cmd", 251, 1), IF dev.children > 1 THEN "bus" ELSE "child_enable")
    BY <1>1, <1>14, <2>1, StageGoes DEF HubConfigure
  <2>3. After("cmd", 251, 1) = 252
    BY DEF After, Link
  <2>4. Positions'
    BY <1>2, <2>1, <2>2, <2>3 DEF GoesTo, MovedTo, Positions, GoodRoot, GoodHub, GoodChild, GoodScan, At, Bulk, Storage
  <2>5. QED
    BY <2>1, <2>2, <2>4, EnumGood DEF GoesTo, Enumeration
<1>15. CASE BusStart
  <2>1. pc = "bus" /\ UNCHANGED hw /\ deq["cmd"] = 252 /\ deq["ep0"] = 41
    BY <1>2, <1>15 DEF BusStart, Positions, GoodHub, At
  <2>2. StatusIndex(4, 3) + 13 = 41
    BY LastStatus
  <2>3. pc' = "cleanup" /\ code' \in {<<"BUS", "READY">>, <<"BUS", "INPUT_ONLY">>,
                                      <<"BUS", "STORAGE_PENDING">>}
    BY <1>15, <2>1, <2>2 DEF BusStart, Fail
  <2>4. code'[2] \notin Failures /\ code'[1] = "BUS"
    BY <2>3 DEF Failures
  <2>5. Positions'
    BY <2>3 DEF Positions, GoodRoot, GoodHub, GoodChild, GoodScan, At, Bulk, Storage
  <2>6. QED
    BY <2>1, <2>3, <2>4, <2>5, EnumGood DEF Enumeration
<1>16. QED
  BY <1>3, <1>4, <1>5, <1>6, <1>7, <1>8, <1>9, <1>10, <1>11, <1>12, <1>13, <1>14, <1>15 DEF Hub

LEMMA GoodChildSteps ==
  ASSUME SafeInv, RingsTyped, GoodInv, hw.good, Child
  PROVE  GoodInv'
<1>1. {"cmd", "ep0", "child", "in", "out"} = Rings
  BY DEF Rings
<1>2. Positions /\ code[2] \notin Failures /\ pc # "stop_endpoint"
  BY GoodFacts
<1>3. CASE ChildEnable
  <2>1. pc = "child_enable" /\ deq["cmd"] = 252
    BY <1>2, <1>3 DEF ChildEnable, Stage, Positions, GoodRoot, GoodHub, GoodChild, GoodScan, At, Bulk, Storage
  <2>2. GoesTo("cmd", After("cmd", 252, 1), "child_address")
    BY <1>1, <1>3, <2>1, StageGoes DEF ChildEnable
  <2>3. After("cmd", 252, 1) = 253
    BY DEF After, Link
  <2>4. Positions'
    BY <1>2, <2>1, <2>2, <2>3 DEF GoesTo, MovedTo, Positions, GoodRoot, GoodHub, GoodChild, GoodScan, At, Bulk, Storage
  <2>5. QED
    BY <2>1, <2>2, <2>4, EnumGood DEF GoesTo, Enumeration
<1>4. CASE ChildAddress
  <2>1. pc = "child_address" /\ deq["cmd"] = 253
    BY <1>2, <1>4 DEF ChildAddress, Stage, Positions, GoodRoot, GoodHub, GoodChild, GoodScan, At, Bulk, Storage
  <2>2. GoesTo("cmd", After("cmd", 253, 1), "prefix")
    BY <1>1, <1>4, <2>1, StageGoes DEF ChildAddress
  <2>3. After("cmd", 253, 1) = 254
    BY DEF After, Link
  <2>4. Positions'
    BY <1>2, <2>1, <2>2, <2>3 DEF GoesTo, MovedTo, Positions, GoodRoot, GoodHub, GoodChild, GoodScan, At, Bulk, Storage
  <2>5. QED
    BY <2>1, <2>2, <2>4, EnumGood DEF GoesTo, Enumeration
<1>5. CASE ChildPrefix
  <2>1. pc = "prefix" /\ deq["child"] = 0
    BY <1>2, <1>5 DEF ChildPrefix, Stage, Positions, GoodRoot, GoodHub, GoodChild, GoodScan, At, Bulk, Storage
  <2>2. GoesTo("child", After("child", 0, 3), "repeat")
    BY <1>1, <1>5, <2>1, StageGoes DEF ChildPrefix
  <2>3. After("child", 0, 3) = 3
    BY DEF After, Link
  <2>4. Positions'
    BY <1>2, <2>1, <2>2, <2>3 DEF GoesTo, MovedTo, Positions, GoodRoot, GoodHub, GoodChild, GoodScan, At, Bulk, Storage
  <2>5. QED
    BY <2>1, <2>2, <2>4, EnumGood DEF GoesTo, Enumeration
<1>6. CASE ChildRepeat
  <2>1. pc = "repeat" /\ deq["child"] = 3
    BY <1>2, <1>6 DEF ChildRepeat, Stage, Positions, GoodRoot, GoodHub, GoodChild, GoodScan, At, Bulk, Storage
  <2>2. GoesTo("child", After("child", 3, 3), "pre_config")
    BY <1>1, <1>6, <2>1, StageGoes DEF ChildRepeat
  <2>3. After("child", 3, 3) = 6
    BY DEF After, Link
  <2>4. Positions'
    BY <1>2, <2>1, <2>2, <2>3 DEF GoesTo, MovedTo, Positions, GoodRoot, GoodHub, GoodChild, GoodScan, At, Bulk, Storage
  <2>5. QED
    BY <2>1, <2>2, <2>4, EnumGood DEF GoesTo, Enumeration
<1>7. CASE ChildPreEvaluate
  <2>1. pc = "pre_config" /\ deq["child"] = 6
    BY <1>2, <1>7 DEF ChildPreEvaluate, Stage, Positions, GoodRoot, GoodHub, GoodChild, GoodScan, At, Bulk, Storage
  <2>2. GoesTo("child", After("child", 6, 3), "evaluate")
    BY <1>1, <1>7, <2>1, StageGoes DEF ChildPreEvaluate
  <2>3. After("child", 6, 3) = 9
    BY DEF After, Link
  <2>4. Positions'
    BY <1>2, <2>1, <2>2, <2>3 DEF GoesTo, MovedTo, Positions, GoodRoot, GoodHub, GoodChild, GoodScan, At, Bulk, Storage
  <2>5. QED
    BY <2>1, <2>2, <2>4, EnumGood DEF GoesTo, Enumeration
<1>8. CASE ChildEvaluate
  <2>1. pc = "evaluate" /\ deq["cmd"] = 254
    BY <1>2, <1>8 DEF ChildEvaluate, Stage, Positions, GoodRoot, GoodHub, GoodChild, GoodScan, At, Bulk, Storage
  <2>2. GoesTo("cmd", After("cmd", 254, 1), "get_status")
    BY <1>1, <1>8, <2>1, StageGoes DEF ChildEvaluate
  <2>3. After("cmd", 254, 1) = 0
    BY DEF After, Link
  <2>4. Positions'
    BY <1>2, <2>1, <2>2, <2>3 DEF GoesTo, MovedTo, Positions, GoodRoot, GoodHub, GoodChild, GoodScan, At, Bulk, Storage
  <2>5. QED
    BY <2>1, <2>2, <2>4, EnumGood DEF GoesTo, Enumeration
<1>9. CASE ChildGetStatus
  <2>1. pc = "get_status" /\ deq["child"] = 9
    BY <1>2, <1>9 DEF ChildGetStatus, Stage, Positions, GoodRoot, GoodHub, GoodChild, GoodScan, At, Bulk, Storage
  <2>2. GoesTo("child", After("child", 9, 3), "full")
    BY <1>1, <1>9, <2>1, StageGoes DEF ChildGetStatus
  <2>3. After("child", 9, 3) = 12
    BY DEF After, Link
  <2>4. Positions'
    BY <1>2, <2>1, <2>2, <2>3 DEF GoesTo, MovedTo, Positions, GoodRoot, GoodHub, GoodChild, GoodScan, At, Bulk, Storage
  <2>5. QED
    BY <2>1, <2>2, <2>4, EnumGood DEF GoesTo, Enumeration
<1>10. CASE ChildFullDescriptor
  <2>1. pc = "full" /\ deq["child"] = 12
    BY <1>2, <1>10 DEF ChildFullDescriptor, Stage, Positions, GoodRoot, GoodHub, GoodChild, GoodScan, At, Bulk, Storage
  <2>2. GoesTo("child", After("child", 12, 3), "header")
    BY <1>1, <1>10, <2>1, StageGoes DEF ChildFullDescriptor
  <2>3. After("child", 12, 3) = 15
    BY DEF After, Link
  <2>4. Positions'
    BY <1>2, <2>1, <2>2, <2>3 DEF GoesTo, MovedTo, Positions, GoodRoot, GoodHub, GoodChild, GoodScan, At, Bulk, Storage
  <2>5. QED
    BY <2>1, <2>2, <2>4, EnumGood DEF GoesTo, Enumeration
<1>11. CASE ChildConfigHeader
  <2>1. pc = "header" /\ deq["child"] = 15
    BY <1>2, <1>11 DEF ChildConfigHeader, Stage, Positions, GoodRoot, GoodHub, GoodChild, GoodScan, At, Bulk, Storage
  <2>2. GoesTo("child", After("child", 15, 3), "config_full")
    BY <1>1, <1>11, <2>1, StageGoes DEF ChildConfigHeader
  <2>3. After("child", 15, 3) = 18
    BY DEF After, Link
  <2>4. Positions'
    BY <1>2, <2>1, <2>2, <2>3 DEF GoesTo, MovedTo, Positions, GoodRoot, GoodHub, GoodChild, GoodScan, At, Bulk, Storage
  <2>5. QED
    BY <2>1, <2>2, <2>4, EnumGood DEF GoesTo, Enumeration
<1>12. CASE ChildConfigFull
  <2>1. pc = "config_full" /\ At(0, 41, 18)
    BY <1>2, <1>12 DEF ChildConfigFull, Positions, GoodChild
  <2>2. ~Miss("child", 18, 3, "CHILD_CONFIG_FULL")
    BY <2>1 DEF Miss, At
  <2>3. Completes("child", 18, 3) /\ pc' = "set_config" /\ UNCHANGED <<code, hw, t, fs>>
    BY <1>12, <2>2 DEF ChildConfigFull, On, Goto
  <2>4. MovedTo("child", After("child", 18, 3)) /\ After("child", 18, 3) = 21
    BY <1>1, <2>3, CompletesAt DEF After
  <2>5. Positions'
    BY <1>2, <2>1, <2>3, <2>4 DEF MovedTo, Positions, GoodRoot, GoodHub, GoodChild, GoodScan, At, Bulk, Storage
  <2>6. QED
    BY <2>1, <2>3, <2>5, EnumGood DEF Enumeration
<1>13. CASE ChildSetConfig
  <2>1. pc = "set_config" /\ deq["child"] = 21
    BY <1>2, <1>13 DEF ChildSetConfig, Stage, Positions, GoodRoot, GoodHub, GoodChild, GoodScan, At, Bulk, Storage
  <2>2. GoesTo("child", After("child", 21, 2), "get_config")
    BY <1>1, <1>13, <2>1, StageGoes DEF ChildSetConfig
  <2>3. After("child", 21, 2) = 23
    BY DEF After, Link
  <2>4. Positions'
    BY <1>2, <2>1, <2>2, <2>3 DEF GoesTo, MovedTo, Positions, GoodRoot, GoodHub, GoodChild, GoodScan, At, Bulk, Storage
  <2>5. QED
    BY <2>1, <2>2, <2>4, EnumGood DEF GoesTo, Enumeration
<1>14. CASE ChildGetConfig
  <2>1. pc = "get_config" /\ deq["child"] = 23
    BY <1>2, <1>14 DEF ChildGetConfig, Stage, Positions, GoodRoot, GoodHub, GoodChild, GoodScan, At, Bulk, Storage
  <2>2. GoesTo("child", After("child", 23, 3), IF dev.kind = "storage" THEN "max_lun" ELSE IF dev.kind = "none" THEN "unsupported" ELSE "hid_protocol")
    BY <1>1, <1>14, <2>1, StageGoes DEF ChildGetConfig
  <2>3. After("child", 23, 3) = 26
    BY DEF After, Link
  <2>4. Positions'
    BY <1>2, <2>1, <2>2, <2>3 DEF GoesTo, MovedTo, Positions, GoodRoot, GoodHub, GoodChild, GoodScan, At, Bulk, Storage
  <2>5. QED
    BY <2>1, <2>2, <2>4, EnumGood DEF GoesTo, Enumeration
<1>15. CASE ChildUnsupported
  <2>1. /\ pc = "unsupported" /\ pc' = "cleanup" /\ code' = <<"MOUSE", "UNSUPPORTED">>
        /\ hw' = hw
    BY <1>15 DEF ChildUnsupported, Fail
  <2>2. Positions'
    BY <2>1 DEF Positions, GoodRoot, GoodHub, GoodChild, GoodScan, At, Bulk, Storage
  <2>3. code'[2] \notin Failures
    BY <2>1 DEF Failures
  <2>4. QED
    BY <2>1, <2>2, <2>3, EnumGood DEF Enumeration
<1>16. CASE HidSetProtocol
  <2>1. pc = "hid_protocol" /\ deq["child"] = 26
    BY <1>2, <1>16 DEF HidSetProtocol, Direct, Positions, GoodRoot, GoodHub, GoodChild, GoodScan, At, Bulk, Storage
  <2>2. GoesTo("child", After("child", 26, 2), "hid_get")
    BY <1>1, <1>16, <2>1, DirectGoes DEF HidSetProtocol
  <2>3. After("child", 26, 2) = 28
    BY DEF After, Link
  <2>4. Positions'
    BY <1>2, <2>1, <2>2, <2>3 DEF GoesTo, MovedTo, Positions, GoodRoot, GoodHub, GoodChild, GoodScan, At, Bulk, Storage
  <2>5. QED
    BY <2>1, <2>2, <2>4, EnumGood DEF GoesTo, Enumeration
<1>17. CASE HidGetProtocol
  <2>1. pc = "hid_get" /\ deq["child"] = 28
    BY <1>2, <1>17 DEF HidGetProtocol, Direct, Positions, GoodRoot, GoodHub, GoodChild, GoodScan, At, Bulk, Storage
  <2>2. GoesTo("child", After("child", 28, 3), IF dev.kind = "mouse" THEN "hid_guard" ELSE "hid_idle")
    BY <1>1, <1>17, <2>1, DirectGoes DEF HidGetProtocol
  <2>3. After("child", 28, 3) = 31
    BY DEF After, Link
  <2>4. Positions'
    BY <1>2, <2>1, <2>2, <2>3 DEF GoesTo, MovedTo, Positions, GoodRoot, GoodHub, GoodChild, GoodScan, At, Bulk, Storage
  <2>5. QED
    BY <2>1, <2>2, <2>4, EnumGood DEF GoesTo, Enumeration
<1>18. CASE HidSetIdle
  <2>1. pc = "hid_idle" /\ deq["child"] = 31
    BY <1>2, <1>18 DEF HidSetIdle, Direct, Positions, GoodRoot, GoodHub, GoodChild, GoodScan, At, Bulk, Storage
  <2>2. GoesTo("child", After("child", 31, 2), "hid_guard")
    BY <1>1, <1>18, <2>1, DirectGoes DEF HidSetIdle
  <2>3. After("child", 31, 2) = 33
    BY DEF After, Link
  <2>4. Positions'
    BY <1>2, <2>1, <2>2, <2>3 DEF GoesTo, MovedTo, Positions, GoodRoot, GoodHub, GoodChild, GoodScan, At, Bulk, Storage
  <2>5. QED
    BY <2>1, <2>2, <2>4, EnumGood DEF GoesTo, Enumeration
<1>19. CASE HidGuard
  <2>1. pc = "hid_guard" /\ deq["cmd"] = 0 /\ UNCHANGED <<hw, fs>>
    BY <1>2, <1>19 DEF HidGuard, Positions, GoodChild
  <2>2. Completes("cmd", 0, 1) /\ pc' = "hid_configure" /\ code' = code
    BY <1>19, <2>1 DEF HidGuard, On, Goto
  <2>3. MovedTo("cmd", After("cmd", 0, 1)) /\ After("cmd", 0, 1) = 1
    BY <1>1, <2>2, CompletesAt DEF After, Link
  <2>4. Positions'
    BY <2>2, <2>3 DEF MovedTo, Positions, GoodRoot, GoodHub, GoodChild, GoodScan, At, Bulk, Storage
  <2>5. QED
    BY <2>1, <2>2, <2>4, EnumGood DEF Enumeration
<1>20. CASE HidConfigure
  <2>1. pc = "hid_configure" /\ deq["cmd"] = 1 /\ UNCHANGED hw
    BY <1>2, <1>20 DEF HidConfigure, Positions, GoodChild
  <2>2. pc' = "cleanup" /\ code' = <<HidName, "READY">>
    BY <1>20, <2>1 DEF HidConfigure, Fail
  <2>3. code'[2] \notin Failures /\ code'[1] # "ROOT_FILE"
    BY <2>2 DEF Failures, HidName
  <2>4. Positions'
    BY <2>2, <2>3 DEF Positions, GoodRoot, GoodHub, GoodChild, GoodScan, At, Bulk, Storage
  <2>5. QED
    BY <2>1, <2>2, <2>3, <2>4, EnumGood DEF Enumeration
<1>21. CASE ChildMaxLun
  <2>1. pc = "max_lun" /\ At(0, 41, 26)
    BY <1>2, <1>21 DEF ChildMaxLun, Stage, Positions, GoodChild
  <2>2. CASE Stage("max_lun", "child", 26, 3, "CHILD_GET_MAX_LUN", "bulk_guard")
    <3>1. GoesTo("child", After("child", 26, 3), "bulk_guard")
      BY <1>1, <2>1, <2>2, StageGoes DEF At
    <3>2. Positions'
      BY <1>2, <2>1, <3>1 DEF GoesTo, MovedTo, Positions, GoodRoot, GoodHub, GoodChild, GoodScan, At, Bulk, Storage
    <3>3. QED
      BY <2>1, <3>1, <3>2, EnumGood DEF GoesTo, Enumeration
  <2>3. CASE /\ pc' = "cleanup" /\ code' = <<"CHILD_BULK", "SPEED_MISMATCH">>
             /\ hw' = hw
    <3>1. Positions'
      BY <2>3 DEF Positions, GoodRoot, GoodHub, GoodChild, GoodScan, At, Bulk, Storage
    <3>2. code'[2] \notin Failures
      BY <2>3 DEF Failures
    <3>3. QED
      BY <2>1, <2>3, <3>1, <3>2, EnumGood DEF Enumeration
  <2>4. QED
    BY <1>21, <2>2, <2>3 DEF ChildMaxLun, Fail
<1>22. CASE ChildBulkGuard
  <2>1. pc = "bulk_guard" /\ deq["cmd"] = 0 /\ UNCHANGED <<hw, fs>>
    BY <1>2, <1>22 DEF ChildBulkGuard, Positions, GoodChild
  <2>2. Completes("cmd", 0, 1) /\ pc' = "bulk_configure" /\ code' = code
    BY <1>22, <2>1 DEF ChildBulkGuard, Miss, On, Goto
  <2>3. MovedTo("cmd", After("cmd", 0, 1)) /\ After("cmd", 0, 1) = 1
    BY <1>1, <2>2, CompletesAt DEF After, Link
  <2>4. Positions'
    BY <2>2, <2>3 DEF MovedTo, Positions, GoodRoot, GoodHub, GoodChild, GoodScan, At, Bulk, Storage
  <2>5. QED
    BY <2>1, <2>2, <2>4, EnumGood DEF Enumeration
<1>23. CASE ChildBulkConfigure
  <2>1. pc = "bulk_configure" /\ deq["cmd"] = 1 /\ UNCHANGED hw
    BY <1>2, <1>23 DEF ChildBulkConfigure, Positions, GoodChild
  <2>2. pc' = "cleanup" /\ code' = <<"CHILD_BULK_CONFIG", "PASS">>
    BY <1>23, <2>1 DEF ChildBulkConfigure, Fail, Miss
  <2>3. code'[2] \notin Failures /\ code'[1] # "ROOT_FILE"
    BY <2>2 DEF Failures
  <2>4. Positions'
    BY <2>2, <2>3 DEF Positions, GoodRoot, GoodHub, GoodChild, GoodScan, At, Bulk, Storage
  <2>5. QED
    BY <2>1, <2>2, <2>3, <2>4, EnumGood DEF Enumeration
<1>24. QED
  BY <1>3, <1>4, <1>5, <1>6, <1>7, <1>8, <1>9, <1>10, <1>11, <1>12, <1>13, <1>14, <1>15, <1>16, <1>17, <1>18, <1>19, <1>20, <1>21, <1>22, <1>23 DEF Child

-----------------------------------------------------------------------------
(* Hardware that never fails: the session and the cleanup.                 *)

LEMMA Quotients ==
  ASSUME NEW a \in Nat
  PROVE  (a >= 255 => a \div 255 >= 1) /\ (a >= 510 => a \div 255 >= 2)
OBVIOUS

\* After a file that was read the session starts: every ring wraps.
LEMMA SessionStarts ==
  ASSUME Sized, RingsTyped, hw.mse, deq["cmd"] = 252, Bulk(fs.n)
  PROVE  LiveStarts
<1>1. fs.n \in Nat /\ LiveChecks \in Nat /\ LiveChecks >= 258
  BY DEF RingsTyped, Scan, Sized
<1>2. deq["in"] = 2 + 2 * fs.n /\ deq["out"] = 1 + fs.n
  BY DEF Bulk
<1>3. PICK n \in Nat : n = fs.n
  BY <1>1
<1>4. /\ (252 + LiveChecks) \div 255 >= 2
      /\ ((2 + 2 * n) + 2 * LiveChecks) \div 255 >= 2
      /\ ((1 + n) + LiveChecks) \div 255 >= 1
  <2>1. 252 + LiveChecks \in Nat /\ 252 + LiveChecks >= 510
    BY <1>1
  <2>2. (2 + 2 * n) + 2 * LiveChecks \in Nat /\ (2 + 2 * n) + 2 * LiveChecks >= 510
    BY <1>1
  <2>3. (1 + n) + LiveChecks \in Nat /\ (1 + n) + LiveChecks >= 255
    BY <1>1
  <2>4. QED
    BY <2>1, <2>2, <2>3, Quotients
<1>5. 4 * LiveChecks >= 1024
  BY <1>1
<1>6. Accessible(TRUE)
  BY DEF Accessible
<1>7. QED
  BY <1>2, <1>3, <1>4, <1>5, <1>6, ZenonT(60) DEF LiveStarts, Wraps, Link

LEMMA GoodCleanup ==
  ASSUME Sized, SafeInv, RingsTyped, GoodInv, hw.good, Cleanup
  PROVE  GoodInv'
<1>1. pc = "cleanup" /\ UNCHANGED <<hw, dev, deq, fs>> /\ t.bmeSet
  BY DEF Cleanup, SafeInv, LiveInv, Live, Enumeration
<1>2. Positions /\ code[2] \notin Failures /\ hw.mse
  BY <1>1, GoodFacts DEF Enumeration
<1>3. code = <<"ROOT_FILE", "PASS">> => LiveStarts
  <2>1. HAVE code = <<"ROOT_FILE", "PASS">>
  <2>2. deq["cmd"] = 252 /\ Bulk(fs.n)
    BY <1>1, <1>2, <2>1 DEF Positions, GoodScan
  <2>3. QED
    BY <1>2, <2>2, SessionStarts
<1>4. \/ pc' \in {"session", "halt"} /\ code' = code
      \/ pc' = "session" /\ code' = <<"LIVE", "PASS">>
  BY <1>1, <1>3 DEF Cleanup, Goto, Fail
<1>5. code' = code \/ code'[2] \notin Failures
  BY <1>4 DEF Failures
<1>6. pc' \in {"session", "halt"}
  BY <1>4
<1>7. Positions'
  BY <1>6, NoPositions DEF Late
<1>8. QED
  BY <1>1, <1>5, <1>6, <1>7, EnumGood DEF Enumeration

\* A step of the cleanup or of the stop of a session.
LEMMA LateGood ==
  ASSUME GoodInv, hw.good, code' = code,
         pc' \in {"pci", "bar2", "stop_pci", "stop_bar2", "done"},
         pc' # "done" => t'.ok, pc' = "pci" => hw'.mse
  PROVE  GoodInv'
<1>1. Positions'
  BY NoPositions DEF Late
<1>2. GoodStart'
  BY DEF GoodStart, PreGate, Unclaimed, Live, Enumeration
<1>3. QED
  BY <1>1, <1>2 DEF GoodInv, Positions

LEMMA GoodFinish ==
  ASSUME Sized, SafeInv, RingsTyped, GoodInv, hw.good, Finish
  PROVE  GoodInv'
<1>1. hw \in Hardware /\ t \in Locals /\ t.orig \in Word
  BY DEF SafeInv, Typed, Locals
<1>2. PICK o \in Word : o = t.orig
  BY <1>1
<1>3. CASE CleanupHalt \/ LiveStopHalt
  <2>1. pc \in {"halt", "session"}
    BY <1>3 DEF CleanupHalt, LiveStopHalt
  <2>2. hw.mse
    BY <2>1, GoodFacts
  <2>3. PICK ok \in BOOLEAN : /\ Halt(ok) /\ t' = [t EXCEPT !.ok = ok]
                              /\ ok => code' = code
                              /\ pc' \in {"pci", "stop_pci"}
    BY <1>3 DEF CleanupHalt, LiveStopHalt, Goto
  <2>4. ok /\ hw'.mse
    BY <1>1, <2>2, <2>3, Halted
  <2>5. t'.ok
    BY <1>1, <2>3, <2>4 DEF Locals
  <2>6. QED
    BY <2>3, <2>4, <2>5, LateGood
<1>4. CASE CleanupPci
  <2>1. pc = "pci" /\ pc' = "bar2" /\ t.ok
    BY <1>4 DEF CleanupPci, Goto, GoodInv
  <2>2. PICK ok \in BOOLEAN : /\ WriteCommand(o, ok) /\ t' = [t EXCEPT !.ok = @ /\ ok]
                              /\ ok => code' = code
    BY <1>2, <1>4 DEF CleanupPci
  <2>3. ok
    BY <1>1, <2>2, CommandWritten
  <2>4. t'.ok
    <3>1. (t.ok /\ ok) = TRUE
      BY <2>1, <2>3
    <3>2. t' = [t EXCEPT !.ok = TRUE]
      BY <2>2, <3>1
    <3>3. QED
      BY <1>1, <3>2 DEF Locals
  <2>5. QED
    BY <2>1, <2>2, <2>3, <2>4, LateGood
<1>5. CASE CleanupBar2
  <2>1. pc = "bar2" /\ pc' = "done" /\ t.ok
    BY <1>5 DEF CleanupBar2, Goto, GoodInv
  <2>2. code' = code
    BY <1>5, <2>1 DEF CleanupBar2, Quiet, WriteBar2
  <2>3. QED
    BY <2>1, <2>2, LateGood
<1>6. CASE PreflightPci \/ PreflightBar2
  BY <1>6 DEF PreflightPci, PreflightBar2, GoodInv, GoodStart
<1>7. CASE LiveStopPci
  <2>1. pc = "stop_pci" /\ t.ok /\ t' = t
    BY <1>7 DEF LiveStopPci, GoodInv
  <2>2. pc' = "stop_bar2" /\ code' = code
    BY <1>7, <2>1 DEF LiveStopPci, Quiet, WriteCommand, Goto
  <2>3. QED
    BY <2>1, <2>2, LateGood
<1>8. CASE LiveStopBar2
  <2>1. pc' = "done" /\ code' = code
    BY <1>8 DEF LiveStopBar2, Goto, WriteBar2
  <2>2. QED
    BY <2>1, LateGood
<1>9. QED
  BY <1>3, <1>4, <1>5, <1>6, <1>7, <1>8, GoodCleanup DEF Finish

\* A change of the hardware alone, which memory decoding survives.
LEMMA GoodAside ==
  ASSUME SafeInv, GoodInv, hw.good, FirmwareReleases \/ HaltsLate \/ UNCHANGED vars
  PROVE  GoodInv'
<1>1. UNCHANGED <<pc, code, fw, g, t, dev, deq, fs>> /\ hw \in Hardware
  BY DEF FirmwareReleases, HaltsLate, vars, SafeInv, Typed
<1>2. /\ hw'.mse = hw.mse /\ hw'.run = hw.run /\ hw'.os = hw.os
      /\ hw.halted => hw'.halted
  BY <1>1 DEF FirmwareReleases, HaltsLate, vars, Hardware
<1>3. GoodStart' /\ GoodRoot' /\ GoodHub' /\ GoodChild' /\ GoodScan'
  <2>1. GoodStart'
    BY <1>1, <1>2 DEF GoodInv, GoodStart
  <2>2. GoodRoot' /\ GoodHub' /\ GoodChild'
    BY <1>1 DEF GoodInv, GoodRoot, GoodHub, GoodChild, At, PowerIndex, StatusIndex
  <2>3. GoodScan'
    BY <1>1 DEF GoodInv, GoodScan, Bulk
  <2>4. QED
    BY <2>1, <2>2, <2>3
<1>4. QED
  BY <1>1, <1>3 DEF GoodInv

\* Hardware does not become good.
LEMMA GoodKept ==
  ASSUME SafeInv, [Next]_vars
  PROVE  hw'.good = hw.good
<1>1. Typed /\ hw \in Hardware
  BY DEF SafeInv, Typed
<1>2. ASSUME NEW c \in Word, NEW ok \in BOOLEAN, WriteCommand(c, ok)
      PROVE  hw'.good = hw.good
  BY <1>1, <1>2, CommandWritten DEF BesideCommand
<1>3. ASSUME NEW v \in {"original", "alias"}, NEW ok \in BOOLEAN, WriteBar2(v, ok)
      PROVE  hw'.good = hw.good
  BY <1>1, <1>3, Bar2Written DEF BesideBar2
<1>4. ASSUME NEW ok \in BOOLEAN, Halt(ok) PROVE hw'.good = hw.good
  BY <1>1, <1>4, Halted
<1>5. PICK o, c \in Word : o = t.orig /\ c = g.cmd
  BY <1>1 DEF Typed, Locals, Globals
<1>6. PICK m, b \in Word : m = [mse |-> TRUE, bme |-> FALSE] /\ b = [mse |-> TRUE, bme |-> TRUE]
  BY Words, ZenonT(60)
<1>7. CASE CapsEnable \/ CapsRestore \/ EnableMse \/ EnableBme \/ CleanupPci
           \/ PreflightPci \/ LiveStopPci
  <2>1. hw' = hw \/ \E w \in Word, ok \in BOOLEAN : WriteCommand(w, ok)
    BY <1>5, <1>6, <1>7 DEF CapsEnable, CapsRestore, EnableMse, EnableBme, CleanupPci,
       PreflightPci, LiveStopPci
  <2>2. QED
    BY <1>2, <2>1
<1>8. CASE WriteAlias \/ CleanupBar2 \/ PreflightBar2 \/ LiveStopBar2
  <2>1. hw' = hw \/ \E v \in {"original", "alias"}, ok \in BOOLEAN : WriteBar2(v, ok)
    BY <1>8 DEF WriteAlias, CleanupBar2, PreflightBar2, LiveStopBar2
  <2>2. QED
    BY <1>3, <2>1
<1>9. CASE CleanupHalt \/ LiveStopHalt
  <2>1. \E ok \in BOOLEAN : Halt(ok)
    BY <1>9 DEF CleanupHalt, LiveStopHalt
  <2>2. QED
    BY <1>4, <2>1
<1>10. CASE LegacyHandoff
  <2>1. hw' = hw \/ hw' = [hw EXCEPT !.os = TRUE] \/ \E x \in BOOLEAN : hw' = [hw EXCEPT !.os = @ \/ x]
    BY <1>10 DEF LegacyHandoff
  <2>2. QED
    BY <1>1, <2>1 DEF Hardware
<1>11. CASE ResetHalted
  BY <1>1, <1>11 DEF ResetHalted, Hardware
<1>12. CASE ProgramRings
  BY <1>1, <1>12 DEF ProgramRings, Hardware
<1>13. CASE RunController
  BY <1>1, <1>13 DEF RunController, Hardware
<1>14. CASE FirmwareReleases \/ HaltsLate
  BY <1>1, <1>14 DEF FirmwareReleases, HaltsLate, Hardware
<1>15. CASE RootDevice \/ Hub \/ Child \/ Cleanup
  BY <1>15, EnumKeeps DEF EnumStep
<1>16. CASE \/ ProbeReadonly \/ ProbeFirstFunction \/ CapsRead \/ SnapshotState
            \/ LegacyPoll \/ CpuCacheProbe \/ NoopGate \/ ReadOperational \/ ReadbackSetup
            \/ PortResetProbe \/ MfindexWrapProbe \/ EnableSlot \/ AddressDevice
            \/ DeviceDescriptor \/ ConfigHeader \/ UNCHANGED vars
  BY <1>16 DEF ProbeReadonly, ProbeFirstFunction, CapsRead, SnapshotState, LegacyPoll,
     CpuCacheProbe, NoopGate, ReadOperational, ReadbackSetup, PortResetProbe,
     MfindexWrapProbe, EnableSlot, AddressDevice, DeviceDescriptor, ConfigHeader, Stage,
     vars
<1>17. QED
  BY <1>7, <1>8, <1>9, <1>10, <1>11, <1>12, <1>13, <1>14, <1>15, <1>16
     DEF Next, Probe, PreRun, Running, Finish

LEMMA NextGood ==
  ASSUME Sized, SafeInv, RingsTyped, GoodInv, [Next]_vars
  PROVE  GoodInv'
<1>1. CASE ~hw.good
  BY <1>1, GoodKept DEF GoodInv
<1>2. CASE hw.good
  <2>1. CASE PreRun
    BY <1>2, <2>1, GoodProbeReadonly, GoodProbeFirstFunction, GoodCapsEnable, GoodCapsRead,
       GoodSnapshotState, GoodLegacyHandoff, GoodLegacyPoll, GoodResetHalted,
       GoodCapsRestore, GoodCpuCacheProbe, GoodNoopGate, GoodEnableMse,
       GoodReadOperational, GoodWriteAlias, GoodProgramRings, GoodReadbackSetup DEF PreRun
  <2>2. CASE Running
    BY <1>2, <2>2, GoodRunning
  <2>3. CASE RootDevice
    <3>1. DirectPart \/ StoragePart
      BY <2>3 DEF RootDevice, DirectPart, StoragePart
    <3>2. QED
      BY <1>2, <3>1, GoodDirect, GoodStorage
  <2>4. CASE Hub \/ Child
    BY <1>2, <2>4, GoodHubSteps, GoodChildSteps
  <2>5. CASE Finish
    BY <1>2, <2>5, GoodFinish
  <2>6. CASE FirmwareReleases \/ HaltsLate \/ UNCHANGED vars
    BY <1>2, <2>6, GoodAside
  <2>7. QED
    BY <2>1, <2>2, <2>3, <2>4, <2>5, <2>6 DEF Next, Probe
<1>3. QED
  BY <1>1, <1>2

LEMMA InitGood == Init => GoodInv
<1> SUFFICES ASSUME Init, hw.good PROVE GoodInv
  BY DEF GoodInv
<1>1. pc = "status" /\ code = <<"NOT", "RUN">> /\ hw.halted /\ ~hw.run /\ ~fw.bme
  <2>1. PICK mse, bme, run, bios, os, good \in BOOLEAN :
          /\ good => ~bme /\ ~run
          /\ hw = [mse |-> mse, bme |-> bme, run |-> run, halted |-> ~run,
                   bios |-> bios, os |-> os, bar2 |-> "original", ptr |-> "fw",
                   good |-> good]
          /\ fw = [mse |-> mse, bme |-> bme]
    BY DEF Init
  <2>2. hw.good = good /\ hw.run = run /\ hw.halted = ~run /\ fw.bme = bme
    BY <2>1, Zenon
  <2>3. QED
    BY <2>1, <2>2 DEF Init
<1>2. fs.n = 0 /\ fs.pass = 0 /\ fs.hop = 0 /\ fs.dir = 0 /\ t.i = 0
  BY DEF Init
<1>3. GoodStart
  BY <1>1, <1>2 DEF GoodStart, PreGate, Unclaimed, Live, Enumeration
<1>4. GoodRoot /\ GoodHub /\ GoodChild /\ GoodScan
  BY <1>1 DEF GoodRoot, GoodHub, GoodChild, GoodScan, Storage
<1>5. QED
  BY <1>1, <1>3, <1>4 DEF GoodInv, Failures

\* On hardware that never fails, the probe and its session end in no failure:
\* every transfer of every path is published where the controller looks for
\* it, the largest root directory and the test file fit in the table of
\* storage commands, and the wrap test of the session passes every Link
\* (pi4_xhci_dma_noop_probe, pi4_usb_live_start, kernel_stub.c).
THEOREM GoodEnumerates == Sized => (Spec => []GoodHardwareEnumerates)
<1> SUFFICES ASSUME Sized PROVE Spec => []GoodHardwareEnumerates
  OBVIOUS
<1> DEFINE I == SafeInv /\ RingsTyped /\ GoodInv
<1>1. Init => I
  BY InitSafe, InitRings, InitGood
<1>2. I /\ [Next]_vars => I'
  <2> SUFFICES ASSUME I, [Next]_vars PROVE I'
    OBVIOUS
  <2>1. SafeInv'
    BY NextSafe
  <2>2. RingsTyped'
    BY NextRings DEF SafeInv
  <2>3. GoodInv'
    BY NextGood
  <2>4. QED
    BY <2>1, <2>2, <2>3
<1>3. I => GoodHardwareEnumerates
  BY DEF SafeInv, Typed, RingsTyped, GoodInv, GoodHardwareEnumerates, TypeOK
<1>4. QED
  BY <1>1, <1>2, <1>3, PTL DEF Spec
=============================================================================
