--------------------------- MODULE VirtioBlk_proofs ---------------------------
(***************************************************************************)
(* Proofs about VirtioBlk for every size of the disk, the window, the      *)
(* queue and the ring indices, and any number of calls.  The invariant     *)
(* counts the requests under way on the wrapping indices, and follows a    *)
(* call that had the device for itself from its staging to its answer.     *)
(***************************************************************************)
EXTENDS VirtioBlk, FiniteSetTheorems, TLAPS

IdleCall == [pc : {"idle"}, kind : {"none"}, code : Int]
BusyCall ==
    [pc : {"stage", "publish", "poll", "done"}, kind : {"read", "write", "flush"},
     abs : BOOLEAN, sector : Nat, count : Nat, v : Value, i : Nat, clean : BOOLEAN,
     got : SUBSET (Nat \X Value), code : Int]

Described == Type # "flush" => desc.len = Batch /\ desc.dir = Type

\* The request in the shared memory is the one of the call in progress.
CallInv ==
    /\ call \in IdleCall \union BusyCall
    /\ call.pc # "idle" => call.i <= call.count
    /\ call.pc \in {"publish", "poll"} =>
         ~Refused /\ hdr.type = Type /\ (Type # "flush" => hdr.lba = HostLba)
    /\ call.pc = "poll" => Described
    /\ call.pc \in {"stage", "publish", "poll"} /\ call.i = 0 => call.got = {}

\* Fetched, and not executed, on the wrapping indices.
Fetched == (seen_idx + IndexSpace - used_idx) % IndexSpace

\* The indices count the requests that the device holds.
CountInv ==
    /\ IsFiniteSet(inflight)
    /\ ~broken =>
         /\ Unfetched <= QSize /\ Cardinality(inflight) <= QSize
         /\ Fetched = Cardinality(inflight)
         /\ ~late => seen_idx = avail_idx

\* A device that stopped answers nothing that the driver takes for success,
\* even when the available index comes round to the used index again.
BrokenInv ==
    broken =>
        /\ call.pc = "publish" => hdr.status = 255
        /\ call.pc = "poll" => hdr.status = 255 \/ used_idx # avail_idx

Drained == ~broken /\ inflight = {} /\ seen_idx = avail_idx

\* Behind a successful request nothing is left to do.
DoneInv ==
    /\ call.pc = "stage" /\ call.i > 0 => Drained
    /\ call.pc = "done" /\ call.code = 1 => Drained

Start0 == IF call.abs THEN 0 ELSE LbaBase

\* What the requests before this one did.
Did ==
    /\ call.kind = "write" =>
         \A j \in 0 .. call.i - 1 : disk[Start0 + call.sector + j] = call.v
    /\ call.kind = "read" => \A g \in call.got : disk[g[1]] = g[2]

Staged == call.kind = "write" => \A j \in 0 .. Batch - 1 : data[j] = call.v

\* What this one did.
Effect ==
    /\ call.kind = "write" => \A j \in 0 .. Batch - 1 : disk[HostLba + j] = call.v
    /\ call.kind = "read" => \A j \in 0 .. Batch - 1 : data[j] = disk[HostLba + j]
    /\ call.kind = "flush" => unstable = {}

Own(r) ==
    /\ r.type = hdr.type /\ r.lba = hdr.lba
    /\ r.len = desc.len /\ r.dir = desc.dir

\* The device has only the request of this call, or has answered it.
Waiting ==
    /\ hdr.status = 255 /\ Staged
    /\ \/ inflight = {} /\ seen_idx = used_idx /\ Advance(seen_idx) = avail_idx
       \/ /\ seen_idx = avail_idx /\ Advance(used_idx) = avail_idx
          /\ \E r \in inflight : inflight = {r} /\ Own(r)

Replied ==
    /\ used_idx = avail_idx /\ inflight = {} /\ seen_idx = avail_idx
    /\ hdr.status = 0 => Effect

\* A call whose requests are staged with nothing else under way.
CleanInv ==
    call.pc # "idle" /\ ~broken /\ call.clean =>
        /\ call.pc \in {"stage", "publish", "poll"} => Did
        /\ call.pc = "publish" =>
             /\ inflight = {} /\ seen_idx = avail_idx /\ used_idx = avail_idx
             /\ hdr.status = 255 /\ Staged
        /\ call.pc = "poll" => Waiting \/ Replied
        /\ call.pc = "done" /\ call.code = 1 =>
             /\ Did /\ call.i >= call.count
             /\ call.kind = "flush" => unstable = {}

Inv ==
    /\ TypeOK /\ CallInv /\ CountInv /\ BrokenInv
    /\ DoneInv /\ CleanInv /\ WindowAddresses
-----------------------------------------------------------------------------
(* Wrapping indices.                                                        *)

\* A number below twice the modulus.
LEMMA ModSmall ==
    ASSUME NEW N \in Nat \ {0}, NEW x \in 0 .. 2 * N - 1
    PROVE  x % N = IF x < N THEN x ELSE x - N
  OBVIOUS

Dist(a, b) == (a + IndexSpace - b) % IndexSpace

\* The distance from one index to another.
LEMMA DistValue ==
    ASSUME NEW a \in Index, NEW b \in Index
    PROVE  /\ Dist(a, b) = IF b <= a THEN a - b ELSE a + IndexSpace - b
           /\ Advance(a) = IF a = IndexSpace - 1 THEN 0 ELSE a + 1
           /\ Advance(a) \in Index /\ Dist(a, b) \in Index
<1>1. IndexSpace \in Nat \ {0} /\ IndexSpace > 1
  BY DeviceAssumption
<1>2. a + IndexSpace - b \in 0 .. 2 * IndexSpace - 1 /\ a + 1 \in 0 .. 2 * IndexSpace - 1
  BY <1>1 DEF Index
<1>3. Dist(a, b) = IF a + IndexSpace - b < IndexSpace THEN a + IndexSpace - b
                   ELSE (a + IndexSpace - b) - IndexSpace
  BY <1>1, <1>2, ModSmall DEF Dist
<1>4. Advance(a) = IF a + 1 < IndexSpace THEN a + 1 ELSE (a + 1) - IndexSpace
  BY <1>1, <1>2, ModSmall DEF Advance
<1>5. QED
  BY <1>1, <1>3, <1>4 DEF Index

\* A step of one of the two ends.
LEMMA DistStep ==
    ASSUME NEW a \in Index, NEW b \in Index
    PROVE  /\ Dist(a, b) < IndexSpace - 1 => Dist(Advance(a), b) = Dist(a, b) + 1
           /\ Dist(a, b) > 0 => Dist(a, Advance(b)) = Dist(a, b) - 1
           /\ Dist(a, b) = 0 <=> a = b
           /\ Advance(a) # a
<1>1. IndexSpace \in Nat \ {0} /\ IndexSpace > 1
  BY DeviceAssumption
<1>2. Advance(a) \in Index /\ Advance(b) \in Index
  BY DistValue
<1>3. Dist(Advance(a), b) = IF b <= Advance(a) THEN Advance(a) - b
                            ELSE Advance(a) + IndexSpace - b
  BY <1>2, DistValue
<1>4. Dist(a, Advance(b)) = IF Advance(b) <= a THEN a - Advance(b)
                            ELSE a + IndexSpace - Advance(b)
  BY <1>2, DistValue
<1>5. /\ Dist(a, b) = IF b <= a THEN a - b ELSE a + IndexSpace - b
      /\ Advance(a) = IF a = IndexSpace - 1 THEN 0 ELSE a + 1
      /\ Advance(b) = IF b = IndexSpace - 1 THEN 0 ELSE b + 1
  BY DistValue
<1>6. a \in Int /\ b \in Int /\ 0 <= a /\ a < IndexSpace /\ 0 <= b /\ b < IndexSpace
  BY <1>1 DEF Index
<1>7. QED
  BY <1>1, <1>3, <1>4, <1>5, <1>6

\* Two distances that do not wrap together add up.
LEMMA DistSum ==
    ASSUME NEW a \in Index, NEW b \in Index, NEW c \in Index,
           Dist(a, b) + Dist(b, c) < IndexSpace
    PROVE  Dist(a, c) = Dist(a, b) + Dist(b, c)
<1>1. /\ Dist(a, b) = IF b <= a THEN a - b ELSE a + IndexSpace - b
      /\ Dist(b, c) = IF c <= b THEN b - c ELSE b + IndexSpace - c
      /\ Dist(a, c) = IF c <= a THEN a - c ELSE a + IndexSpace - c
  BY DistValue
<1>2. QED
  BY <1>1, DeviceAssumption DEF Index

-----------------------------------------------------------------------------
(* The requests under way.                                                  *)

\* While the device runs, the driver's distance to the used index is the
\* number of requests that are published and not executed, without a wrap.
LEMMA Counted ==
    ASSUME TypeOK, CountInv, ~broken
    PROVE  /\ Cardinality(inflight) \in Nat /\ Unfetched \in Nat
           /\ Unfetched = Dist(avail_idx, seen_idx)
           /\ Fetched = Dist(seen_idx, used_idx)
           /\ Outstanding = Dist(avail_idx, used_idx)
           /\ Outstanding = Unfetched + Cardinality(inflight)
<1>1. /\ avail_idx \in Index /\ seen_idx \in Index /\ used_idx \in Index
      /\ IsFiniteSet(inflight)
      /\ Unfetched <= QSize /\ Cardinality(inflight) <= QSize
      /\ Fetched = Cardinality(inflight)
  BY DEF TypeOK, CountInv
<1>2. /\ Unfetched = Dist(avail_idx, seen_idx)
      /\ Fetched = Dist(seen_idx, used_idx)
      /\ Outstanding = Dist(avail_idx, used_idx)
  BY DEF Unfetched, Fetched, Outstanding, Dist
<1>3. Cardinality(inflight) \in Nat
  BY <1>1, FS_CardinalityType
<1>4. Dist(avail_idx, seen_idx) \in Nat /\ Dist(seen_idx, used_idx) \in Nat
  BY <1>1, DistValue DEF Index
<1>5. Dist(avail_idx, seen_idx) + Dist(seen_idx, used_idx) < IndexSpace
  BY <1>1, <1>2, <1>4, DeviceAssumption
<1>6. QED
  BY <1>1, <1>2, <1>3, <1>4, <1>5, DistSum

\* The used index is the one waited for when nothing is left, and only then.
LEMMA AnsweredDrained ==
    ASSUME TypeOK, CountInv, ~broken, avail_idx = used_idx
    PROVE  Drained
<1>1. Outstanding = 0
  BY Counted, DistStep DEF TypeOK
<1>2. Unfetched = 0 /\ Cardinality(inflight) = 0
  BY <1>1, Counted
<1>3. avail_idx = seen_idx
  BY <1>2, Counted, DistStep DEF TypeOK
<1>4. inflight = {}
  BY <1>2, FS_EmptySet DEF CountInv
<1>5. QED
  BY <1>3, <1>4 DEF Drained

\* While there is room, the device has a name for the next request.
LEMMA FreeIdExists ==
    ASSUME TypeOK, IsFiniteSet(inflight), Cardinality(inflight) < QSize
    PROVE  FreeId \in 0 .. QSize - 1 /\ \A r \in inflight : r.id # FreeId
<1> DEFINE ids == {r.id : r \in inflight}
           all == 0 .. QSize - 1
<1>1. IsFiniteSet(ids) /\ Cardinality(ids) <= Cardinality(inflight)
  <2> DEFINE f == [r \in inflight |-> r.id]
  <2>1. f \in Surjection(inflight, ids)
    BY DEF Surjection
  <2>2. QED
    BY <2>1, FS_Surjection
<1>2. IsFiniteSet(all) /\ Cardinality(all) = QSize
  BY FS_Interval, DeviceAssumption
<1>3. Cardinality(ids) \in Nat /\ Cardinality(inflight) \in Nat
  BY <1>1, FS_CardinalityType
<1>4. \E k \in all : k \notin ids
  <2> SUFFICES ASSUME all \subseteq ids PROVE FALSE
    OBVIOUS
  <2>1. Cardinality(all) <= Cardinality(ids)
    BY <1>1, FS_Subset
  <2>2. QED
    BY <1>1, <1>2, <1>3, <2>1, DeviceAssumption
<1>5. \E k \in 0 .. QSize - 1 : \A r \in inflight : r.id # k
  BY <1>4
<1>6. QED
  BY <1>5 DEF FreeId

-----------------------------------------------------------------------------
(* The call in progress.                                                    *)

\* Where the window is, and the sectors of the next request.
LEMMA CallTypes ==
    ASSUME TypeOK, CallInv
    PROVE  /\ full \in Nat \ {0} /\ LbaBase \in Nat /\ Capacity \in Nat
           /\ call.pc # "idle" =>
                /\ call \in BusyCall
                /\ Batch \in Nat /\ HostLba \in Nat /\ Start0 \in Nat
                /\ HostLba = Start0 + call.sector + call.i
                /\ call.i + Batch <= call.count
                /\ Batch = 0 => call.i = call.count
<1>1. full \in Nat \ {0}
  BY DeviceAssumption DEF TypeOK
<1>2. LbaBase \in Nat /\ Capacity \in Nat
  BY <1>1, DeviceAssumption DEF LbaBase, Capacity
<1>3. ASSUME call.pc # "idle"
      PROVE  /\ call \in BusyCall
             /\ Batch \in Nat /\ HostLba \in Nat /\ Start0 \in Nat
             /\ HostLba = Start0 + call.sector + call.i
             /\ call.i + Batch <= call.count
             /\ Batch = 0 => call.i = call.count
  <2>1. call \in BusyCall /\ call.i <= call.count
    BY <1>3 DEF CallInv, IdleCall
  <2>2. /\ call.i \in Nat /\ call.count \in Nat /\ call.sector \in Nat
        /\ call.abs \in BOOLEAN
    BY <2>1 DEF BusyCall
  <2>3. QED
    BY <1>2, <2>1, <2>2, DeviceAssumption DEF Batch, HostLba, Start0
<1>4. QED
  BY <1>1, <1>2, <1>3

\* A request that is not refused fits into the buffer, and a request through
\* the window into the window.
LEMMA Accepted ==
    ASSUME TypeOK, CallInv, call.pc # "idle", ~Refused, call.kind # "flush"
    PROVE  Batch <= Window /\ (~call.abs => call.sector + call.i + Batch <= Capacity)
<1>1. /\ Batch \in Nat /\ Capacity \in Nat /\ Window \in Nat
      /\ call.sector \in Nat /\ call.i \in Nat
  BY CallTypes, DeviceAssumption DEF BusyCall
<1>2. QED
  BY <1>1 DEF Refused

\* What the next request is depends on the call alone.
SameRequest ==
    /\ full' = full
    /\ call'.kind = call.kind /\ call'.abs = call.abs /\ call'.sector = call.sector
    /\ call'.count = call.count /\ call'.i = call.i /\ call'.v = call.v

LEMMA RequestKept ==
    ASSUME SameRequest
    PROVE  /\ Batch' = Batch /\ Type' = Type /\ HostLba' = HostLba
           /\ Refused' = Refused /\ Start0' = Start0
           /\ LbaBase' = LbaBase /\ Capacity' = Capacity
<1>1. LbaBase' = LbaBase /\ Capacity' = Capacity
  BY DEF SameRequest, LbaBase, Capacity
<1>2. Batch' = Batch /\ Type' = Type
  BY DEF SameRequest, Batch, Type
<1>3. HostLba' = HostLba /\ Start0' = Start0
  BY <1>1 DEF SameRequest, HostLba, Start0
<1>4. Refused' = Refused
  BY <1>1, <1>2 DEF SameRequest, Refused
<1>5. QED
  BY <1>1, <1>2, <1>3, <1>4

\* A device that fetches no request keeps the window's addresses.
LEMMA WindowKept ==
    ASSUME WindowAddresses, full' = full, late' = late, inflight' \subseteq inflight
    PROVE  WindowAddresses'
  BY DEF WindowAddresses, RsWindow, LbaBase, Capacity

\* The parts of the invariant that the driver's own steps keep.
LEMMA DeviceKept ==
    ASSUME Inv, UNCHANGED <<setup, ring, device>>
    PROVE  CountInv' /\ WindowAddresses'
<1>1. UNCHANGED <<full, late, inflight, broken, avail_idx, seen_idx, used_idx>>
  BY DEF setup, ring, device
<1>2. CountInv'
  BY <1>1 DEF Inv, CountInv, Unfetched, Fetched
<1>3. WindowAddresses'
  BY <1>1, WindowKept DEF Inv
<1>4. QED
  BY <1>2, <1>3

LEMMA TypeKept ==
    ASSUME TypeOK, UNCHANGED <<setup, ring, device>>,
           calls' \in 0 .. MaxCalls, mode' \in {"boot", "probing", "ready", "off"},
           call'.pc \in {"idle", "stage", "publish", "poll", "done"}
    PROVE  TypeOK'
  BY DEF TypeOK, setup, ring, device, Sector, Value, Index

\* The call returns without success.
LEMMA ReturnKeeps ==
    ASSUME Inv, NEW code \in Int \ {1}, call.pc # "idle", Returns(code),
           UNCHANGED <<setup, calls, mode, ring, device>>
    PROVE  Inv'
<1>1. call \in BusyCall /\ call.i <= call.count
  BY CallTypes DEF Inv, CallInv
<1>2. /\ call' \in BusyCall /\ call'.pc = "done" /\ call'.code = code
      /\ call'.i = call.i /\ call'.count = call.count
  BY <1>1 DEF Returns, BusyCall
<1>3. BusyCall' = BusyCall
  BY DEF BusyCall, Value
<1>4. TypeOK'
  BY <1>2, TypeKept DEF Inv, TypeOK
<1>5. CallInv'
  BY <1>1, <1>2, <1>3 DEF CallInv
<1>6. BrokenInv' /\ DoneInv' /\ CleanInv'
  BY <1>2 DEF BrokenInv, DoneInv, CleanInv
<1>7. QED
  BY <1>4, <1>5, <1>6, DeviceKept DEF Inv

\* No call, or one that has not begun.
Fresh(c) ==
    \/ c \in IdleCall
    \/ c \in BusyCall /\ c.pc = "stage" /\ c.i = 0 /\ c.got = {}

LEMMA FreshKeeps ==
    ASSUME Inv, Fresh(call'), UNCHANGED <<setup, ring, device>>,
           calls' \in 0 .. MaxCalls, mode' \in {"boot", "probing", "ready", "off"}
    PROVE  Inv'
<1>1. call'.pc \in {"idle", "stage"}
  BY DEF Fresh, IdleCall
<1>2. BusyCall' = BusyCall /\ IdleCall' = IdleCall
  BY DEF BusyCall, IdleCall, Value
<1>3. TypeOK'
  BY <1>1, TypeKept DEF Inv
<1>4. call'.pc = "stage" => call' \in BusyCall /\ call'.i = 0 /\ call'.got = {}
  BY DEF Fresh, IdleCall
<1>5. CallInv'
  <2>1. call' \in (IdleCall \union BusyCall)'
    BY <1>2 DEF Fresh
  <2>2. call'.pc = "stage" => call'.i <= call'.count
    BY <1>4 DEF BusyCall
  <2>3. QED
    BY <1>1, <1>4, <2>1, <2>2 DEF CallInv
<1>6. BrokenInv' /\ DoneInv'
  BY <1>1, <1>4 DEF BrokenInv, DoneInv
<1>7. CleanInv'
  BY <1>1, <1>4 DEF CleanInv, Did
<1>8. QED
  BY <1>3, <1>5, <1>6, <1>7, DeviceKept DEF Inv

-----------------------------------------------------------------------------
(* The steps of the driver.                                                 *)

LEMMA RefuseKeeps ==
    ASSUME Inv, Refuse
    PROVE  Inv'
  BY ReturnKeeps DEF Refuse

LEMMA TimeoutKeeps ==
    ASSUME Inv, Timeout
    PROVE  Inv'
  BY ReturnKeeps DEF Timeout

\* The calls that the driver and the rest of the system make.
LEMMA NewCallFresh ==
    ASSUME NEW kind \in {"read", "write", "flush"}, NEW abs \in BOOLEAN,
           NEW sector \in Nat, NEW count \in Nat, NEW v \in Value
    PROVE  Fresh(NewCall(kind, abs, sector, count, v))
  BY DEF Fresh, NewCall, BusyCall

LEMMA IdleFresh == ASSUME NEW code \in Int PROVE Fresh([Idle EXCEPT !.code = code])
  BY DEF Fresh, Idle, IdleCall

LEMMA ProbeFresh ==
    ASSUME NEW kind \in {"read", "write"} PROVE Fresh(ProbeCall(kind))
  BY NewCallFresh, DeviceAssumption DEF ProbeCall, Value

LEMMA FinishKeeps ==
    ASSUME Inv, Finish
    PROVE  Inv'
<1>1. call.code \in Int
  BY CallTypes DEF Inv, Finish, BusyCall
<1>2. call' = ProbeCall("read") \/ call' = [Idle EXCEPT !.code = call.code]
  BY DEF Finish
<1>3. Fresh(call')
  BY <1>1, <1>2, ProbeFresh, IdleFresh
<1>4. /\ UNCHANGED <<setup, calls, ring, device>>
      /\ mode' \in {"probing", "off", "ready", mode}
  BY DEF Finish
<1>5. calls' \in 0 .. MaxCalls /\ mode' \in {"boot", "probing", "ready", "off"}
  BY <1>4 DEF Inv, TypeOK
<1>6. QED
  BY <1>3, <1>4, <1>5, FreshKeeps

LEMMA CallKeeps ==
    ASSUME Inv, Call
    PROVE  Inv'
<1>1. UNCHANGED <<setup, mode, ring, device>> /\ calls' = calls + 1 /\ calls < MaxCalls
  BY DEF Call
<1>2. calls' \in 0 .. MaxCalls /\ mode' \in {"boot", "probing", "ready", "off"}
  BY <1>1, DeviceAssumption DEF Inv, TypeOK
<1>3. Sector \subseteq Nat /\ 1 .. Window + 1 \subseteq Nat
  BY CallTypes, DeviceAssumption DEF Inv, Sector
<1>4. Blank \in Value /\ AbsValues \subseteq Value /\ RsValues \subseteq Value
  BY DEF Value
<1>5. Fresh(call')
  <2>1. CASE \E abs \in BOOLEAN, sector \in Sector, count \in 1 .. Window + 1 :
                call' = NewCall("read", abs, sector, count, Blank)
    BY <2>1, <1>3, <1>4, NewCallFresh
  <2>2. CASE \E abs \in BOOLEAN, sector \in Sector, count \in 1 .. Window + 1 :
                \E v \in IF abs THEN AbsValues ELSE RsValues :
                    call' = NewCall("write", abs, sector, count, v)
    <3>1. PICK abs \in BOOLEAN, sector \in Sector, count \in 1 .. Window + 1 :
                \E v \in IF abs THEN AbsValues ELSE RsValues :
                    call' = NewCall("write", abs, sector, count, v)
      BY <2>2
    <3>2. PICK v \in Value : call' = NewCall("write", abs, sector, count, v)
      BY <3>1, <1>4
    <3>3. QED
      BY <3>2, <1>3, NewCallFresh
  <2>3. CASE call' = NewCall("flush", TRUE, 0, 0, Blank)
    BY <2>3, <1>4, NewCallFresh
  <2>4. QED
    BY <2>1, <2>2, <2>3 DEF Call
<1>6. QED
  BY <1>1, <1>2, <1>5, FreshKeeps

LEMMA RestartKeeps ==
    ASSUME Inv, Restart
    PROVE  Inv'
<1>1. Fresh(call')
  BY DEF Restart, Fresh, Idle, IdleCall
<1>2. UNCHANGED <<setup, ring, device>> /\ calls' \in 0 .. MaxCalls
      /\ mode' \in {"boot", "probing", "ready", "off"}
  BY DEF Restart, Inv, TypeOK
<1>3. QED
  BY <1>1, <1>2, FreshKeeps

LEMMA StartFailsKeeps ==
    ASSUME Inv, StartFails
    PROVE  Inv'
<1>1. UNCHANGED <<full, late, hdr, data, desc, avail_idx, seen_idx, inflight, broken,
                  disk, unstable, used_idx, call, calls>> /\ mode' = "off"
  BY DEF StartFails, setup, ring, device
<1>2. TypeOK'
  BY <1>1 DEF Inv, TypeOK, Sector, Value, Index
<1>3. SameRequest
  BY <1>1 DEF SameRequest
<1>4. CallInv'
  BY <1>1, <1>3, RequestKept
     DEF Inv, CallInv, IdleCall, BusyCall, Value, Described
<1>5. CountInv' /\ WindowAddresses'
  BY <1>1, DeviceKept DEF setup, ring, device
<1>6. BrokenInv' /\ DoneInv'
  BY <1>1 DEF Inv, BrokenInv, DoneInv, Drained
<1>7. CleanInv'
  BY <1>1, <1>3, RequestKept
     DEF Inv, CleanInv, Did, Staged, Waiting, Replied, Effect, Own, Advance
<1>8. QED
  BY <1>2, <1>4, <1>5, <1>6, <1>7 DEF Inv

\* A device that is empty, running and counted from 0.
Empty ==
    /\ full \in FullCapacities /\ late \in BOOLEAN /\ calls \in 0 .. MaxCalls
    /\ mode \in {"boot", "probing"}
    /\ hdr = NoHeader /\ data = NoData /\ desc = NoDescriptor
    /\ avail_idx = 0 /\ used_idx = 0 /\ seen_idx = 0 /\ inflight = {} /\ broken = FALSE
    /\ disk \in [Sector -> Value] /\ unstable \subseteq Sector /\ Fresh(call)

LEMMA EmptyDevice == Empty => Inv
<1> SUFFICES ASSUME Empty PROVE Inv
  OBVIOUS
<1> USE DEF Empty
<1>1. call.pc \in {"idle", "stage"}
  BY DEF Fresh, IdleCall
<1>2. TypeOK
  <2>1. IndexSpace \in Nat \ {0} /\ Window \in Nat \ {0}
    BY DeviceAssumption
  <2>2. 0 \in Index /\ 0 \in 0 .. Window
    BY <2>1 DEF Index
  <2>3. data \in [0 .. Window - 1 -> Value]
    BY DEF NoData, Value
  <2>4. /\ hdr \in [type : {"in", "out", "flush"}, lba : Nat, status : {0, 1, 255}]
        /\ desc \in [len : 0 .. Window, dir : {"in", "out", "none"}]
    BY <2>2 DEF NoHeader, NoDescriptor
  <2>5. QED
    BY <1>1, <2>2, <2>3, <2>4 DEF TypeOK
<1>3. call.pc = "stage" => call \in BusyCall /\ call.i = 0 /\ call.got = {}
  BY DEF Fresh, IdleCall
<1>4. CallInv
  BY <1>1, <1>3 DEF Fresh, CallInv, BusyCall
<1>5. CountInv
  <2>1. Unfetched = 0 /\ Fetched = 0
    <3>1. 0 \in Index
      BY DeviceAssumption DEF Index
    <3>2. Dist(0, 0) = 0
      BY <3>1, DistStep
    <3>3. QED
      BY <3>2 DEF Unfetched, Fetched, Dist
  <2>2. QED
    BY <2>1, FS_EmptySet, DeviceAssumption DEF CountInv
<1>6. BrokenInv /\ DoneInv /\ WindowAddresses
  BY <1>1, <1>3 DEF BrokenInv, DoneInv, WindowAddresses
<1>7. CleanInv
  BY <1>1, <1>3 DEF CleanInv, Did
<1>8. QED
  BY <1>2, <1>4, <1>5, <1>6, <1>7 DEF Inv

LEMMA InitInv ==
    ASSUME Init
    PROVE  Inv
<1>1. Fresh(call)
  BY DEF Init, Fresh, Idle, IdleCall
<1>2. disk \in [Sector -> Value] /\ unstable \subseteq Sector
  BY DEF Init, Value
<1>3. late \in BOOLEAN /\ calls \in 0 .. MaxCalls
  BY DeviceAssumption DEF Init
<1>4. QED
  BY <1>1, <1>2, <1>3, EmptyDevice DEF Init, Empty

LEMMA StartKeeps ==
    ASSUME Inv, Start
    PROVE  Inv'
<1>1. /\ UNCHANGED <<full, late, calls, disk, unstable>>
      /\ mode' = "probing" /\ call' = ProbeCall("write")
      /\ hdr' = NoHeader /\ data' = NoData /\ desc' = NoDescriptor
      /\ avail_idx' = 0 /\ used_idx' = 0 /\ seen_idx' = 0
      /\ inflight' = {} /\ broken' = FALSE
  BY DEF Start, setup
<1>2. Fresh(call')
  BY <1>1, ProbeFresh
<1>3. (Fresh(call))'
  BY <1>2 DEF Fresh, BusyCall, IdleCall, Value
<1>4. /\ full \in FullCapacities /\ late \in BOOLEAN /\ calls \in 0 .. MaxCalls
      /\ disk \in [Sector -> Value] /\ unstable \subseteq Sector
  BY DEF Inv, TypeOK
<1>5. Empty'
  BY <1>1, <1>3, <1>4 DEF Empty, Sector, Value
<1>6. QED
  BY <1>5, EmptyDevice, PTL

\* Nothing is under way when a clean request is staged, and the buffer holds
\* what it writes.
LEMMA StageKeeps ==
    ASSUME Inv, Stage
    PROVE  Inv'
<1> DEFINE clean == call.clean /\ Outstanding = 0
<1>1. /\ call.pc = "stage" /\ ~Refused
      /\ call' = [call EXCEPT !.pc = "publish", !.clean = clean]
      /\ UNCHANGED <<full, late, calls, mode, desc, avail_idx, seen_idx, inflight,
                     broken, disk, unstable, used_idx>>
      /\ hdr'.type = Type /\ hdr'.status = 255
      /\ Type # "flush" => hdr'.lba = HostLba
  BY DEF Stage, setup, device
<1>2. call \in BusyCall /\ Batch \in Nat /\ HostLba \in Nat
  BY <1>1, CallTypes DEF Inv
<1>3. /\ call' \in BusyCall /\ call'.pc = "publish" /\ call'.clean = clean
      /\ call'.got = call.got /\ call'.i = call.i /\ call'.count = call.count
      /\ call'.kind = call.kind /\ call'.v = call.v
  <2>1. clean \in BOOLEAN
    BY <1>2 DEF BusyCall
  <2> HIDE DEF clean
  <2>2. QED
    BY <1>1, <1>2, <2>1 DEF BusyCall
<1>4. SameRequest
  BY <1>1, <1>2 DEF SameRequest, BusyCall
<1>5. Type \in {"in", "out", "flush"}
  BY DEF Type
<1>6. TypeOK'
  <2>1. hdr' \in [type : {"in", "out", "flush"}, lba : Nat, status : {0, 1, 255}]
    BY <1>2, <1>5 DEF Stage
  <2>2. data' \in [0 .. Window - 1 -> Value]
    BY <1>2 DEF Inv, TypeOK, Stage, BusyCall
  <2>3. QED
    BY <1>1, <1>3, <2>1, <2>2 DEF Inv, TypeOK, Sector, Value, Index
<1>7. CallInv'
  <2>1. (IdleCall \union BusyCall)' = IdleCall \union BusyCall
    BY DEF IdleCall, BusyCall, Value
  <2>2. QED
    BY <1>1, <1>3, <1>4, <2>1, RequestKept DEF Inv, CallInv
<1>8. CountInv'
  BY <1>1 DEF Inv, CountInv, Unfetched, Fetched
<1>9. WindowAddresses'
  BY <1>1, WindowKept DEF Inv
<1>10. BrokenInv' /\ DoneInv'
  BY <1>1, <1>3 DEF BrokenInv, DoneInv
<1>11. CleanInv'
  <2> SUFFICES ASSUME ~broken, clean
               PROVE  /\ Did' /\ inflight' = {} /\ Staged'
                      /\ seen_idx' = avail_idx' /\ used_idx' = avail_idx'
    BY <1>1, <1>3 DEF CleanInv
  <2>1. avail_idx = used_idx
    BY Counted, DistStep DEF Inv, TypeOK
  <2>2. Drained
    BY <2>1, AnsweredDrained DEF Inv
  <2>3. Did'
    BY <1>1, <1>2, <1>3, <1>4, RequestKept DEF Inv, CleanInv, Did
  <2>4. Staged'
    <3> SUFFICES ASSUME call.kind = "write", NEW j \in 0 .. Batch - 1
                 PROVE  data'[j] = call.v
      BY <1>3, <1>4, RequestKept DEF Staged
    <3>1. Batch <= Window
      BY <1>1, Accepted DEF Inv
    <3>2. j \in 0 .. Window - 1 /\ j < Batch
      BY <1>2, <3>1, DeviceAssumption
    <3>3. QED
      BY <3>2 DEF Stage, Type
  <2>5. QED
    BY <1>1, <2>1, <2>2, <2>3, <2>4 DEF Drained
<1>12. QED
  BY <1>6, <1>7, <1>8, <1>9, <1>10, <1>11 DEF Inv

\* The status is looked at when nothing is under way any more.
LEMMA CompletedKeeps ==
    ASSUME Inv, Completed
    PROVE  Inv'
<1>1. /\ call.pc = "poll" /\ used_idx = avail_idx
      /\ UNCHANGED <<setup, calls, mode, ring, device>>
  BY DEF Completed, Answered
<1>2. CASE hdr.status # 0
  <2>1. Returns(-2 - hdr.status)
    BY <1>2 DEF Completed, StatusOk
  <2>2. -2 - hdr.status \in Int \ {1}
    BY DEF Inv, TypeOK
  <2>3. QED
    BY <1>1, <2>1, <2>2, ReturnKeeps
<1>3. CASE hdr.status = 0
  <2> DEFINE n == IF Type = "flush" THEN 0 ELSE Batch
             got == IF Type = "in"
                    THEN {<<HostLba + j, data[j]>> : j \in 0 .. n - 1} ELSE {}
             last == call.i + n >= call.count
             pc1 == IF last THEN "done" ELSE "stage"
             code1 == IF last THEN 1 ELSE 0
             i1 == call.i + n
             got1 == call.got \union got
  <2>1. call' = [call EXCEPT !.pc = pc1, !.i = i1, !.got = got1, !.code = code1]
    BY <1>1, <1>3 DEF Completed, StatusOk
  <2>2. call \in BusyCall /\ Batch \in Nat /\ HostLba \in Nat /\ Start0 \in Nat
        /\ HostLba = Start0 + call.sector + call.i
        /\ call.i + Batch <= call.count
        /\ (Batch = 0 => call.i = call.count)
    BY <1>1, CallTypes DEF Inv
  <2>3. /\ call.i \in Nat /\ call.count \in Nat /\ call.kind \in {"read", "write", "flush"}
        /\ call.sector \in Nat /\ call.got \subseteq Nat \X Value
    BY <2>2 DEF BusyCall
  <2>4. n \in Nat /\ n <= Batch
    BY <2>2
  <2>5. ~broken
    BY <1>1, <1>3 DEF Inv, BrokenInv
  <2>6. Drained
    BY <1>1, <2>5, AnsweredDrained DEF Inv
  <2>7. ~Refused
    BY <1>1 DEF Inv, CallInv
  <2>8. got \subseteq Nat \X Value
    <3>1. CASE Type = "in"
      <4>1. Batch <= Window
        BY <1>1, <2>7, <3>1, Accepted DEF Inv, Type
      <4>2. ASSUME NEW j \in 0 .. n - 1 PROVE <<HostLba + j, data[j]>> \in Nat \X Value
        BY <2>2, <2>4, <4>1, DeviceAssumption DEF Inv, TypeOK
      <4>3. QED
        BY <3>1, <4>2
    <3>2. QED
      BY <3>1
  <2>9. pc1 \in {"done", "stage"} /\ i1 \in Nat /\ code1 \in {0, 1} /\ got1 \subseteq Nat \X Value
    BY <2>3, <2>4, <2>8
  <2>10. /\ call' \in BusyCall /\ call'.pc = pc1 /\ call'.i = i1 /\ call'.got = got1
         /\ call'.code = code1 /\ call'.clean = call.clean /\ call'.kind = call.kind
         /\ call'.count = call.count /\ call'.v = call.v /\ call'.sector = call.sector
         /\ call'.abs = call.abs
    <3> HIDE DEF pc1, i1, got1, code1
    <3>1. call' \in [pc : {pc1}, kind : {call.kind}, abs : {call.abs},
                     sector : {call.sector}, count : {call.count}, v : {call.v},
                     i : {i1}, clean : {call.clean}, got : {got1}, code : {code1}]
      BY <2>1, <2>2 DEF BusyCall
    <3>2. QED
      BY <2>2, <2>9, <3>1 DEF BusyCall
  <2>11. TypeOK'
    BY <1>1, <2>9, <2>10, TypeKept DEF Inv, TypeOK
  <2>12. CallInv'
    <3>1. (IdleCall \union BusyCall)' = IdleCall \union BusyCall
      BY DEF IdleCall, BusyCall, Value
    <3>2. i1 <= call.count
      BY <2>2, <2>3, <2>4
    <3>3. pc1 = "stage" /\ i1 = 0 => got1 = {}
      <4> SUFFICES ASSUME ~last, i1 = 0 PROVE got1 = {}
        OBVIOUS
      <4>1. n = 0 /\ call.i = 0 /\ call.count > 0
        BY <2>3, <2>4
      <4>2. got = {}
        BY <4>1
      <4>3. QED
        BY <1>1, <4>1, <4>2 DEF Inv, CallInv
    <3>4. QED
      BY <2>9, <2>10, <3>1, <3>2, <3>3 DEF CallInv
  <2>13. BrokenInv' /\ DoneInv'
    BY <1>1, <2>5, <2>6, <2>9, <2>10 DEF BrokenInv, DoneInv, Drained, device, ring
  <2>14. CleanInv'
    <3> SUFFICES ASSUME call.clean
                 PROVE  /\ Did'
                        /\ call.kind = "flush" => unstable = {}
                        /\ pc1 = "done" => i1 >= call.count
      BY <1>1, <2>9, <2>10 DEF CleanInv, device
    <3>1. Waiting \/ Replied
      BY <1>1, <2>5 DEF Inv, CleanInv
    <3>2. ~Waiting
      BY <1>3 DEF Waiting
    <3>3. Effect
      BY <1>3, <3>1, <3>2 DEF Replied
    <3>4. Did
      BY <1>1, <2>5 DEF Inv, CleanInv
    <3>5. Start0' = Start0 /\ disk' = disk
      BY <1>1, <2>10 DEF Start0, LbaBase, setup, device
    <3>6. ASSUME call.kind = "write", NEW j \in 0 .. i1 - 1
          PROVE  disk[Start0 + call.sector + j] = call.v
      <4>1. n = Batch
        BY <3>6 DEF Type
      <4>2. CASE j < call.i
        BY <2>3, <3>4, <3>6, <4>2 DEF Did
      <4>3. CASE j >= call.i
        <5>1. j - call.i \in 0 .. Batch - 1
          BY <2>2, <2>3, <4>1, <4>3
        <5>2. Start0 + call.sector + j = HostLba + (j - call.i)
          BY <2>2, <2>3
        <5>3. QED
          BY <3>3, <3>6, <5>1, <5>2 DEF Effect
      <4>4. QED
        BY <2>3, <2>4, <4>2, <4>3
    <3>7. ASSUME call.kind = "read", NEW g \in got1
          PROVE  disk[g[1]] = g[2]
      <4>1. CASE g \in call.got
        BY <3>4, <3>7, <4>1 DEF Did
      <4>2. CASE g \in got
        <5>1. n = Batch
          BY <3>7 DEF Type
        <5>2. PICK j \in 0 .. Batch - 1 : g = <<HostLba + j, data[j]>>
          BY <4>2, <5>1
        <5>3. QED
          BY <3>3, <3>7, <5>2 DEF Effect
      <4>3. QED
        BY <4>1, <4>2
    <3>8. Did'
      <4>1. call.kind = "write" => \A j \in 0 .. i1 - 1 : disk[Start0 + call.sector + j] = call.v
        BY <3>6
      <4>2. call.kind = "read" => \A g \in got1 : disk[g[1]] = g[2]
        BY <3>7
      <4> HIDE DEF i1, got1
      <4>3. QED
        BY <2>10, <3>5, <4>1, <4>2 DEF Did
    <3>9. pc1 = "done" => i1 >= call.count
      OBVIOUS
    <3>10. QED
      BY <3>3, <3>8, <3>9 DEF Effect
  <2>15. QED
    BY <1>1, <2>11, <2>12, <2>13, <2>14, DeviceKept DEF Inv
<1>4. QED
  BY <1>2, <1>3

-----------------------------------------------------------------------------
(* Publishing, fetching and executing a request.                            *)

Request ==
    [id : 0 .. QSize - 1, type : {"in", "out", "flush"}, lba : Nat,
     len : 0 .. Window, dir : {"in", "out", "none"}, abs : BOOLEAN]

\* The device fetches one request more.
LEMMA RequestAdded ==
    ASSUME TypeOK, CountInv, ~broken, Cardinality(inflight) < QSize,
           NEW h \in [type : {"in", "out", "flush"}, lba : Nat, status : {0, 1, 255}],
           NEW d \in [len : 0 .. Window, dir : {"in", "out", "none"}]
    PROVE  LET r == Chain(h, d)
           IN  /\ r \in Request /\ r.type = h.type /\ r.lba = h.lba
               /\ r.len = d.len /\ r.dir = d.dir
               /\ r.abs = (call.kind # "none" /\ call.abs)
               /\ IsFiniteSet(inflight \union {r})
               /\ Cardinality(inflight \union {r}) = Cardinality(inflight) + 1
<1> DEFINE r == Chain(h, d)
<1>1. IsFiniteSet(inflight)
  BY DEF CountInv
<1>2. FreeId \in 0 .. QSize - 1 /\ \A q \in inflight : q.id # FreeId
  BY <1>1, FreeIdExists
<1>3. /\ r \in Request /\ r.id = FreeId /\ r.type = h.type /\ r.lba = h.lba
      /\ r.len = d.len /\ r.dir = d.dir /\ r.abs = (call.kind # "none" /\ call.abs)
  BY <1>2 DEF Chain, Request
<1>4. r \notin inflight
  BY <1>2, <1>3
<1> HIDE DEF r
<1>5. /\ IsFiniteSet(inflight \union {r})
      /\ Cardinality(inflight \union {r}) = Cardinality(inflight) + 1
  BY <1>1, <1>4, FS_AddElement
<1>6. QED
  BY <1>3, <1>5 DEF r

LEMMA FetchKeeps ==
    ASSUME Inv, Fetch
    PROVE  Inv'
<1>0. PICK r : r = Chain(hdr, desc)
  OBVIOUS
<1>1. /\ late /\ ~broken /\ Unfetched > 0 /\ Cardinality(inflight) < QSize
      /\ inflight' = inflight \union {r} /\ seen_idx' = Advance(seen_idx)
      /\ UNCHANGED <<full, late, calls, mode, hdr, data, desc, avail_idx, broken, used_idx,
                     disk, unstable, call>>
  BY <1>0 DEF Fetch, setup, ring
<1>2. /\ r \in Request /\ Own(r)
      /\ IsFiniteSet(inflight') /\ Cardinality(inflight') = Cardinality(inflight) + 1
  BY <1>0, <1>1, RequestAdded, SMTT(60) DEF Inv, TypeOK, Own
<1>3. /\ avail_idx \in Index /\ seen_idx \in Index /\ used_idx \in Index
      /\ seen_idx' \in Index
  BY <1>1, DistValue DEF Inv, TypeOK
<1>4. /\ Unfetched = Dist(avail_idx, seen_idx) /\ Fetched = Dist(seen_idx, used_idx)
      /\ Fetched = Cardinality(inflight) /\ Cardinality(inflight) \in Nat
      /\ Unfetched <= QSize /\ Unfetched \in Nat
  BY <1>1, Counted DEF Inv, CountInv
<1>5. Unfetched' = Unfetched - 1 /\ Fetched' = Fetched + 1
  <2>1. Dist(avail_idx, seen_idx') = Unfetched - 1
    BY <1>1, <1>3, <1>4, DistStep
  <2>2. Dist(seen_idx', used_idx) = Fetched + 1
    <3>1. QSize < IndexSpace /\ QSize \in Nat /\ IndexSpace \in Nat
      BY DeviceAssumption
    <3>2. Dist(seen_idx, used_idx) < IndexSpace - 1
      BY <1>1, <1>4, <3>1
    <3>3. Dist(Advance(seen_idx), used_idx) = Dist(seen_idx, used_idx) + 1
      BY <1>3, <3>2, DistStep
    <3>4. QED
      BY <1>1, <1>4, <3>3
  <2>3. Unfetched' = Dist(avail_idx, seen_idx') /\ Fetched' = Dist(seen_idx', used_idx)
    BY <1>1 DEF Unfetched, Fetched, Dist
  <2>4. QED
    BY <2>1, <2>2, <2>3
<1>6. SameRequest
  BY <1>1 DEF SameRequest
<1>7. TypeOK'
  BY <1>1, <1>2, <1>3 DEF Inv, TypeOK, Request, Sector, Value, Index
<1>8. CallInv'
  BY <1>1, <1>6, RequestKept DEF Inv, CallInv, IdleCall, BusyCall, Value, Described
<1>9. CountInv'
  BY <1>1, <1>2, <1>4, <1>5, DeviceAssumption DEF CountInv
<1>10. BrokenInv' /\ WindowAddresses'
  BY <1>1 DEF BrokenInv, WindowAddresses
<1>11. DoneInv'
  <2>1. ~Drained
    BY <1>1, <1>3, <1>4, DistStep DEF Drained
  <2>2. QED
    BY <1>1, <2>1 DEF Inv, DoneInv
<1>12. CleanInv'
  <2> SUFFICES ASSUME call.pc # "idle", call.clean
               PROVE  CleanInv'
    BY <1>1 DEF CleanInv
  <2>1. avail_idx # seen_idx
    BY <1>1, <1>3, <1>4, DistStep
  <2>2. call.pc # "publish" /\ ~(call.pc = "done" /\ call.code = 1)
    BY <1>1, <2>1 DEF Inv, CleanInv, DoneInv, Drained
  <2>3. Did' <=> Did
    BY <1>1, <1>6, RequestKept DEF Did
  <2>4. ASSUME call.pc = "poll" PROVE Waiting'
    <3>1. Waiting
      BY <1>1, <2>1, <2>4 DEF Inv, CleanInv, Replied
    <3>2. /\ hdr.status = 255 /\ Staged /\ inflight = {} /\ seen_idx = used_idx
          /\ Advance(seen_idx) = avail_idx
      BY <2>1, <3>1 DEF Waiting
    <3>3. inflight' = {r}
      BY <1>1, <3>2
    <3>4. Staged' /\ Own(r)' /\ Advance(used_idx') = avail_idx'
      BY <1>1, <1>2, <1>6, <3>2, RequestKept DEF Staged, Own
    <3>5. QED
      BY <1>1, <3>2, <3>3, <3>4 DEF Waiting
  <2>5. QED
    BY <1>1, <2>2, <2>3, <2>4 DEF Inv, CleanInv
<1>13. QED
  BY <1>7, <1>8, <1>9, <1>10, <1>11, <1>12 DEF Inv

\* The request that is published is the one of the header and the buffer; one
\* too many stops the device with the used index left behind.
LEMMA PublishKeeps ==
    ASSUME Inv, Publish
    PROVE  Inv'
<1>1. /\ call.pc = "publish"
      /\ avail_idx' = Advance(avail_idx) /\ call' = [call EXCEPT !.pc = "poll"]
      /\ broken' = (broken \/ Unfetched = QSize \/ Cardinality(inflight) = QSize)
      /\ desc' = IF Type = "flush" THEN [desc EXCEPT !.dir = "none"]
                 ELSE [len |-> Batch, dir |-> Type]
      /\ UNCHANGED <<full, late, calls, mode, hdr, data, used_idx, disk, unstable>>
  BY DEF Publish, setup
<1>2. PICK r : r = Chain(hdr, desc')
  OBVIOUS
<1>3. /\ late \/ broken' => UNCHANGED <<seen_idx, inflight>>
      /\ ~late /\ ~broken' => inflight' = inflight \union {r} /\ seen_idx' = avail_idx'
  BY <1>2 DEF Publish
<1>4. /\ call \in BusyCall /\ Batch \in Nat /\ HostLba \in Nat
      /\ ~Refused /\ hdr.type = Type /\ (Type # "flush" => hdr.lba = HostLba)
      /\ call.i <= call.count
  BY <1>1, CallTypes DEF Inv, CallInv
<1>5. /\ call' \in BusyCall /\ call'.pc = "poll" /\ call'.clean = call.clean
      /\ call'.got = call.got /\ call'.i = call.i /\ call'.count = call.count
      /\ call'.kind = call.kind /\ call'.v = call.v
  BY <1>1, <1>4 DEF BusyCall
<1>6. SameRequest
  BY <1>1, <1>4 DEF SameRequest, BusyCall
<1>7. Type \in {"in", "out", "flush"} /\ (Type = "flush" <=> call.kind = "flush")
  BY <1>4 DEF Type, BusyCall
<1>8. Type # "flush" =>
        /\ Batch \in 0 .. Window
        /\ ~call.abs => call.sector + call.i + Batch <= Capacity
  BY <1>1, <1>4, <1>7, Accepted, DeviceAssumption DEF Inv
<1>9. /\ desc' \in [len : 0 .. Window, dir : {"in", "out", "none"}]
      /\ Type # "flush" => desc'.len = Batch /\ desc'.dir = Type
  BY <1>1, <1>7, <1>8 DEF Inv, TypeOK
<1>10. /\ avail_idx \in Index /\ seen_idx \in Index /\ used_idx \in Index
       /\ avail_idx' \in Index
  BY <1>1, DistValue DEF Inv, TypeOK
<1>11. QSize \in Nat \ {0} /\ IndexSpace \in Nat /\ IndexSpace > 2 * QSize + 1
  BY DeviceAssumption
<1>12. ASSUME ~broken
       PROVE  /\ Unfetched = Dist(avail_idx, seen_idx) /\ Fetched = Dist(seen_idx, used_idx)
              /\ Outstanding = Dist(avail_idx, used_idx)
              /\ Outstanding = Unfetched + Cardinality(inflight)
              /\ Fetched = Cardinality(inflight) /\ Cardinality(inflight) \in Nat
              /\ Cardinality(inflight) <= QSize /\ Unfetched <= QSize /\ Unfetched \in Nat
  BY <1>12, Counted DEF Inv, CountInv
<1>13. ASSUME ~broken'
       PROVE  /\ ~broken /\ Unfetched < QSize /\ Cardinality(inflight) < QSize
              /\ r \in Request /\ r.type = hdr.type /\ r.lba = hdr.lba
              /\ r.len = desc'.len /\ r.dir = desc'.dir
              /\ r.abs = (call.kind # "none" /\ call.abs)
              /\ IsFiniteSet(inflight \union {r})
              /\ Cardinality(inflight \union {r}) = Cardinality(inflight) + 1
  <2>1. ~broken /\ Unfetched # QSize /\ Cardinality(inflight) # QSize
    BY <1>1, <1>13
  <2>2. Unfetched < QSize /\ Cardinality(inflight) < QSize
    BY <1>11, <1>12, <2>1
  <2>3. hdr \in [type : {"in", "out", "flush"}, lba : Nat, status : {0, 1, 255}]
    BY DEF Inv, TypeOK
  <2>4. QED
    BY <1>2, <1>9, <2>1, <2>2, <2>3, RequestAdded DEF Inv
<1>14. TypeOK'
  <2>1. seen_idx' \in Index
    BY <1>3, <1>10 DEF Inv, TypeOK
  <2>2. inflight' \subseteq Request
    BY <1>3, <1>13 DEF Inv, TypeOK, Request
  <2>3. broken' \in BOOLEAN
    BY <1>1
  <2>4. QED
    BY <1>1, <1>5, <1>9, <1>10, <2>1, <2>2, <2>3
       DEF Inv, TypeOK, Request, Sector, Value, Index
<1>15. CallInv'
  <2>1. (IdleCall \union BusyCall)' = IdleCall \union BusyCall
    BY DEF IdleCall, BusyCall, Value
  <2>2. call.i = 0 => call.got = {}
    BY <1>1 DEF Inv, CallInv
  <2>3. Described'
    BY <1>6, <1>9, RequestKept DEF Described
  <2>4. QED
    BY <1>1, <1>4, <1>5, <1>6, <2>1, <2>2, <2>3, RequestKept DEF CallInv
<1>16. CountInv'
  <2>1. IsFiniteSet(inflight')
    BY <1>3, <1>13 DEF Inv, CountInv
  <2>2. ASSUME ~broken', late
        PROVE  Unfetched' = Unfetched + 1 /\ Fetched' = Fetched
    <3>1. Dist(Advance(avail_idx), seen_idx) = Dist(avail_idx, seen_idx) + 1
      BY <1>10, <1>11, <1>12, <1>13, <2>2, DistStep
    <3>2. Unfetched' = Dist(Advance(avail_idx), seen_idx) /\ Fetched' = Fetched
      BY <1>1, <1>3, <2>2 DEF Unfetched, Fetched, Dist
    <3>3. QED
      BY <1>12, <1>13, <2>2, <3>1, <3>2
  <2>3. ASSUME ~broken', ~late
        PROVE  Unfetched' = 0 /\ Fetched' = Fetched + 1
    <3>1. seen_idx = avail_idx
      BY <1>13, <2>3 DEF Inv, CountInv
    <3>0. Dist(avail_idx, used_idx) < IndexSpace - 1
      BY <1>11, <1>12, <1>13, <2>3
    <3>2. Dist(Advance(avail_idx), used_idx) = Dist(avail_idx, used_idx) + 1
      BY <1>10, <3>0, DistStep
    <3>3. Dist(avail_idx', avail_idx') = 0
      BY <1>10, DistStep
    <3>4. Unfetched' = Dist(avail_idx', avail_idx') /\ Fetched' = Dist(avail_idx', used_idx)
      BY <1>1, <1>3, <2>3 DEF Unfetched, Fetched, Dist
    <3>5. QED
      BY <1>1, <1>12, <1>13, <2>3, <3>1, <3>2, <3>3, <3>4
  <2>4. ASSUME ~broken'
        PROVE  /\ Unfetched' <= QSize /\ Cardinality(inflight') <= QSize
               /\ Fetched' = Cardinality(inflight')
               /\ ~late' => seen_idx' = avail_idx'
    <3>1. CASE late
      BY <1>1, <1>3, <1>11, <1>12, <1>13, <2>2, <2>4, <3>1
    <3>2. CASE ~late
      BY <1>1, <1>3, <1>11, <1>12, <1>13, <2>3, <2>4, <3>2
    <3>3. QED
      BY <3>1, <3>2
  <2>5. QED
    BY <2>1, <2>4 DEF CountInv
<1>17. BrokenInv'
  <2> SUFFICES ASSUME broken' PROVE hdr.status = 255 \/ used_idx # avail_idx'
    BY <1>1, <1>5 DEF BrokenInv
  <2>1. CASE broken
    BY <1>1, <2>1 DEF Inv, BrokenInv
  <2>2. CASE ~broken
    <3>0. Unfetched = QSize \/ Cardinality(inflight) = QSize
      BY <1>1, <2>2
    <3>1. Outstanding >= QSize /\ Outstanding <= 2 * QSize /\ Outstanding \in Nat
      BY <1>11, <1>12, <2>2, <3>0
    <3>2. Dist(avail_idx, used_idx) < IndexSpace - 1
      BY <1>11, <1>12, <2>2, <3>1
    <3>3. Dist(Advance(avail_idx), used_idx) = Dist(avail_idx, used_idx) + 1
      BY <1>10, <3>2, DistStep
    <3>4. Dist(avail_idx', used_idx) > 0
      BY <1>1, <1>11, <1>12, <2>2, <3>1, <3>3
    <3>5. QED
      BY <1>10, <3>4, DistStep
  <2>3. QED
    BY <2>1, <2>2
<1>18. DoneInv'
  BY <1>5 DEF DoneInv
<1>19. CleanInv'
  <2> SUFFICES ASSUME ~broken', call.clean
               PROVE  Did' /\ Waiting'
    BY <1>5 DEF CleanInv
  <2>1. /\ Did /\ inflight = {} /\ seen_idx = avail_idx /\ used_idx = avail_idx
        /\ hdr.status = 255 /\ Staged
    BY <1>1, <1>4, <1>13 DEF Inv, CleanInv, BusyCall
  <2>2. Did'
    BY <1>1, <1>5, <1>6, <2>1, RequestKept DEF SameRequest, Did
  <2>3. Staged'
    BY <1>1, <1>5, <1>6, <2>1, RequestKept DEF Staged
  <2>4. CASE late
    BY <1>1, <1>3, <2>1, <2>2, <2>3, <2>4 DEF Waiting
  <2>5. CASE ~late
    <3>1. inflight' = {r} /\ seen_idx' = avail_idx' /\ Advance(used_idx') = avail_idx'
      BY <1>1, <1>3, <2>1, <2>5
    <3>2. Own(r)'
      BY <1>1, <1>13 DEF Own
    <3>3. QED
      BY <1>1, <2>1, <2>2, <2>3, <3>1, <3>2 DEF Waiting
  <2>6. QED
    BY <2>2, <2>4, <2>5
<1>20. WindowAddresses'
  <2>1. CASE late \/ broken'
    BY <1>1, <1>3, <2>1, WindowKept DEF Inv
  <2>2. CASE ~late /\ ~broken'
    <3>1. RsWindow' = RsWindow
      BY <1>1 DEF RsWindow, LbaBase, Capacity
    <3>2. ASSUME ~r.abs, r.type # "flush"
          PROVE  r.lba .. r.lba + r.len - 1 \subseteq RsWindow
      <4>1. ~call.abs /\ Type # "flush"
        BY <1>4, <1>13, <2>2, <3>2 DEF BusyCall
      <4>2. r.lba = LbaBase + call.sector + call.i /\ r.len = Batch
        BY <1>4, <1>9, <1>13, <2>2, <4>1 DEF HostLba
      <4>3. /\ LbaBase \in Nat /\ Capacity \in Nat /\ call.sector \in Nat /\ call.i \in Nat
            /\ Batch \in Nat
        BY <1>4, CallTypes DEF Inv, BusyCall
      <4>4. call.sector + call.i + Batch <= Capacity
        BY <1>8, <4>1
      <4>5. QED
        BY <4>2, <4>3, <4>4 DEF RsWindow
    <3>3. QED
      BY <1>3, <2>2, <3>1, <3>2 DEF Inv, WindowAddresses
  <2>3. QED
    BY <2>1, <2>2
<1>21. QED
  BY <1>14, <1>15, <1>16, <1>17, <1>18, <1>19, <1>20 DEF Inv

\* What the device executes while a clean call waits is the call's own request.
LEMMA ExecuteKeeps ==
    ASSUME Inv, NEW r \in inflight, Execute(r)
    PROVE  Inv'
<1>1. /\ ~broken /\ inflight' = inflight \ {r} /\ used_idx' = Advance(used_idx)
      /\ UNCHANGED <<full, late, calls, mode, desc, avail_idx, seen_idx, broken, call>>
  BY DEF Execute, setup
<1>2. /\ full \in Nat \ {0} /\ r \in Request
      /\ data \in [0 .. Window - 1 -> Value] /\ disk \in [Sector -> Value]
  BY CallTypes DEF Inv, TypeOK, Request
<1>3. /\ r.type \in {"in", "out", "flush"} /\ r.lba \in Nat /\ r.len \in Nat
      /\ r.len <= Window /\ Window \in Nat \ {0}
  BY <1>2, DeviceAssumption DEF Request
<1>4. \E s \in {0, 1} : hdr' = [hdr EXCEPT !.status = s]
  BY DEF Execute
<1>5. /\ hdr' \in [type : {"in", "out", "flush"}, lba : Nat, status : {0, 1, 255}]
      /\ hdr'.type = hdr.type /\ hdr'.lba = hdr.lba
  BY <1>4 DEF Inv, TypeOK
<1>6. ASSUME Executable(r), r.type = "out"
      PROVE  \A s \in Sectors(r) : s \in Sector /\ s - r.lba \in 0 .. Window - 1
  BY <1>2, <1>3 DEF Sectors, Sector
<1>7. ASSUME Executable(r), r.type = "in"
      PROVE  \A i \in 0 .. Window - 1 : i < r.len => r.lba + i \in Sector
  BY <1>2, <1>3, <1>7 DEF Executable, Sector
<1>8. disk' \in [Sector -> Value] /\ data' \in [0 .. Window - 1 -> Value]
  <2>1. CASE UNCHANGED <<disk, data>>
    BY <1>2, <2>1
  <2>2. CASE /\ Executable(r)
             /\ disk' = IF r.type # "out" THEN disk
                        ELSE [s \in Sector |-> IF s \in Sectors(r)
                                               THEN data[s - r.lba] ELSE disk[s]]
             /\ data' = IF r.type # "in" THEN data
                        ELSE [i \in 0 .. Window - 1 |->
                                IF i < r.len THEN disk[r.lba + i] ELSE data[i]]
    <3>1. disk' \in [Sector -> Value]
      BY <1>2, <1>6, <2>2
    <3>2. data' \in [0 .. Window - 1 -> Value]
      BY <1>2, <1>7, <2>2
    <3>3. QED
      BY <3>1, <3>2
  <2>3. QED
    BY <2>1, <2>2 DEF Execute
<1>9. unstable' \subseteq Sector
  <2>1. unstable \subseteq Sector /\ Sectors(r) \subseteq Sector
    BY DEF Inv, TypeOK, Sectors
  <2>2. unstable' \in {unstable, {}, unstable \union Sectors(r)}
    BY DEF Execute
  <2>3. QED
    BY <2>1, <2>2
<1>10. /\ avail_idx \in Index /\ seen_idx \in Index /\ used_idx \in Index
       /\ used_idx' \in Index
  BY <1>1, DistValue DEF Inv, TypeOK
<1>11. TypeOK'
  BY <1>1, <1>5, <1>8, <1>9, <1>10 DEF Inv, TypeOK, Sector, Value, Index
<1>12. SameRequest
  BY <1>1 DEF SameRequest
<1>13. CallInv'
  BY <1>1, <1>5, <1>12, RequestKept DEF Inv, CallInv, IdleCall, BusyCall, Value, Described
<1>14. /\ IsFiniteSet(inflight) /\ IsFiniteSet(inflight')
       /\ Cardinality(inflight') = Cardinality(inflight) - 1
       /\ Cardinality(inflight') \in Nat
  <2>1. IsFiniteSet(inflight)
    BY DEF Inv, CountInv
  <2>2. IsFiniteSet(inflight \ {r}) /\ Cardinality(inflight \ {r}) = Cardinality(inflight) - 1
    BY <2>1, FS_RemoveElement
  <2>3. QED
    BY <1>1, <2>1, <2>2, FS_CardinalityType
<1>15. CountInv'
  <2>1. /\ Fetched = Dist(seen_idx, used_idx) /\ Fetched = Cardinality(inflight)
        /\ Cardinality(inflight) \in Nat /\ Cardinality(inflight) <= QSize
        /\ Unfetched <= QSize
    BY <1>1, Counted DEF Inv, CountInv
  <2>2. Dist(seen_idx, used_idx) > 0
    BY <1>14, <2>1
  <2>3. Dist(seen_idx, Advance(used_idx)) = Dist(seen_idx, used_idx) - 1
    BY <1>10, <2>2, DistStep
  <2>4. Fetched' = Dist(seen_idx, Advance(used_idx)) /\ Unfetched' = Unfetched
    BY <1>1 DEF Fetched, Unfetched, Dist
  <2>5. ~late => seen_idx = avail_idx
    BY <1>1 DEF Inv, CountInv
  <2>6. Cardinality(inflight') <= QSize
    BY <1>14, <2>1, DeviceAssumption
  <2>7. Fetched' = Cardinality(inflight')
    BY <1>14, <2>1, <2>3, <2>4
  <2>8. QED
    BY <1>1, <1>14, <2>1, <2>4, <2>5, <2>6, <2>7 DEF CountInv
<1>16. BrokenInv'
  BY <1>1 DEF BrokenInv
<1>17. DoneInv'
  BY <1>1 DEF Inv, DoneInv, Drained
<1>18. WindowAddresses'
  BY <1>1, WindowKept DEF Inv
<1>19. CleanInv'
  <2> SUFFICES ASSUME call.pc # "idle", call.clean
               PROVE  CleanInv'
    BY <1>1 DEF CleanInv
  <2>1. call \in BusyCall /\ call.i \in Nat /\ Batch \in Nat /\ HostLba \in Nat
        /\ Start0 \in Nat /\ HostLba = Start0 + call.sector + call.i /\ call.sector \in Nat
    BY CallTypes DEF Inv, BusyCall
  <2>2. call.pc # "publish" /\ ~(call.pc = "done" /\ call.code = 1)
    BY <1>1 DEF Inv, CleanInv, DoneInv, Drained
  <2>3. ASSUME call.pc = "stage" PROVE Did'
    <3>1. call.i = 0
      BY <1>1, <2>1, <2>3 DEF Inv, DoneInv, Drained
    <3>2. call.got = {}
      BY <2>3, <3>1 DEF Inv, CallInv
    <3>3. QED
      BY <1>1, <3>1, <3>2 DEF Did
  <2>4. ASSUME call.pc = "poll" PROVE Did' /\ Replied'
    <3>1. Did /\ Waiting
      BY <1>1, <2>4 DEF Inv, CleanInv, Replied
    <3>2. /\ Staged /\ seen_idx = avail_idx /\ Advance(used_idx) = avail_idx
          /\ inflight = {r} /\ Own(r)
      BY <3>1 DEF Waiting
    <3>3. hdr.type = Type /\ (Type # "flush" => hdr.lba = HostLba) /\ Described
      BY <2>4 DEF Inv, CallInv
    <3>4. /\ r.type = Type
          /\ Type # "flush" => r.lba = HostLba /\ r.len = Batch /\ r.dir = Type
      BY <3>2, <3>3 DEF Own, Described
    <3>5. inflight' = {} /\ used_idx' = avail_idx' /\ seen_idx' = avail_idx'
      BY <1>1, <3>2
    <3>6. CASE disk' = disk /\ hdr' = [hdr EXCEPT !.status = 1]
      <4>1. Did'
        BY <1>1, <1>12, <3>1, <3>6, RequestKept DEF Did
      <4>2. hdr'.status = 1
        BY <3>6 DEF Inv, TypeOK
      <4>3. QED
        BY <3>5, <4>1, <4>2 DEF Replied
    <3>7. CASE /\ Executable(r)
               /\ disk' = IF r.type # "out" THEN disk
                          ELSE [s \in Sector |-> IF s \in Sectors(r)
                                                 THEN data[s - r.lba] ELSE disk[s]]
               /\ data' = IF r.type # "in" THEN data
                          ELSE [i \in 0 .. Window - 1 |->
                                  IF i < r.len THEN disk[r.lba + i] ELSE data[i]]
               /\ unstable' = CASE r.type = "out" -> unstable \union Sectors(r)
                                [] r.type = "flush" -> {}
                                [] OTHER -> unstable
      <4>1. CASE call.kind = "write"
        <5>1. /\ r.type = "out" /\ r.lba = HostLba /\ r.len = Batch
              /\ r.lba + r.len <= full
          BY <3>4, <3>7, <4>1 DEF Type, Executable
        <5>2. ASSUME NEW j \in 0 .. Batch - 1 PROVE disk'[HostLba + j] = call.v
          <6>1. HostLba + j \in Sectors(r) /\ HostLba + j \in Sector
            BY <1>2, <2>1, <5>1, SMTT(60) DEF Sectors, Sector
          <6>2. (HostLba + j) - r.lba = j
            BY <2>1, <5>1
          <6>3. disk'[HostLba + j] = data[j]
            BY <3>7, <5>1, <6>1, <6>2
          <6>4. QED
            BY <3>2, <4>1, <6>3 DEF Staged
        <5>3. ASSUME NEW j \in 0 .. call.i - 1
              PROVE  disk'[Start0 + call.sector + j] = call.v
          <6>1. Start0 + call.sector + j \in Sector /\ Start0 + call.sector + j < r.lba
            BY <1>2, <1>3, <2>1, <5>1, SMTT(60) DEF Sector
          <6>2. Start0 + call.sector + j \notin Sectors(r)
            BY <1>3, <2>1, <6>1 DEF Sectors, Sector
          <6>3. disk'[Start0 + call.sector + j] = disk[Start0 + call.sector + j]
            BY <3>7, <5>1, <6>1, <6>2
          <6>4. QED
            BY <3>1, <4>1, <6>3 DEF Did
        <5>4. QED
          BY <1>1, <1>12, <3>5, <4>1, <5>2, <5>3, RequestKept DEF Did, Replied, Effect
      <4>2. CASE call.kind = "read"
        <5>1. /\ r.type = "in" /\ r.lba = HostLba /\ r.len = Batch /\ disk' = disk
          BY <3>4, <3>7, <4>2 DEF Type
        <5>2. ASSUME NEW j \in 0 .. Batch - 1 PROVE data'[j] = disk'[HostLba + j]
          <6>1. j \in 0 .. Window - 1 /\ j < r.len
            BY <1>3, <2>1, <5>1
          <6>2. QED
            BY <3>7, <5>1, <6>1
        <5>3. Did'
          BY <1>1, <3>1, <4>2, <5>1 DEF Did
        <5>4. QED
          BY <1>1, <1>12, <3>5, <4>2, <5>2, <5>3, RequestKept DEF Replied, Effect
      <4>3. CASE call.kind = "flush"
        <5>1. unstable' = {}
          BY <3>4, <3>7, <4>3 DEF Type
        <5>2. QED
          BY <1>1, <3>5, <4>3, <5>1 DEF Did, Replied, Effect
      <4>4. QED
        BY <2>1, <4>1, <4>2, <4>3 DEF BusyCall
    <3>8. QED
      BY <3>6, <3>7 DEF Execute
  <2>5. QED
    BY <1>1, <2>2, <2>3, <2>4 DEF CleanInv, Inv, TypeOK
<1>20. QED
  BY <1>11, <1>13, <1>15, <1>16, <1>17, <1>18, <1>19 DEF Inv

-----------------------------------------------------------------------------
(* The theorems.                                                            *)

LEMMA StutterKeeps ==
    ASSUME Inv, UNCHANGED vars
    PROVE  Inv'
<1>1. UNCHANGED <<full, late, hdr, data, desc, avail_idx, seen_idx, inflight, broken,
                  disk, unstable, used_idx, call, calls, mode>>
  BY DEF vars
<1>2. TypeOK'
  BY <1>1 DEF Inv, TypeOK, Sector, Value, Index
<1>3. SameRequest
  BY <1>1 DEF SameRequest
<1>4. CallInv'
  BY <1>1, <1>3, RequestKept
     DEF Inv, CallInv, IdleCall, BusyCall, Value, Described
<1>5. CountInv' /\ WindowAddresses'
  BY <1>1, DeviceKept DEF setup, ring, device
<1>6. BrokenInv' /\ DoneInv'
  BY <1>1 DEF Inv, BrokenInv, DoneInv, Drained
<1>7. CleanInv'
  BY <1>1, <1>3, RequestKept
     DEF Inv, CleanInv, Did, Staged, Waiting, Replied, Effect, Own, Advance
<1>8. QED
  BY <1>2, <1>4, <1>5, <1>6, <1>7 DEF Inv

\* The requests of the driver are counted by the ring indices through every
\* wrap, and a call that had the device for itself gets what it asked for.
THEOREM DriverInvariant == Spec => []Inv
<1>1. Init => Inv
  BY InitInv
<1>2. Inv /\ [Next]_vars => Inv'
  <2> SUFFICES ASSUME Inv, [Next]_vars PROVE Inv'
    OBVIOUS
  <2>1. CASE Driver
    BY <2>1, RefuseKeeps, StageKeeps, PublishKeeps, CompletedKeeps, TimeoutKeeps,
       FinishKeeps DEF Driver
  <2>2. CASE \E r \in inflight : Execute(r)
    BY <2>2, ExecuteKeeps
  <2>3. QED
    BY <2>1, <2>2, CallKeeps, RestartKeeps, StartKeeps, StartFailsKeeps, FetchKeeps,
       StutterKeeps DEF Next
<1>3. QED
  BY <1>1, <1>2, PTL DEF Spec

\* A call of virtio_blk_rw_sectors that returns success left nothing under
\* way, and did what it says if its requests had the device for themselves.
THEOREM SuccessIsDone == Spec => []SuccessMeansDone
<1>1. Inv => SuccessMeansDone
  <2> SUFFICES ASSUME Inv PROVE SuccessMeansDone
    OBVIOUS
  <2>1. DrainedOnSuccess
    BY DEF Inv, DoneInv, Drained, DrainedOnSuccess
  <2>2. CleanCallDone
    <3> SUFFICES ASSUME call.pc = "done", call.code = 1, call.clean
                 PROVE  /\ call.kind = "write" =>
                             \A j \in 0 .. call.count - 1 :
                                disk[Start0 + call.sector + j] = call.v
                        /\ call.kind = "read" => \A g \in call.got : disk[g[1]] = g[2]
                        /\ call.kind = "flush" => unstable = {}
      BY DEF CleanCallDone, Start0
    <3>1. Did /\ call.i >= call.count /\ (call.kind = "flush" => unstable = {})
      BY DEF Inv, CleanInv, DoneInv, Drained
    <3>2. call.i \in Nat /\ call.count \in Nat
      BY CallTypes DEF Inv, BusyCall
    <3>3. \A j \in 0 .. call.count - 1 : j \in 0 .. call.i - 1
      BY <3>1, <3>2
    <3>4. QED
      BY <3>1, <3>3 DEF Did
  <2>3. QED
    BY <2>1, <2>2 DEF Inv, SuccessMeansDone
<1>2. QED
  BY <1>1, DriverInvariant, PTL

\* The requests of calls through the RedSea window, timed out or not, address
\* the window only, on a device that fetches a request when it is notified.
THEOREM RequestsInWindow == Spec => []WindowAddresses
<1>1. Inv => WindowAddresses
  BY DEF Inv
<1>2. QED
  BY <1>1, DriverInvariant, PTL
=============================================================================
