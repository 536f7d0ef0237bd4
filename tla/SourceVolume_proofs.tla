-------------------------- MODULE SourceVolume_proofs --------------------------
(***************************************************************************)
(* Proofs about SourceStore for every number of sectors, names, files,     *)
(* generations and I/O errors.                                             *)
(*                                                                         *)
(* The first part follows an append and a compaction step by step: types,  *)
(* write order, generations.  What a scan of the log yields is left opaque *)
(* there, so nothing in it depends on how the log is read.                 *)
(*                                                                         *)
(* The second part is what the partition holds, in every state and after   *)
(* every loss of power, for banks, logs and files of any size.  Its        *)
(* invariant follows the log of the selected bank through appends and      *)
(* compactions; with it the properties of the stored files and the         *)
(* refinement of AtomicVolume are proved.                                  *)
(***************************************************************************)
EXTENDS SourceStore, Induction

AppendOp ==
    [pc : AppendPC, kind : Kind, name : Names,
     x : Files \union {Deleted}, tail : Nat, i : Nat, intact : BOOLEAN]
CompactOp ==
    [pc : CompactPC, kind : Kind, target : Bank, tail : Nat,
     pos : Nat, need : Nat, next : Nat, i : Nat]
IdleOp == [pc : {"idle"}, kind : Kind, code : Int]

\* What a read returns is among what the medium may hold; without FLUSH it is
\* what the medium holds.
MediaInv ==
    \A b \in Bank : \A s \in Sector(b) :
        /\ now[b][s] \in media[b][s]
        /\ ~flush_supported => media[b][s] = {now[b][s]}

Written(k) ==
    \A j \in 0 .. k - 1 : now[base][op.tail + 1 + j] = Data(op.x, j)

\* How far an append has come.
AppendInv ==
    op.pc \in AppendPC =>
        /\ op.tail >= 1
        /\ op.tail + 1 + ContentBlocks(op.x) <= Sectors[base]
        /\ op.pc = "data" =>
             op.x \in Files /\ op.i < ContentBlocks(op.x) /\ Written(op.i)
        /\ op.pc = "recv" =>
             /\ op.x \in Files /\ op.i <= FullBlocks[op.x]
             /\ op.intact => Written(op.i)
        /\ op.pc \in {"term", "order", "header"} => Written(ContentBlocks(op.x))
        /\ op.pc \in {"order", "header"} =>
             LET end == op.tail + 1 + ContentBlocks(op.x)
             IN  end < Sectors[base] => now[base][end] = Zero

\* How far a compaction has come.  Up to the write of its superblock the bank
\* that it copies from is the selected one.
CompactInv ==
    op.pc \in CompactPC =>
        /\ flush_supported
        /\ op.pc \notin {"gccommit", "reselect"} =>
             /\ base = Selected(now) /\ gen = now[base][0].gen
             /\ now[base][0].t = "super"
             /\ op.target = Other(base)
             /\ op.tail <= Sectors[base] /\ op.pos >= 1 /\ op.next >= 1
        /\ op.pc = "copysector" =>
             /\ op.pos < op.tail
             /\ op.i <= RecordBlocks(CurrentRecord)
             /\ op.pos + RecordBlocks(CurrentRecord) < Sectors[base]
        /\ op.pc = "super" => \A b \in Bank : media[b][0] = {now[b][0]}

IInv ==
    /\ StoreTypeOK
    /\ MediaInv
    /\ AppendInv
    /\ HeaderAfterData
    /\ CompactInv
    /\ GenerationsDiffer

\* An operation in progress is the record of its kind of program counter.
LEMMA OpCases ==
    ASSUME op \in Operation
    PROVE  /\ op.pc = "idle" => op \in IdleOp
           /\ op.pc \in AppendPC => op \in AppendOp
           /\ op.pc \in CompactPC => op \in CompactOp
  BY DEF Operation, AppendOp, CompactOp, IdleOp, AppendPC, CompactPC

\* Sizes of contents and of records are natural numbers.
LEMMA BlocksNat ==
    /\ Deleted \notin Files
    /\ \A x \in Files \union {Deleted} : ContentBlocks(x) \in Nat
    /\ \A x \in Files : ContentBlocks(x) = Blocks[x] /\ Blocks[x] \in Nat \ {0}
    /\ \A v \in SectorValue : RecordBlocks(v) \in Nat
  BY ConstantsAssumption, ContentAssumption
     DEF ContentBlocks, RecordBlocks, SectorValue, Zero, Corrupt

\* The effect of a write that reaches the device, sector by sector.
LandPost(b, s, v) ==
    /\ DOMAIN now' = Bank /\ DOMAIN media' = Bank
    /\ \A c \in Bank :
         /\ now'[c] \in [Sector(c) -> SectorValue]
         /\ media'[c] \in [Sector(c) -> SUBSET SectorValue]
    /\ \A c \in Bank : \A r \in Sector(c) :
         /\ now'[c][r] = IF c = b /\ r = s THEN v ELSE now[c][r]
         /\ c # b \/ r # s => media'[c][r] = media[c][r]
         /\ c = b /\ r = s => media'[c][r] = IF flush_supported
                               THEN media[c][r] \union {v} ELSE {v}
         /\ now'[c][r] \in media'[c][r]
         /\ ~flush_supported => media'[c][r] = {now'[c][r]}

\* A write that lands changes one sector and nothing else.
LEMMA LandEffect ==
    ASSUME StoreTypeOK, MediaInv, NEW b \in Bank, NEW s \in Nat,
           NEW v \in SectorValue, Land(b, s, v)
    PROVE  LandPost(b, s, v)
<1>1. /\ now' = [now EXCEPT ![b][s] = v]
      /\ DOMAIN now' = Bank
      /\ \A c \in Bank : now'[c] \in [Sector(c) -> SectorValue]
      /\ \A c \in Bank : \A r \in Sector(c) :
           now'[c][r] = IF c = b /\ r = s THEN v ELSE now[c][r]
  BY DEF StoreTypeOK, Land
<1>2. CASE flush_supported
  <2>1. media' = [media EXCEPT ![b][s] = @ \union {v}]
    BY <1>2 DEF Land
  <2>2. QED
    BY <1>1, <1>2, <2>1 DEF StoreTypeOK, MediaInv, LandPost
<1>3. CASE ~flush_supported
  <2>1. media' = [media EXCEPT ![b][s] = {v}]
    BY <1>3 DEF Land
  <2>2. QED
    BY <1>1, <1>3, <2>1 DEF StoreTypeOK, MediaInv, LandPost
<1>4. QED
  BY <1>2, <1>3

\* After a flush the medium holds exactly what a read returns.
LEMMA FlushEffect ==
    ASSUME StoreTypeOK,
           media' = [b \in Bank |-> [s \in Sector(b) |-> {now[b][s]}]],
           now' = now
    PROVE  /\ DOMAIN media' = Bank
           /\ \A c \in Bank : media'[c] \in [Sector(c) -> SUBSET SectorValue]
           /\ \A c \in Bank : \A r \in Sector(c) : media'[c][r] = {now[c][r]}
  BY DEF StoreTypeOK

\* Which bank is selected depends on the superblocks only.
LEMMA SelectedCongruence ==
    ASSUME NEW f, NEW g, \A b \in Bank : f[b][0] = g[b][0]
    PROVE  ValidBanks(f) = ValidBanks(g) /\ Selected(f) = Selected(g)
  BY DEF ValidBanks, Selected, SelectBank, Bank

\* When some bank is valid, the selected one is.
LEMMA SelectedIsValid ==
    ASSUME NEW S \in SUBSET ValidBanks(now), S # {}
    PROVE  SelectBank(now, S) \in S
  BY DEF SelectBank, ValidBanks, Bank

SectorZero == \A b \in Bank : 0 \in Sector(b)

\* Each bank has a superblock sector.
LEMMA SectorZeroExists == SectorZero
  BY ConstantsAssumption DEF SectorZero, Sector

\* A valid superblock carries a generation up to MaxGen.
LEMMA SuperblockType ==
    ASSUME NEW v \in SectorValue, v.t = "super"
    PROVE  v.gen \in 0 .. MaxGen
  BY DEF SectorValue, Zero, Corrupt

\* zss_find leaves a bank selected; without read errors on superblocks it is
\* the one that a restart would select.
LEMMA FindEffect ==
    ASSUME StoreTypeOK, NEW S \in SUBSET Bank, NEW t \in FindTail, Find(S, t)
    PROVE  /\ base' \in Bank /\ gen' \in 0 .. MaxGen
           /\ t \in Nat /\ t <= Sectors[base']
           /\ ~SuperReadFaults /\ S # {} =>
                /\ base' = Selected(now)
                /\ gen' = now[base'][0].gen
                /\ now[base'][0].t = "super"
<1>1. t \in Nat
  BY ConstantsAssumption DEF FindTail, Bank
<1>2. t <= Sectors[base']
  BY DEF Find
<1>3. CASE S = {}
  BY <1>1, <1>2, <1>3 DEF Find, Probe, StoreTypeOK
<1>4. CASE S # {}
  <2>1. S \subseteq ValidBanks(now)
    BY DEF Find, Probe
  <2>2. base' = SelectBank(now, S) /\ gen' = now[base'][0].gen
    BY <1>4 DEF Find, Probe, Selected
  <2>3. base' \in S
    BY <1>4, <2>1, <2>2, SelectedIsValid
  <2>4. base' \in Bank /\ now[base'][0].t = "super"
    BY <2>1, <2>3 DEF ValidBanks
  <2>5. gen' \in 0 .. MaxGen
    BY <2>2, <2>4, SuperblockType, SectorZeroExists DEF SectorZero, StoreTypeOK
  <2>6. ~SuperReadFaults => S = ValidBanks(now)
    BY DEF Find, Probe
  <2>7. QED
    BY <1>1, <1>2, <2>2, <2>4, <2>5, <2>6 DEF Selected
<1>5. QED
  BY <1>3, <1>4

-----------------------------------------------------------------------------
(* The steps, grouped by what they do to the disk.                          *)

USE DEF AppendPC, CompactPC

\* A write either goes on at next or ends the operation; the disk has
\* changed by at most that write.
LEMMA WriteCases ==
    ASSUME NEW b, NEW s, NEW v, NEW next, Write(b, s, v, next)
    PROVE  \/ Land(b, s, v) /\ op' = next
           \/ Land(b, s, v) /\ op' = Done(-1)
           \/ now' = now /\ media' = media /\ op' = Done(-1)
  BY DEF Write, disk

\* An operation that is over is an idle operation.
LEMMA DoneIdle ==
    ASSUME op \in Operation, NEW code \in Int
    PROVE  Done(code) \in Operation /\ Done(code).pc = "idle"
  BY OpCases DEF Done, Operation, IdleOp, AppendOp, CompactOp

\* A sector of a log is written by an append.
LEMMA AppendWriteStep ==
    ASSUME IInv, NEW s \in Nat \ {0}, NEW v \in SectorValue, NEW next \in AppendOp,
           Write(base, s, v, next), next.pc # "header",
           UNCHANGED <<flush_supported, base, gen>>
    PROVE  /\ StoreTypeOK' /\ MediaInv' /\ CompactInv' /\ GenerationsDiffer'
           /\ HeaderAfterData'
           /\ op' # next => AppendInv'
<1>1. Done(-1) \in Operation /\ Done(-1).pc = "idle"
  BY DoneIdle DEF IInv, StoreTypeOK
<1>2. next \in Operation /\ next.pc \in AppendPC
  BY DEF Operation, AppendOp
<1>3. op' \in Operation /\ op'.pc \notin CompactPC /\ op'.pc # "header"
  BY <1>1, <1>2, WriteCases
<1>4. op' # next => AppendInv'
  BY <1>1, WriteCases DEF AppendInv
<1>5. CompactInv' /\ HeaderAfterData'
  BY <1>3 DEF CompactInv, HeaderAfterData
<1>6. CASE Land(base, s, v)
  <2>0. LandPost(base, s, v)
    <3>1. StoreTypeOK /\ MediaInv /\ base \in Bank
      BY DEF IInv, StoreTypeOK
    <3>2. QED BY <1>6, <3>1, LandEffect
  <2>1. StoreTypeOK'
    BY <1>3, <2>0 DEF IInv, StoreTypeOK, LandPost
  <2>2. MediaInv'
    BY <2>0 DEF MediaInv, LandPost
  <2>3. \A c \in Bank : media'[c][0] = media[c][0]
    BY <2>0, SectorZeroExists DEF LandPost, SectorZero
  <2>4. GenerationsDiffer'
    BY <2>3 DEF IInv, GenerationsDiffer, Bank
  <2>5. QED
    BY <1>4, <1>5, <2>1, <2>2, <2>4
<1>7. CASE now' = now /\ media' = media
  BY <1>3, <1>4, <1>5, <1>7 DEF IInv, StoreTypeOK, MediaInv, GenerationsDiffer
<1>8. QED
  BY <1>6, <1>7, WriteCases

\* The disk and the selection are left alone.
LEMMA QuietStep ==
    ASSUME IInv, now' = now, media' = media, op' \in Operation,
           base' \in Bank, gen' \in 0 .. MaxGen, flush_supported' = flush_supported
    PROVE  StoreTypeOK' /\ MediaInv' /\ GenerationsDiffer'
  BY DEF IInv, StoreTypeOK, MediaInv, GenerationsDiffer

\* A step that ends the operation and leaves the disk alone.
LEMMA IdleStep ==
    ASSUME op'.pc = "idle"
    PROVE  AppendInv' /\ CompactInv' /\ HeaderAfterData'
  BY DEF AppendInv, CompactInv, HeaderAfterData

\* A data sector of the record is written after the ones before it.
LEMMA DataLanded ==
    ASSUME IInv, op \in AppendOp, op.x \in Files, op.i < ContentBlocks(op.x),
           op.tail + 1 + ContentBlocks(op.x) <= Sectors[base], Written(op.i),
           Land(base, op.tail + 1 + op.i, Data(op.x, op.i))
    PROVE  \A j \in 0 .. op.i : now'[base][op.tail + 1 + j] = Data(op.x, j)
<1> DEFINE s == op.tail + 1 + op.i
           v == Data(op.x, op.i)
<1>1. s \in Nat /\ v \in SectorValue
  BY DEF AppendOp, Data, SectorValue
<1>2. StoreTypeOK /\ MediaInv /\ base \in Bank
  BY DEF IInv, StoreTypeOK
<1>3. LandPost(base, s, v)
  <2> HIDE DEF s, v
  <2> SUFFICES Land(base, s, v)
    BY <1>1, <1>2, LandEffect
  <2> QED BY DEF s, v
<1>4. ASSUME NEW j \in 0 .. op.i
      PROVE  now'[base][op.tail + 1 + j] = Data(op.x, j)
  <2>1. op.tail + 1 + j \in Sector(base)
    BY <1>2, BlocksNat, ConstantsAssumption DEF AppendOp, Sector
  <2>2. CASE j = op.i
    BY <1>2, <1>3, <2>1, <2>2 DEF LandPost
  <2>3. CASE j # op.i
    <3>1. j \in 0 .. op.i - 1 /\ op.tail + 1 + j # s
      BY <2>3 DEF AppendOp
    <3>2. now[base][op.tail + 1 + j] = Data(op.x, j)
      BY <3>1 DEF Written
    <3> HIDE DEF s, v
    <3>3. QED BY <1>2, <1>3, <2>1, <3>1, <3>2 DEF LandPost
  <2>4. QED BY <2>2, <2>3
<1>5. QED BY <1>4

\* What a state of AppendInv says, unfolded.
LEMMA AppendFacts ==
    ASSUME IInv, op.pc \in AppendPC
    PROVE  /\ op \in AppendOp /\ base \in Bank
           /\ op.tail >= 1 /\ op.tail + 1 + ContentBlocks(op.x) <= Sectors[base]
           /\ ContentBlocks(op.x) \in Nat /\ Sectors[base] \in Nat
  BY OpCases, BlocksNat, ConstantsAssumption
     DEF IInv, StoreTypeOK, AppendInv, AppendOp

\* zss_put writes data sector i after the i before it.
LEMMA PutBlockStep ==
    ASSUME IInv, PutBlock
    PROVE  IInv'
<1> DEFINE j == op.i + 1
           q == IF op.i + 1 = ContentBlocks(op.x) THEN "term" ELSE "data"
           next == [op EXCEPT !.i = j, !.pc = q]
           s == op.tail + 1 + op.i
           v == Data(op.x, op.i)
<1>1. op.pc = "data" /\ op \in AppendOp
  BY AppendFacts DEF PutBlock
<1>2. /\ op.x \in Files /\ op.tail >= 1 /\ op.i < ContentBlocks(op.x)
      /\ Written(op.i) /\ base \in Bank
      /\ op.tail + 1 + ContentBlocks(op.x) <= Sectors[base]
      /\ ContentBlocks(op.x) \in Nat
  BY <1>1, AppendFacts DEF IInv, AppendInv
<1>3. s \in Nat \ {0} /\ v \in SectorValue
  BY <1>1, <1>2 DEF AppendOp, Data, SectorValue
<1>4. j \in Nat /\ q \in {"term", "data"} /\ q \in AppendPC
  BY <1>1 DEF AppendOp
<1>5. /\ next \in AppendOp /\ next.pc = q /\ next.i = j
      /\ next.x = op.x /\ next.tail = op.tail
  <2>1. next = [op EXCEPT !.i = j, !.pc = q]
    OBVIOUS
  <2> HIDE DEF j, q, next
  <2>2. op \in AppendOp
    BY <1>1
  <2>3. j \in Nat /\ q \in AppendPC
    BY <1>4
  <2>4. QED BY <2>1, <2>2, <2>3 DEF AppendOp
<1>6. Write(base, s, v, next) /\ UNCHANGED <<flush_supported, base, gen>>
  BY DEF PutBlock, ram
<1>7. /\ StoreTypeOK' /\ MediaInv' /\ CompactInv' /\ GenerationsDiffer'
      /\ HeaderAfterData'
      /\ op' # next => AppendInv'
  <2> HIDE DEF next, s, v
  <2> QED BY <1>3, <1>4, <1>5, <1>6, AppendWriteStep
<1>8. CASE op' = next
  <2>1. Land(base, s, v)
    <3>1. Done(-1).pc = "idle"
      BY DoneIdle DEF IInv, StoreTypeOK
    <3> HIDE DEF next, s, v
    <3> QED BY <1>4, <1>5, <1>6, <1>8, <3>1, WriteCases
  <2>2. Written(op.i)'
    <3>1. \A k \in 0 .. op.i : now'[base][op.tail + 1 + k] = Data(op.x, k)
      BY <1>1, <1>2, <2>1, DataLanded
    <3>2. op'.i = op.i + 1 /\ op'.x = op.x /\ op'.tail = op.tail /\ base' = base
      BY <1>5, <1>6, <1>8
    <3>3. QED BY <1>1, <3>1, <3>2 DEF Written, AppendOp
  <2>3. AppendInv'
    <3>1. /\ op'.pc = q /\ op'.i = op.i + 1 /\ op'.x = op.x
          /\ op'.tail = op.tail /\ base' = base
      BY <1>5, <1>6, <1>8
    <3>2. QED BY <1>1, <1>2, <2>2, <3>1 DEF AppendInv, Written, AppendOp
  <2>4. QED BY <1>7, <2>3 DEF IInv
<1>9. QED BY <1>7, <1>8 DEF IInv

\* zss_stream_write does the same; a damaged sector clears intact.
LEMMA StreamWriteStep ==
    ASSUME IInv, StreamWrite
    PROVE  IInv'
<1>1. op.pc = "recv" /\ op \in AppendOp
  BY AppendFacts DEF StreamWrite
<1>2. /\ op.x \in Files /\ op.tail >= 1 /\ op.i < FullBlocks[op.x]
      /\ FullBlocks[op.x] \in Nat /\ FullBlocks[op.x] <= ContentBlocks(op.x)
      /\ op.intact => Written(op.i)
      /\ op.tail + 1 + ContentBlocks(op.x) <= Sectors[base]
      /\ ContentBlocks(op.x) \in Nat /\ base \in Bank
  BY <1>1, AppendFacts, BlocksNat, ConstantsAssumption DEF IInv, AppendInv, StreamWrite
<1>3. PICK good \in BOOLEAN :
        Write(base, op.tail + 1 + op.i, IF good THEN Data(op.x, op.i) ELSE Corrupt,
              [op EXCEPT !.i = @ + 1, !.intact = @ /\ good])
  BY DEF StreamWrite
<1> DEFINE j == op.i + 1
           g == op.intact /\ good
           next == [op EXCEPT !.i = j, !.intact = g]
           s == op.tail + 1 + op.i
           v == IF good THEN Data(op.x, op.i) ELSE Corrupt
<1>4. s \in Nat \ {0} /\ v \in SectorValue
  BY <1>1, <1>2 DEF AppendOp, Data, SectorValue
<1>5. j \in Nat /\ g \in BOOLEAN
  BY <1>1 DEF AppendOp
<1>6. /\ next \in AppendOp /\ next.pc = "recv" /\ next.i = j
      /\ next.x = op.x /\ next.tail = op.tail /\ next.intact = g
  <2> HIDE DEF j, g
  <2> QED BY <1>1, <1>5 DEF AppendOp
<1>7. Write(base, s, v, next) /\ UNCHANGED <<flush_supported, base, gen>>
  BY <1>3 DEF StreamWrite, ram
<1>8. /\ StoreTypeOK' /\ MediaInv' /\ CompactInv' /\ GenerationsDiffer'
      /\ HeaderAfterData'
      /\ op' # next => AppendInv'
  <2> HIDE DEF next, s, v
  <2> QED BY <1>4, <1>6, <1>7, AppendWriteStep
<1>9. CASE op' = next
  <2>1. Land(base, s, v)
    <3>1. Done(-1).pc = "idle"
      BY DoneIdle DEF IInv, StoreTypeOK
    <3> HIDE DEF next, s, v
    <3> QED BY <1>6, <1>7, <1>9, <3>1, WriteCases
  <2>2. /\ op'.pc = "recv" /\ op'.i = op.i + 1 /\ op'.x = op.x
        /\ op'.tail = op.tail /\ base' = base /\ (op'.intact <=> g)
    BY <1>6, <1>7, <1>9
  <2>3. op'.intact => Written(op.i)'
    <3> SUFFICES ASSUME op.intact, good
                 PROVE  Written(op.i)'
      BY <2>2
    <3>1. \A k \in 0 .. op.i : now'[base][op.tail + 1 + k] = Data(op.x, k)
      BY <1>1, <1>2, <2>1, DataLanded DEF AppendOp
    <3>2. QED BY <1>1, <2>2, <3>1 DEF Written, AppendOp
  <2>4. AppendInv'
    BY <1>1, <1>2, <2>2, <2>3 DEF AppendInv, AppendOp
  <2>5. QED BY <1>8, <2>4 DEF IInv
<1>10. QED BY <1>8, <1>9 DEF IInv

\* The operation ends and the disk is left alone.
LEMMA EndStep ==
    ASSUME IInv, NEW code \in Int, op' = Done(code), now' = now, media' = media,
           base' \in Bank, gen' \in 0 .. MaxGen, flush_supported' = flush_supported
    PROVE  IInv'
<1>1. op' \in Operation /\ op'.pc = "idle"
  BY DoneIdle DEF IInv, StoreTypeOK
<1>2. QED BY <1>1, QuietStep, IdleStep DEF IInv

\* zss_stream_finish goes on only with intact data.
LEMMA StreamFinishStep ==
    ASSUME IInv, StreamFinish
    PROVE  IInv'
<1> DEFINE c == ContentBlocks(op.x)
           q == "term"
           next == [op EXCEPT !.pc = q, !.i = c]
           s == op.tail + 1 + op.i
           v == Data(op.x, op.i)
<1>1. op.pc = "recv" /\ op \in AppendOp
  BY AppendFacts DEF StreamFinish
<1>2. /\ op.x \in Files /\ op.tail >= 1 /\ op.i = FullBlocks[op.x]
      /\ FullBlocks[op.x] \in {ContentBlocks(op.x) - 1, ContentBlocks(op.x)}
      /\ op.intact => Written(op.i)
      /\ op.tail + 1 + ContentBlocks(op.x) <= Sectors[base]
      /\ c \in Nat /\ base \in Bank
  BY <1>1, AppendFacts, BlocksNat, ConstantsAssumption DEF IInv, AppendInv, StreamFinish
<1>3. UNCHANGED <<flush_supported, base, gen>>
  BY DEF StreamFinish, ram
<1>4. /\ next \in AppendOp /\ next.pc = q /\ next.i = c
      /\ next.x = op.x /\ next.tail = op.tail
  <2>1. next = [op EXCEPT !.pc = q, !.i = c]
    OBVIOUS
  <2>2. q \in AppendPC
    OBVIOUS
  <2> HIDE DEF q, c, next
  <2>3. op \in AppendOp
    BY <1>1
  <2>4. c \in Nat
    BY <1>2
  <2>5. QED BY <2>1, <2>2, <2>3, <2>4 DEF AppendOp
<1>5. ASSUME op' = next, \A k \in 0 .. c - 1 : now'[base][op.tail + 1 + k] = Data(op.x, k)
      PROVE  AppendInv'
  <2>1. op'.pc = "term" /\ op'.x = op.x /\ op'.tail = op.tail /\ base' = base
    BY <1>3, <1>4, <1>5
  <2>2. Written(ContentBlocks(op.x))'
    BY <1>5, <2>1 DEF Written
  <2>3. QED BY <1>1, <1>2, <2>1, <2>2 DEF AppendInv, AppendOp
<1>6. CASE op' = Done(-4) /\ UNCHANGED disk
  BY <1>3, <1>6, EndStep DEF disk, IInv, StoreTypeOK
<1>7. CASE op.intact /\ op.i < c /\ Write(base, s, v, next)
  <2>1. s \in Nat \ {0} /\ v \in SectorValue
    BY <1>1, <1>2 DEF AppendOp, Data, SectorValue
  <2>2. /\ StoreTypeOK' /\ MediaInv' /\ CompactInv' /\ GenerationsDiffer'
        /\ HeaderAfterData'
        /\ op' # next => AppendInv'
    <3>1. next.pc # "header"
      BY <1>4
    <3> HIDE DEF next, s, v
    <3> QED BY <1>3, <1>4, <1>7, <2>1, <3>1, AppendWriteStep
  <2>3. CASE op' = next
    <3>1. Land(base, s, v)
      <4>1. Done(-1).pc = "idle" /\ next.pc # "idle"
        BY <1>4, DoneIdle DEF IInv, StoreTypeOK
      <4> HIDE DEF next, s, v
      <4> QED BY <1>7, <2>3, <4>1, WriteCases
    <3>2. \A k \in 0 .. op.i : now'[base][op.tail + 1 + k] = Data(op.x, k)
      BY <1>1, <1>2, <1>7, <3>1, DataLanded
    <3>3. op.i = c - 1
      BY <1>1, <1>2, <1>7 DEF AppendOp
    <3>4. AppendInv'
      BY <1>5, <2>3, <3>2, <3>3
    <3>5. QED BY <2>2, <3>4 DEF IInv
  <2>4. QED BY <2>2, <2>3 DEF IInv
<1>8. CASE op.intact /\ ~(op.i < c) /\ op' = next /\ UNCHANGED disk
  <2>1. op' \in Operation /\ op'.pc = "term"
    BY <1>4, <1>8 DEF Operation, AppendOp
  <2>2. StoreTypeOK' /\ MediaInv' /\ GenerationsDiffer'
    BY <1>3, <1>8, <2>1, QuietStep DEF disk, IInv, StoreTypeOK
  <2>3. CompactInv' /\ HeaderAfterData'
    BY <2>1 DEF CompactInv, HeaderAfterData
  <2>4. AppendInv'
    <3>1. now' = now /\ op.i = c
      BY <1>1, <1>2, <1>8 DEF disk, AppendOp
    <3>2. \A k \in 0 .. c - 1 : now'[base][op.tail + 1 + k] = Data(op.x, k)
      BY <1>2, <1>8, <3>1 DEF Written
    <3>3. QED BY <1>5, <1>8, <3>2
  <2>5. QED BY <2>2, <2>3, <2>4 DEF IInv
<1>9. QED
  BY <1>6, <1>7, <1>8 DEF StreamFinish

\* The terminator is behind the data and leaves it alone.
LEMMA TerminateLogStep ==
    ASSUME IInv, TerminateLog
    PROVE  IInv'
<1> DEFINE end == op.tail + 1 + ContentBlocks(op.x)
           next == [op EXCEPT !.pc = "order"]
<1>1. op.pc = "term" /\ op \in AppendOp
  BY AppendFacts DEF TerminateLog
<1>2. /\ op.tail >= 1 /\ end <= Sectors[base] /\ Written(ContentBlocks(op.x))
      /\ ContentBlocks(op.x) \in Nat /\ base \in Bank /\ Sectors[base] \in Nat
  BY <1>1, AppendFacts DEF IInv, AppendInv
<1>3. UNCHANGED <<flush_supported, base, gen>>
  BY DEF TerminateLog, ram
<1>4. /\ next \in AppendOp /\ next.pc = "order"
      /\ next.x = op.x /\ next.tail = op.tail
  BY <1>1 DEF AppendOp
<1>5. ASSUME op' = next, end < Sectors[base] => now'[base][end] = Zero,
             \A k \in 0 .. ContentBlocks(op.x) - 1 :
                now'[base][op.tail + 1 + k] = Data(op.x, k)
      PROVE  AppendInv'
  <2>1. op'.pc = "order" /\ op'.x = op.x /\ op'.tail = op.tail /\ base' = base
    BY <1>3, <1>4, <1>5
  <2>2. Written(ContentBlocks(op.x))'
    BY <1>5, <2>1 DEF Written
  <2>3. QED BY <1>1, <1>2, <1>5, <2>1, <2>2 DEF AppendInv, AppendOp
<1>6. CASE end < Sectors[base]
  <2>1. end \in Nat \ {0} /\ Zero \in SectorValue
    BY <1>1, <1>2 DEF AppendOp, SectorValue
  <2>2. Write(base, end, Zero, next)
    BY <1>6 DEF TerminateLog
  <2>3. /\ StoreTypeOK' /\ MediaInv' /\ CompactInv' /\ GenerationsDiffer'
        /\ HeaderAfterData'
        /\ op' # next => AppendInv'
    <3>1. next.pc # "header"
      BY <1>4
    <3> HIDE DEF next, end
    <3> QED BY <1>3, <1>4, <2>1, <2>2, <3>1, AppendWriteStep
  <2>4. CASE op' = next
    <3>1. Land(base, end, Zero)
      <4>1. Done(-1).pc = "idle" /\ next.pc # "idle"
        BY <1>4, DoneIdle DEF IInv, StoreTypeOK
      <4> HIDE DEF next, end
      <4> QED BY <2>2, <2>4, <4>1, WriteCases
    <3>2. LandPost(base, end, Zero)
      <4>1. StoreTypeOK /\ MediaInv
        BY DEF IInv
      <4> HIDE DEF end
      <4> QED BY <1>2, <2>1, <3>1, <4>1, LandEffect
    <3>3. now'[base][end] = Zero
      <4>1. end \in Sector(base)
        BY <1>2, <1>6, <2>1 DEF Sector
      <4> HIDE DEF end
      <4> QED BY <1>2, <3>2, <4>1 DEF LandPost
    <3>4. ASSUME NEW k \in 0 .. ContentBlocks(op.x) - 1
          PROVE  now'[base][op.tail + 1 + k] = Data(op.x, k)
      <4>1. op.tail + 1 + k \in Sector(base) /\ op.tail + 1 + k # end
        BY <1>1, <1>2 DEF AppendOp, Sector
      <4>2. now[base][op.tail + 1 + k] = Data(op.x, k)
        BY <1>2 DEF Written
      <4> HIDE DEF end
      <4>3. QED BY <1>2, <3>2, <4>1, <4>2 DEF LandPost
    <3>5. AppendInv'
      BY <1>5, <2>4, <3>3, <3>4
    <3>6. QED BY <2>3, <3>5 DEF IInv
  <2>5. QED BY <2>3, <2>4 DEF IInv
<1>7. CASE ~(end < Sectors[base])
  <2>1. op' = next /\ now' = now /\ media' = media
    BY <1>7 DEF TerminateLog, disk
  <2>2. op' \in Operation /\ op'.pc = "order"
    BY <1>4, <2>1 DEF Operation, AppendOp
  <2>3. StoreTypeOK' /\ MediaInv' /\ GenerationsDiffer'
    BY <1>3, <2>1, <2>2, QuietStep DEF IInv, StoreTypeOK
  <2>4. CompactInv' /\ HeaderAfterData'
    BY <2>2 DEF CompactInv, HeaderAfterData
  <2>5. AppendInv'
    <3>1. \A k \in 0 .. ContentBlocks(op.x) - 1 :
             now'[base][op.tail + 1 + k] = Data(op.x, k)
      BY <1>2, <2>1 DEF Written
    <3>2. QED BY <1>5, <1>7, <2>1, <3>1
  <2>6. QED BY <2>3, <2>4, <2>5 DEF IInv
<1>8. QED BY <1>6, <1>7

\* This is where HeaderAfterData comes from.
LEMMA OrderFlushStep ==
    ASSUME IInv, OrderFlush
    PROVE  IInv'
<1> DEFINE next == [op EXCEPT !.pc = "header"]
           end == op.tail + 1 + ContentBlocks(op.x)
<1>1. op.pc = "order" /\ op \in AppendOp
  BY AppendFacts DEF OrderFlush
<1>2. /\ op.tail >= 1 /\ end <= Sectors[base] /\ Written(ContentBlocks(op.x))
      /\ end < Sectors[base] => now[base][end] = Zero
      /\ ContentBlocks(op.x) \in Nat /\ base \in Bank /\ Sectors[base] \in Nat
  BY <1>1, AppendFacts DEF IInv, AppendInv
<1>3. UNCHANGED <<flush_supported, base, gen>>
  BY DEF OrderFlush, ram
<1>4. /\ next \in AppendOp /\ next.pc = "header"
      /\ next.x = op.x /\ next.tail = op.tail
  BY <1>1 DEF AppendOp
<1>5. ASSUME op' = next, now' = now, DOMAIN media' = Bank,
             \A c \in Bank : media'[c] \in [Sector(c) -> SUBSET SectorValue],
             \A c \in Bank : \A r \in Sector(c) : media'[c][r] = {now[c][r]},
             GenerationsDiffer'
      PROVE  IInv'
  <2>1. op'.pc = "header" /\ op'.x = op.x /\ op'.tail = op.tail /\ base' = base
    BY <1>3, <1>4, <1>5
  <2>2. op' \in Operation
    BY <1>4, <1>5 DEF Operation, AppendOp
  <2>3. StoreTypeOK'
    BY <1>3, <1>5, <2>2 DEF IInv, StoreTypeOK
  <2>4. MediaInv'
    BY <1>5 DEF MediaInv
  <2>5. AppendInv'
    BY <1>1, <1>2, <1>5, <2>1 DEF AppendInv, Written, AppendOp
  <2>6. HeaderAfterData'
    <3>1. ASSUME NEW i \in 0 .. ContentBlocks(op.x) - 1
          PROVE  media'[base][op.tail + 1 + i] = {Data(op.x, i)}
      <4>1. op.tail + 1 + i \in Sector(base)
        BY <1>1, <1>2 DEF AppendOp, Sector
      <4>2. QED BY <1>2, <1>5, <4>1 DEF Written
    <3>2. ASSUME end < Sectors[base]
          PROVE  media'[base][end] = {Zero}
      <4>1. end \in Sector(base)
        BY <1>1, <1>2, <3>2 DEF AppendOp, Sector
      <4>2. QED BY <1>2, <1>5, <3>2, <4>1
    <3>3. QED BY <2>1, <3>1, <3>2 DEF HeaderAfterData
  <2>7. CompactInv'
    BY <2>1 DEF CompactInv
  <2>8. QED BY <1>5, <2>3, <2>4, <2>5, <2>6, <2>7 DEF IInv
<1>6. CASE flush_supported
  <2>1. \/ /\ media' = [b \in Bank |-> [s \in Sector(b) |-> {now[b][s]}]]
           /\ op' = next /\ now' = now
        \/ op' = Done(-1) /\ now' = now /\ media' = media
    BY <1>6 DEF OrderFlush, FlushIfSupported, Flush, disk
  <2>2. CASE op' = Done(-1) /\ now' = now /\ media' = media
    BY <1>3, <2>2, EndStep DEF IInv, StoreTypeOK
  <2>3. CASE /\ media' = [b \in Bank |-> [s \in Sector(b) |-> {now[b][s]}]]
             /\ op' = next /\ now' = now
    <3>1. StoreTypeOK
      BY DEF IInv
    <3>2. /\ DOMAIN media' = Bank
          /\ \A c \in Bank : media'[c] \in [Sector(c) -> SUBSET SectorValue]
          /\ \A c \in Bank : \A r \in Sector(c) : media'[c][r] = {now[c][r]}
      BY <2>3, <3>1, FlushEffect
    <3>3. GenerationsDiffer'
      BY <3>2, SectorZeroExists DEF IInv, MediaInv, GenerationsDiffer, SectorZero, Bank
    <3>4. QED BY <1>5, <2>3, <3>2, <3>3
  <2>4. QED BY <2>1, <2>2, <2>3
<1>7. CASE ~flush_supported
  <2>1. op' = next /\ now' = now /\ media' = media
    BY <1>7 DEF OrderFlush, FlushIfSupported, disk
  <2>2. \A c \in Bank : \A r \in Sector(c) : media'[c][r] = {now[c][r]}
    BY <1>7, <2>1 DEF IInv, MediaInv
  <2>3. GenerationsDiffer'
    BY <2>1 DEF IInv, GenerationsDiffer
  <2>4. QED BY <1>5, <2>1, <2>2, <2>3 DEF IInv, StoreTypeOK
<1>8. QED BY <1>6, <1>7

\* The header replaces the sector at the tail.
LEMMA WriteHeaderStep ==
    ASSUME IInv, WriteHeader
    PROVE  IInv'
<1> DEFINE next == [op EXCEPT !.pc = "commit"]
           v == Header(op.name, op.x)
<1>1. op.pc = "header" /\ op \in AppendOp
  BY AppendFacts DEF WriteHeader
<1>2. op.tail \in Nat \ {0} /\ v \in SectorValue
  BY <1>1, AppendFacts DEF AppendOp, Header, Tombstone, FileHeader, SectorValue
<1>3. UNCHANGED <<flush_supported, base, gen>>
  BY DEF WriteHeader
<1>4. /\ next \in AppendOp /\ next.pc = "commit"
      /\ next.x = op.x /\ next.tail = op.tail
  BY <1>1 DEF AppendOp
<1>5. Write(base, op.tail, v, next)
  BY DEF WriteHeader
<1>6. /\ StoreTypeOK' /\ MediaInv' /\ CompactInv' /\ GenerationsDiffer'
      /\ HeaderAfterData'
      /\ op' # next => AppendInv'
  <2>1. next.pc # "header"
    BY <1>4
  <2> HIDE DEF next, v
  <2> QED BY <1>2, <1>3, <1>4, <1>5, <2>1, AppendWriteStep
<1>7. op' = next => AppendInv'
  <2>1. op' = next => op'.pc = "commit" /\ op'.x = op.x /\ op'.tail = op.tail
    BY <1>4
  <2>2. QED BY <1>1, <1>3, <2>1, AppendFacts DEF AppendInv
<1>8. QED BY <1>6, <1>7 DEF IInv

\* A flush that ends the operation, or the end without one.
LEMMA FlushEndStep ==
    ASSUME IInv, NEW code \in Int, op' = Done(code), now' = now,
           UNCHANGED <<flush_supported, base, gen>>,
           \/ media' = media
           \/ media' = [b \in Bank |-> [s \in Sector(b) |-> {now[b][s]}]]
    PROVE  IInv'
<1>1. op' \in Operation /\ op'.pc = "idle"
  BY DoneIdle DEF IInv, StoreTypeOK
<1>2. CASE media' = media
  BY <1>2, EndStep DEF IInv, StoreTypeOK
<1>3. CASE media' = [b \in Bank |-> [s \in Sector(b) |-> {now[b][s]}]]
  <2>1. StoreTypeOK
    BY DEF IInv
  <2>2. /\ DOMAIN media' = Bank
        /\ \A c \in Bank : media'[c] \in [Sector(c) -> SUBSET SectorValue]
        /\ \A c \in Bank : \A r \in Sector(c) : media'[c][r] = {now[c][r]}
    BY <1>3, <2>1, FlushEffect
  <2>3. GenerationsDiffer'
    BY <2>2, SectorZeroExists DEF IInv, MediaInv, GenerationsDiffer, SectorZero, Bank
  <2>4. StoreTypeOK' /\ MediaInv'
    BY <1>1, <2>1, <2>2 DEF StoreTypeOK, MediaInv
  <2>5. QED BY <1>1, <2>3, <2>4, IdleStep DEF IInv
<1>4. QED BY <1>2, <1>3

\* The last flush ends the append.
LEMMA CommitFlushStep ==
    ASSUME IInv, CommitFlush
    PROVE  IInv'
<1>1. UNCHANGED <<flush_supported, base, gen>> /\ now' = now
  BY DEF CommitFlush, FlushIfSupported, Flush, disk
<1>2. \/ op' = Done(0)
      \/ op' = Done(-5)
  BY DEF CommitFlush, FlushIfSupported, Flush
<1>3. \/ media' = media
      \/ media' = [b \in Bank |-> [s \in Sector(b) |-> {now[b][s]}]]
  BY DEF CommitFlush, FlushIfSupported, Flush, disk
<1>4. QED BY <1>1, <1>2, <1>3, FlushEndStep

-----------------------------------------------------------------------------
(* Steps that begin an operation.                                          *)

\* An append begins with room for its record in the selected bank.
LEMMA BeginAppendStep ==
    ASSUME IInv, NEW kind \in Kind, NEW pc \in {"data", "recv", "term"},
           NEW n \in Names, NEW x \in Files \union {Deleted},
           x = Deleted <=> pc = "term",
           BeginAppend(kind, pc, n, x)
    PROVE  IInv'
<1>1. PICK S \in SUBSET Bank, t \in FindTail :
        /\ Find(S, t)
        /\ \/ \E code \in Int : op' = Fail(kind, code)
           \/ /\ t # 0 /\ t + 1 + ContentBlocks(x) <= Sectors[base']
              /\ op' = [pc |-> pc, kind |-> kind, name |-> n, x |-> x,
                        tail |-> t, i |-> 0, intact |-> TRUE]
  <2>1. PICK S \in SUBSET Bank, t \in FindTail :
          /\ Find(S, t)
          /\ LET missing == /\ kind = "del"
                            /\ CatalogOf(now[base'], base')[n] \in {Absent, Deleted}
             IN  op' = IF S = {} THEN Fail(kind, -2)
                       ELSE IF t = 0 THEN Fail(kind, -1)
                       ELSE IF missing THEN Fail(kind, -4)
                       ELSE IF t + 1 + ContentBlocks(x) > Sectors[base']
                            THEN Fail(kind, -3)
                       ELSE [pc |-> pc, kind |-> kind, name |-> n, x |-> x,
                             tail |-> t, i |-> 0, intact |-> TRUE]
    BY DEF BeginAppend
  <2>2. /\ base' \in Bank /\ t \in Nat
    BY <2>1, FindEffect DEF IInv
  <2>3. Sectors[base'] \in Nat /\ ContentBlocks(x) \in Nat
    BY <2>2, BlocksNat, ConstantsAssumption
  <2>4. \/ \E code \in Int : op' = Fail(kind, code)
        \/ /\ t # 0 /\ t + 1 + ContentBlocks(x) <= Sectors[base']
           /\ op' = [pc |-> pc, kind |-> kind, name |-> n, x |-> x,
                     tail |-> t, i |-> 0, intact |-> TRUE]
    BY <2>1, <2>2, <2>3
  <2>5. QED BY <2>1, <2>4
<1>2. base' \in Bank /\ gen' \in 0 .. MaxGen /\ t \in Nat
  BY <1>1, FindEffect DEF IInv
<1>3. now' = now /\ media' = media /\ flush_supported' = flush_supported
  BY DEF BeginAppend, disk
<1>4. CASE \E code \in Int : op' = Fail(kind, code)
  <2>1. op' \in Operation /\ op'.pc = "idle"
    BY <1>4 DEF Fail, Operation
  <2>2. QED BY <1>2, <1>3, <2>1, QuietStep, IdleStep DEF IInv
<1>5. CASE /\ t # 0 /\ t + 1 + ContentBlocks(x) <= Sectors[base']
           /\ op' = [pc |-> pc, kind |-> kind, name |-> n, x |-> x,
                     tail |-> t, i |-> 0, intact |-> TRUE]
  <2>1. /\ op' \in AppendOp /\ op'.pc = pc /\ op'.x = x /\ op'.tail = t
        /\ op'.i = 0
    BY <1>2, <1>5 DEF AppendOp
  <2>2. op' \in Operation
    BY <2>1 DEF Operation, AppendOp
  <2>3. StoreTypeOK' /\ MediaInv' /\ GenerationsDiffer'
    BY <1>2, <1>3, <2>2, QuietStep
  <2>4. CompactInv' /\ HeaderAfterData'
    BY <2>1 DEF CompactInv, HeaderAfterData
  <2>5. AppendInv'
    <3>1. pc = "data" => x \in Files /\ 0 < ContentBlocks(x)
      BY BlocksNat
    <3>2. pc = "recv" => x \in Files /\ 0 <= FullBlocks[x]
      BY ConstantsAssumption
    <3>3. pc = "term" => ContentBlocks(x) = 0
      BY DEF ContentBlocks
    <3>4. QED
      BY <1>2, <1>5, <2>1, <3>1, <3>2, <3>3 DEF AppendInv, Written
  <2>6. QED BY <2>3, <2>4, <2>5 DEF IInv
<1>6. QED BY <1>1, <1>4, <1>5

\* Listing only reads.
LEMMA EntryAtStep ==
    ASSUME IInv, EntryAt
    PROVE  IInv'
<1>1. op' = op /\ op.pc = "idle" /\ now' = now /\ media' = media
      /\ flush_supported' = flush_supported
  BY DEF EntryAt, disk
<1>2. base' \in Bank /\ gen' \in 0 .. MaxGen
  BY FindEffect DEF EntryAt, IInv
<1>3. op' \in Operation
  BY <1>1 DEF IInv, StoreTypeOK
<1>4. QED BY <1>1, <1>2, <1>3, QuietStep, IdleStep DEF IInv

\* A compaction begins on a device with FLUSH, below MaxGen.
LEMMA CompactStep ==
    ASSUME IInv, ~SuperReadFaults, Compact
    PROVE  IInv'
<1>1. PICK S \in SUBSET Bank, t \in FindTail :
        /\ Find(S, t)
        /\ op' = IF S = {} \/ t = 0 THEN Fail("compact", -2)
                 ELSE IF gen' = MaxGen \/ ~flush_supported THEN Fail("compact", -4)
                 ELSE [pc |-> "gcflush", kind |-> "compact",
                       target |-> Other(base'), tail |-> t,
                       pos |-> 1, need |-> 1, next |-> 1, i |-> 0]
  BY DEF Compact
<1>2. /\ base' \in Bank /\ gen' \in 0 .. MaxGen /\ t \in Nat /\ t <= Sectors[base']
      /\ S # {} => /\ base' = Selected(now) /\ gen' = now[base'][0].gen
                   /\ now[base'][0].t = "super"
  BY <1>1, FindEffect DEF IInv
<1>3. now' = now /\ media' = media /\ flush_supported' = flush_supported
  BY DEF Compact, disk
<1>4. CASE \E code \in Int : op' = Fail("compact", code)
  <2>1. op' \in Operation /\ op'.pc = "idle"
    BY <1>4 DEF Fail, Operation, Kind
  <2>2. QED BY <1>2, <1>3, <2>1, QuietStep, IdleStep DEF IInv
<1>5. CASE /\ S # {} /\ flush_supported
           /\ op' = [pc |-> "gcflush", kind |-> "compact",
                     target |-> Other(base'), tail |-> t,
                     pos |-> 1, need |-> 1, next |-> 1, i |-> 0]
  <2>1. /\ op' \in CompactOp /\ op'.pc = "gcflush" /\ op'.target = Other(base')
        /\ op'.tail = t /\ op'.pos = 1 /\ op'.next = 1
    BY <1>2, <1>5 DEF CompactOp, Other, Bank, Kind
  <2>2. op' \in Operation
    BY <2>1 DEF Operation, CompactOp
  <2>3. StoreTypeOK' /\ MediaInv' /\ GenerationsDiffer'
    BY <1>2, <1>3, <2>2, QuietStep
  <2>4. AppendInv' /\ HeaderAfterData'
    BY <2>1 DEF AppendInv, HeaderAfterData
  <2>5. CompactInv'
    BY <1>2, <1>3, <1>5, <2>1 DEF CompactInv
  <2>6. QED BY <2>3, <2>4, <2>5 DEF IInv
<1>6. QED BY <1>1, <1>4, <1>5

-----------------------------------------------------------------------------
(* Restarts.                                                               *)

\* The globals after a restart have their types.
LEMMA ResetFacts ==
    ASSUME Reset
    PROVE  /\ base' \in Bank /\ gen' \in 0 .. MaxGen
           /\ op' \in Operation /\ op'.pc = "idle"
  BY ConstantsAssumption DEF Reset, Idle, Bank, Operation, Kind

\* A restart of the guest leaves the disk alone.
LEMMA GuestRestartStep ==
    ASSUME IInv, GuestRestart
    PROVE  IInv'
<1>1. now' = now /\ media' = media /\ flush_supported' = flush_supported /\ Reset
  BY DEF GuestRestart, disk
<1>2. QED BY <1>1, ResetFacts, QuietStep, IdleStep DEF IInv

\* A power loss leaves of each sector something that its medium may hold.
LEMMA PowerLossStep ==
    ASSUME IInv, PowerLoss
    PROVE  IInv'
<1>1. /\ Reset /\ flush_supported' = flush_supported /\ now' \in PowerLossImages
      /\ media' = [b \in Bank |-> [s \in Sector(b) |-> {now'[b][s]}]]
  BY DEF PowerLoss
<1> DEFINE unsettled == {x \in Address : media[x[1]][x[2]] # {now[x[1]][x[2]]}}
           left(h) == [b \in Bank |-> [s \in Sector(b) |->
                         IF <<b, s>> \in unsettled THEN h[<<b, s>>] ELSE now[b][s]]]
<1>h. PICK h : /\ \A x \in unsettled : h[x] \in media[x[1]][x[2]]
               /\ now' = left(h)
  BY <1>1 DEF PowerLossImages
<1>2. /\ DOMAIN now' = Bank
      /\ \A c \in Bank : DOMAIN now'[c] = Sector(c)
      /\ \A c \in Bank : now'[c] = [s \in Sector(c) |-> now'[c][s]]
  <2> HIDE DEF unsettled
  <2> QED BY <1>h
<1>3. ASSUME NEW c \in Bank, NEW r \in Sector(c)
      PROVE  now'[c][r] \in media[c][r]
  <2>1. now'[c][r] = IF <<c, r>> \in unsettled THEN h[<<c, r>>] ELSE now[c][r]
    <3> HIDE DEF unsettled
    <3> QED BY <1>h, <1>3
  <2>2. now[c][r] \in media[c][r]
    BY <1>3 DEF IInv, MediaInv
  <2>3. <<c, r>> \in unsettled => h[<<c, r>>] \in media[c][r]
    <3>1. <<c, r>>[1] = c /\ <<c, r>>[2] = r
      OBVIOUS
    <3> HIDE DEF unsettled
    <3>2. QED BY <1>h, <3>1
  <2>4. QED
    <3> HIDE DEF unsettled
    <3> QED BY <2>1, <2>2, <2>3
<1>4. \A c \in Bank : /\ now'[c] \in [Sector(c) -> SectorValue]
                      /\ media'[c] \in [Sector(c) -> SUBSET SectorValue]
                      /\ \A r \in Sector(c) : media'[c][r] = {now'[c][r]}
  <2>1. \A c \in Bank : \A r \in Sector(c) : now'[c][r] \in SectorValue
    BY <1>3 DEF IInv, StoreTypeOK
  <2>2. QED BY <1>1, <1>2, <2>1
<1>5. StoreTypeOK' /\ MediaInv'
  BY <1>1, <1>2, <1>4, ResetFacts DEF IInv, StoreTypeOK, MediaInv
<1>6. GenerationsDiffer'
  BY <1>3, <1>4, SectorZeroExists DEF IInv, GenerationsDiffer, SectorZero, Bank
<1>7. QED BY <1>1, <1>5, <1>6, ResetFacts, IdleStep DEF IInv

-----------------------------------------------------------------------------
(* The steps of a compaction.                                              *)

\* What a state of CompactInv says before the superblock is written.
LEMMA CompactFacts ==
    ASSUME IInv, op.pc \in CompactPC \ {"gccommit", "reselect"}
    PROVE  /\ op \in CompactOp /\ flush_supported
           /\ base \in Bank /\ op.target \in Bank /\ op.target # base
           /\ base = Selected(now) /\ gen = now[base][0].gen
           /\ now[base][0].t = "super" /\ op.target = Other(base)
           /\ Sectors[base] \in Nat /\ op.tail <= Sectors[base]
           /\ op.pos >= 1 /\ op.next >= 1
<1>1. op \in CompactOp /\ base \in Bank
  BY OpCases DEF IInv, StoreTypeOK
<1>2. QED BY <1>1, ConstantsAssumption DEF IInv, CompactInv, Other, Bank

\* The disk is left alone and the compaction goes on at op'.
LEMMA CompactQuietStep ==
    ASSUME IInv, op.pc \in CompactPC \ {"gccommit", "reselect"},
           op' \in CompactOp, op'.pc \in {"check", "copy", "gcterm", "copysector"},
           op'.target = op.target, op'.tail = op.tail,
           op'.pos >= 1, op'.next >= 1,
           op'.pc = "copysector" =>
               /\ op'.pos < op'.tail /\ op'.i <= RecordBlocks(CurrentRecord')
               /\ op'.pos + RecordBlocks(CurrentRecord') < Sectors[base],
           now' = now, media' = media, UNCHANGED <<flush_supported, base, gen>>
    PROVE  IInv'
<1>1. op' \in Operation
  BY DEF Operation, CompactOp
<1>2. StoreTypeOK' /\ MediaInv' /\ GenerationsDiffer'
  BY <1>1, QuietStep DEF IInv, StoreTypeOK
<1>3. AppendInv' /\ HeaderAfterData'
  BY DEF AppendInv, HeaderAfterData
<1>4. CompactInv'
  BY CompactFacts DEF CompactInv
<1>5. QED BY <1>2, <1>3, <1>4 DEF IInv

\* A turn of a compaction loop fails, keeps the record or skips it.
LEMMA GcTurnCases ==
    ASSUME IInv, ~SuperReadFaults, NEW pc \in {"check", "copy"}, NEW kept,
           GcTurn(pc, kept)
    PROVE  /\ now' = now /\ media' = media /\ UNCHANGED flush_supported
           /\ op.pc = pc /\ op.pos < op.tail
           /\ base' \in Bank /\ gen' \in 0 .. MaxGen
           /\ \/ op' = Done(-1)
              \/ /\ base' = base /\ gen' = gen /\ IsRecord(now[base], base, op.pos)
                 /\ \/ op' = kept
                    \/ op' = [op EXCEPT !.pos = @ + 1 + RecordBlocks(CurrentRecord)]
<1>1. /\ now' = now /\ media' = media /\ UNCHANGED flush_supported
      /\ op.pc = pc /\ op.pos < op.tail
  BY DEF GcTurn, disk
<1>2. PICK S \in SUBSET Bank, t \in FindTail :
        /\ Find(S, t)
        /\ \/ op' = Done(-1)
           \/ /\ S # {} /\ IsRecord(now[base], base, op.pos)
              /\ \/ op' = kept
                 \/ op' = [op EXCEPT !.pos = @ + 1 + RecordBlocks(CurrentRecord)]
  BY DEF GcTurn
<1>3. base' \in Bank /\ gen' \in 0 .. MaxGen
  BY <1>2, FindEffect DEF IInv
<1>4. S # {} => base' = base /\ gen' = gen
  BY <1>1, <1>2, FindEffect, CompactFacts DEF IInv
<1>5. QED BY <1>1, <1>2, <1>3, <1>4

\* The record that a turn of a loop looks at.
LEMMA RecordFacts ==
    ASSUME IInv, op.pc \in CompactPC \ {"gccommit", "reselect"}, op.pos < op.tail
    PROVE  /\ CurrentRecord \in SectorValue
           /\ RecordBlocks(CurrentRecord) \in Nat
           /\ IsRecord(now[base], base, op.pos) =>
                op.pos + RecordBlocks(CurrentRecord) < Sectors[base]
<1>1. op.pos \in Sector(base)
  BY CompactFacts DEF CompactOp, Sector
<1>2. CurrentRecord \in SectorValue
  BY <1>1, CompactFacts DEF CurrentRecord, IInv, StoreTypeOK
<1>3. RecordBlocks(CurrentRecord) \in Nat
  BY <1>2, BlocksNat
<1>4. ASSUME IsRecord(now[base], base, op.pos)
      PROVE  op.pos + RecordBlocks(CurrentRecord) < Sectors[base]
  <2>1. CASE CurrentRecord.t = "file"
    <3>1. RecordBlocks(CurrentRecord) = Blocks[CurrentRecord.file]
      BY <2>1 DEF RecordBlocks
    <3>2. op.pos + 1 + Blocks[CurrentRecord.file] <= Sectors[base]
      BY <1>4, <2>1 DEF IsRecord, CurrentRecord
    <3>3. QED BY <1>3, <3>1, <3>2, CompactFacts DEF CompactOp
  <2>2. CASE CurrentRecord.t # "file"
    BY <1>1, <2>2, CompactFacts DEF RecordBlocks, CompactOp, Sector
  <2>3. QED BY <2>1, <2>2
<1>5. QED BY <1>2, <1>3, <1>4

\* The first loop keeps the selection and its bounds.
LEMMA GcCheckStep ==
    ASSUME IInv, ~SuperReadFaults, GcCheck
    PROVE  IInv'
<1> DEFINE size == 1 + RecordBlocks(CurrentRecord)
           kept == IF CurrentRecord.t = "file" /\ ~Verify(now[base'], op.pos)
                   THEN Done(-1)
                   ELSE IF op.need + size > Sectors[op.target] THEN Done(-3)
                   ELSE [op EXCEPT !.pos = @ + size, !.need = @ + size]
<1>1. GcTurn("check", kept)
  BY DEF GcCheck
<1>2. /\ now' = now /\ media' = media /\ UNCHANGED flush_supported
      /\ op.pc = "check" /\ op.pos < op.tail
      /\ base' \in Bank /\ gen' \in 0 .. MaxGen
      /\ \/ op' = Done(-1)
         \/ /\ base' = base /\ gen' = gen /\ IsRecord(now[base], base, op.pos)
            /\ \/ op' = kept
               \/ op' = [op EXCEPT !.pos = @ + 1 + RecordBlocks(CurrentRecord)]
  <2> HIDE DEF kept
  <2> QED BY <1>1, GcTurnCases
<1>3. CASE op' = Done(-1) \/ op' = Done(-3)
  BY <1>2, <1>3, EndStep
<1>4. CASE /\ base' = base /\ gen' = gen
           /\ \/ op' = [op EXCEPT !.pos = @ + size]
              \/ op' = [op EXCEPT !.pos = @ + size, !.need = @ + size]
  <2>1. op \in CompactOp /\ size \in Nat \ {0} /\ op.pos >= 1 /\ op.next >= 1
    BY <1>2, CompactFacts, RecordFacts
  <2> HIDE DEF size
  <2>2. /\ op' \in CompactOp /\ op'.pc = "check" /\ op'.target = op.target
        /\ op'.tail = op.tail /\ op'.pos >= 1 /\ op'.next = op.next
    <3>1. CASE op' = [op EXCEPT !.pos = @ + size]
      BY <1>2, <2>1, <3>1 DEF CompactOp
    <3>2. CASE op' = [op EXCEPT !.pos = @ + size, !.need = @ + size]
      <4> DEFINE p == op.pos + size
                 d == op.need + size
      <4>1. p \in Nat /\ d \in Nat /\ p >= 1
        BY <2>1 DEF CompactOp
      <4>2. op' = [op EXCEPT !.pos = p, !.need = d]
        BY <3>2
      <4>3. op \in CompactOp /\ op.pc = "check"
        BY <1>2, <2>1
      <4> HIDE DEF p, d
      <4>4. QED BY <4>1, <4>2, <4>3 DEF CompactOp
    <3>3. QED BY <1>4, <3>1, <3>2 DEF size
  <2>3. QED BY <1>2, <1>4, <2>1, <2>2, CompactQuietStep
<1>a. [op EXCEPT !.pos = @ + 1 + RecordBlocks(CurrentRecord)]
         = [op EXCEPT !.pos = @ + size]
  <2>1. op.pos \in Nat /\ RecordBlocks(CurrentRecord) \in Nat
    BY <1>2, CompactFacts, RecordFacts DEF CompactOp
  <2>2. op.pos + 1 + RecordBlocks(CurrentRecord) = op.pos + size
    BY <2>1
  <2>3. QED BY <2>2
<1>5. QED BY <1>2, <1>3, <1>4, <1>a

\* The second loop does, and a record to be copied is inside the bank.
LEMMA GcCopyStep ==
    ASSUME IInv, ~SuperReadFaults, GcCopy
    PROVE  IInv'
<1> DEFINE kept == [op EXCEPT !.pc = "copysector", !.i = 0]
           size == 1 + RecordBlocks(CurrentRecord)
<1>1. GcTurn("copy", kept)
  BY DEF GcCopy
<1>2. /\ now' = now /\ media' = media /\ UNCHANGED flush_supported
      /\ op.pc = "copy" /\ op.pos < op.tail
      /\ base' \in Bank /\ gen' \in 0 .. MaxGen
      /\ \/ op' = Done(-1)
         \/ /\ base' = base /\ gen' = gen /\ IsRecord(now[base], base, op.pos)
            /\ \/ op' = kept
               \/ op' = [op EXCEPT !.pos = @ + 1 + RecordBlocks(CurrentRecord)]
  <2> HIDE DEF kept
  <2> QED BY <1>1, GcTurnCases
<1>3. /\ op \in CompactOp /\ size \in Nat \ {0} /\ op.pos >= 1 /\ op.next >= 1
      /\ RecordBlocks(CurrentRecord) \in Nat
  BY <1>2, CompactFacts, RecordFacts
<1>4. CASE op' = Done(-1)
  BY <1>2, <1>4, EndStep
<1>5. CASE base' = base /\ gen' = gen /\ op' = [op EXCEPT !.pos = @ + size]
  <2> HIDE DEF size
  <2>1. /\ op' \in CompactOp /\ op'.pc = "copy" /\ op'.target = op.target
        /\ op'.tail = op.tail /\ op'.pos >= 1 /\ op'.next = op.next
    BY <1>2, <1>3, <1>5 DEF CompactOp
  <2>2. QED BY <1>2, <1>3, <1>5, <2>1, CompactQuietStep
<1>6. CASE base' = base /\ gen' = gen /\ op' = kept
           /\ IsRecord(now[base], base, op.pos)
  <2>1. /\ op' \in CompactOp /\ op'.pc = "copysector" /\ op'.target = op.target
        /\ op'.tail = op.tail /\ op'.pos = op.pos /\ op'.next = op.next /\ op'.i = 0
    BY <1>2, <1>3, <1>6 DEF CompactOp
  <2>2. CurrentRecord' = CurrentRecord
    BY <1>2, <1>6, <2>1 DEF CurrentRecord
  <2>3. op.pos + RecordBlocks(CurrentRecord) < Sectors[base]
    BY <1>2, <1>6, RecordFacts
  <2>4. QED BY <1>2, <1>3, <1>6, <2>1, <2>2, <2>3, CompactQuietStep
<1>a. [op EXCEPT !.pos = @ + 1 + RecordBlocks(CurrentRecord)]
         = [op EXCEPT !.pos = @ + size]
  <2>1. op.pos \in Nat /\ RecordBlocks(CurrentRecord) \in Nat
    BY <1>2, CompactFacts, RecordFacts DEF CompactOp
  <2>2. op.pos + 1 + RecordBlocks(CurrentRecord) = op.pos + size
    BY <2>1
  <2>3. QED BY <2>2
<1>7. QED BY <1>2, <1>4, <1>5, <1>6, <1>a

\* The first loop ends.
LEMMA GcCheckedStep ==
    ASSUME IInv, GcChecked
    PROVE  IInv'
<1>1. op.pc = "check" /\ op' = [op EXCEPT !.pc = "copy", !.pos = 1]
      /\ now' = now /\ media' = media /\ UNCHANGED <<flush_supported, base, gen>>
  BY DEF GcChecked, disk, ram
<1>2. op \in CompactOp /\ op.next >= 1
  BY <1>1, CompactFacts
<1>3. /\ op' \in CompactOp /\ op'.pc = "copy" /\ op'.target = op.target
      /\ op'.tail = op.tail /\ op'.pos = 1 /\ op'.next = op.next
  BY <1>1, <1>2 DEF CompactOp
<1>4. QED BY <1>1, <1>2, <1>3, CompactQuietStep

\* The second loop ends.
LEMMA GcCopiedStep ==
    ASSUME IInv, GcCopied
    PROVE  IInv'
<1>1. op.pc = "copy" /\ now' = now /\ media' = media
      /\ UNCHANGED <<flush_supported, base, gen>>
  BY DEF GcCopied, disk, ram
<1>2. op \in CompactOp /\ op.next >= 1 /\ op.pos >= 1
  BY <1>1, CompactFacts
<1>3. CASE op' = Done(-1)
  BY <1>1, <1>3, EndStep DEF IInv, StoreTypeOK
<1>4. CASE op' = [op EXCEPT !.pc = "gcterm"]
  <2>1. /\ op' \in CompactOp /\ op'.pc = "gcterm" /\ op'.target = op.target
        /\ op'.tail = op.tail /\ op'.pos = op.pos /\ op'.next = op.next
    BY <1>2, <1>4 DEF CompactOp
  <2>2. QED BY <1>1, <1>2, <2>1, CompactQuietStep
<1>5. QED BY <1>3, <1>4 DEF GcCopied

\* A flush in the middle of a compaction.
LEMMA CompactFlushStep ==
    ASSUME IInv, NEW pc \in {"check", "super"}, NEW code \in Int,
           op.pc \in {"gcflush", "gcorder"},
           Flush([op EXCEPT !.pc = pc], code),
           UNCHANGED <<flush_supported, base, gen>>
    PROVE  IInv'
<1>1. \/ op' = Done(code) /\ now' = now /\ media' = media
      \/ /\ op' = [op EXCEPT !.pc = pc] /\ now' = now
         /\ media' = [b \in Bank |-> [s \in Sector(b) |-> {now[b][s]}]]
  BY DEF Flush, disk
<1>2. CASE op' = Done(code) /\ now' = now /\ media' = media
  BY <1>2, EndStep DEF IInv, StoreTypeOK
<1>3. CASE /\ op' = [op EXCEPT !.pc = pc] /\ now' = now
           /\ media' = [b \in Bank |-> [s \in Sector(b) |-> {now[b][s]}]]
  <2>1. op \in CompactOp /\ op.next >= 1 /\ op.pos >= 1
    BY CompactFacts
  <2>2. /\ op' \in CompactOp /\ op'.pc = pc /\ op'.target = op.target
        /\ op'.tail = op.tail /\ op'.pos = op.pos /\ op'.next = op.next
    BY <1>3, <2>1 DEF CompactOp
  <2>3. op' \in Operation
    BY <2>2 DEF Operation, CompactOp
  <2>4. StoreTypeOK
    BY DEF IInv
  <2>5. /\ DOMAIN media' = Bank
        /\ \A c \in Bank : media'[c] \in [Sector(c) -> SUBSET SectorValue]
        /\ \A c \in Bank : \A r \in Sector(c) : media'[c][r] = {now[c][r]}
    BY <1>3, <2>4, FlushEffect
  <2>6. GenerationsDiffer'
    BY <2>5, SectorZeroExists DEF IInv, MediaInv, GenerationsDiffer, SectorZero, Bank
  <2>7. StoreTypeOK' /\ MediaInv'
    BY <1>3, <2>3, <2>4, <2>5 DEF StoreTypeOK, MediaInv
  <2>8. AppendInv' /\ HeaderAfterData'
    BY <2>2 DEF AppendInv, HeaderAfterData
  <2>9. CompactInv'
    <3>1. \A b \in Bank : media'[b][0] = {now'[b][0]}
      BY <1>3, <2>5, SectorZeroExists DEF SectorZero
    <3>2. QED BY <1>3, <2>2, <3>1, CompactFacts DEF CompactInv
  <2>10. QED BY <2>6, <2>7, <2>8, <2>9 DEF IInv
<1>4. QED BY <1>1, <1>2, <1>3

\* The flush before the first loop.
LEMMA GcFlushStep ==
    ASSUME IInv, GcFlush
    PROVE  IInv'
  BY CompactFlushStep DEF GcFlush, ram

\* The flush before the superblock settles both superblocks.
LEMMA GcOrderFlushStep ==
    ASSUME IInv, GcOrderFlush
    PROVE  IInv'
  BY CompactFlushStep DEF GcOrderFlush, ram

\* A sector other than the superblock of the target bank is written.
LEMMA CompactWriteStep ==
    ASSUME IInv, op.pc \in {"copysector", "gcterm"},
           NEW s \in Nat \ {0}, NEW v \in SectorValue, NEW next \in CompactOp,
           Write(op.target, s, v, next),
           next.pc \in {"copy", "copysector", "gcorder"},
           next.target = op.target, next.tail = op.tail,
           next.pos >= 1, next.next >= 1,
           next.pc = "copysector" =>
               /\ op.pc = "copysector" /\ next.pos = op.pos
               /\ next.i <= RecordBlocks(CurrentRecord),
           UNCHANGED <<flush_supported, base, gen>>
    PROVE  IInv'
<1>1. /\ base \in Bank /\ op.target \in Bank /\ op.target # base
      /\ base = Selected(now) /\ gen = now[base][0].gen /\ flush_supported
      /\ now[base][0].t = "super" /\ op.target = Other(base)
      /\ op.tail <= Sectors[base]
  BY CompactFacts
<1>2. CASE op' = Done(-1) /\ now' = now /\ media' = media
  BY <1>2, EndStep DEF IInv, StoreTypeOK
<1>3. CASE Land(op.target, s, v) /\ op' \in {next, Done(-1)}
  <2>1. StoreTypeOK /\ MediaInv
    BY DEF IInv
  <2>2. LandPost(op.target, s, v)
    BY <1>1, <1>3, <2>1, LandEffect
  <2>3. op' \in Operation /\ op'.pc \notin AppendPC
    <3>1. next \in Operation
      BY DEF Operation, CompactOp
    <3>2. Done(-1) \in Operation /\ Done(-1).pc = "idle"
      BY <2>1, DoneIdle DEF StoreTypeOK
    <3>3. QED BY <1>3, <3>1, <3>2
  <2>4. StoreTypeOK' /\ MediaInv'
    BY <2>1, <2>2, <2>3 DEF StoreTypeOK, MediaInv, LandPost
  <2>5. \A c \in Bank : now'[c][0] = now[c][0] /\ media'[c][0] = media[c][0]
    BY <2>2, SectorZeroExists, ZenonT(60) DEF LandPost, SectorZero
  <2>6. \A r \in Sector(base) : now'[base][r] = now[base][r]
    BY <1>1, <2>2 DEF LandPost
  <2>7. GenerationsDiffer'
    BY <2>5 DEF IInv, GenerationsDiffer, Bank
  <2>8. AppendInv' /\ HeaderAfterData'
    BY <2>3 DEF AppendInv, HeaderAfterData
  <2>9. CompactInv'
    <3>1. CASE op' = Done(-1)
      BY <2>1, <3>1, DoneIdle, IdleStep DEF StoreTypeOK
    <3>2. CASE op' = next
      <4>1. Selected(now') = Selected(now)
        BY <2>5, SelectedCongruence
      <4>2. now'[base][0] = now[base][0]
        BY <1>1, <2>5
      <4>3. next.pc = "copysector" =>
              /\ op.pos < op.tail /\ CurrentRecord' = CurrentRecord
              /\ op.pos + RecordBlocks(CurrentRecord) < Sectors[base]
        <5> SUFFICES ASSUME next.pc = "copysector"
                     PROVE  /\ op.pos < op.tail /\ CurrentRecord' = CurrentRecord
                            /\ op.pos + RecordBlocks(CurrentRecord) < Sectors[base]
          OBVIOUS
        <5>1. /\ op.pos < op.tail
              /\ op.pos + RecordBlocks(CurrentRecord) < Sectors[base]
          BY DEF IInv, CompactInv
        <5>2. op.pos \in Sector(base)
          BY <5>1, CompactFacts DEF CompactOp, Sector
        <5>3. now'[base][op.pos] = now[base][op.pos]
          BY <2>6, <5>2
        <5>4. QED BY <3>2, <5>1, <5>3 DEF CurrentRecord
      <4>4. QED BY <1>1, <3>2, <4>1, <4>2, <4>3 DEF CompactInv
    <3>3. QED BY <1>3, <3>1, <3>2
  <2>10. QED BY <2>4, <2>7, <2>8, <2>9 DEF IInv
<1>4. QED BY <1>2, <1>3, WriteCases

\* A copied sector goes behind the superblock of the target bank.
LEMMA GcCopySectorStep ==
    ASSUME IInv, GcCopySector
    PROVE  IInv'
<1> DEFINE blocks == RecordBlocks(CurrentRecord)
           size == 1 + blocks
           s == op.next + op.i
           v == now[base][op.pos + op.i]
<1>1. /\ op.pc = "copysector" /\ op \in CompactOp /\ base \in Bank
      /\ op.pos >= 1 /\ op.next >= 1 /\ Sectors[base] \in Nat
  BY CompactFacts DEF GcCopySector
<1>2. /\ op.pos < op.tail /\ op.i <= blocks /\ op.pos + blocks < Sectors[base]
      /\ blocks \in Nat
  BY <1>1, RecordFacts DEF IInv, CompactInv
<1>3. s \in Nat \ {0} /\ v \in SectorValue
  <2>1. op.pos + op.i \in Sector(base)
    BY <1>1, <1>2 DEF CompactOp, Sector
  <2>2. QED BY <1>1, <2>1 DEF IInv, StoreTypeOK, CompactOp
<1>4. UNCHANGED <<flush_supported, base, gen>>
  BY DEF GcCopySector, ram
<1>5. CASE op.i < blocks
  <2> DEFINE k == op.i + 1
             next == [op EXCEPT !.i = k]
  <2>1. Write(op.target, s, v, next)
    BY <1>5 DEF GcCopySector
  <2>2. k \in Nat /\ k <= blocks
    BY <1>1, <1>2, <1>5 DEF CompactOp
  <2>3. /\ next \in CompactOp /\ next.pc = "copysector" /\ next.target = op.target
        /\ next.tail = op.tail /\ next.pos = op.pos /\ next.next = op.next
        /\ next.i = k
    <3> HIDE DEF k
    <3> QED BY <1>1, <2>2 DEF CompactOp
  <2> HIDE DEF next, k, s, v
  <2>4. QED
    BY <1>1, <1>3, <1>4, <2>1, <2>2, <2>3, CompactWriteStep
<1>6. CASE ~(op.i < blocks)
  <2> DEFINE p == op.pos + 1 + blocks
             n == op.next + 1 + blocks
             next == [op EXCEPT !.pc = "copy", !.i = 0, !.pos = p, !.next = n]
  <2>1. Write(op.target, s, v, next)
    BY <1>6 DEF GcCopySector
  <2>2. p \in Nat /\ n \in Nat /\ p >= 1 /\ n >= 1
    BY <1>1, <1>2 DEF CompactOp
  <2>3. /\ next \in CompactOp /\ next.pc = "copy" /\ next.target = op.target
        /\ next.tail = op.tail /\ next.pos = p /\ next.next = n
    <3>1. next = [op EXCEPT !.pc = "copy", !.i = 0, !.pos = p, !.next = n]
      OBVIOUS
    <3> HIDE DEF p, n, next
    <3>2. op \in CompactOp
      BY <1>1
    <3>3. QED BY <2>2, <3>1, <3>2 DEF CompactOp
  <2> HIDE DEF next, p, n, s, v
  <2>4. QED
    BY <1>1, <1>3, <1>4, <2>1, <2>2, <2>3, CompactWriteStep
<1>7. QED BY <1>5, <1>6

\* So does the terminator.
LEMMA GcTermStep ==
    ASSUME IInv, GcTerm
    PROVE  IInv'
<1> DEFINE next == [op EXCEPT !.pc = "gcorder"]
<1>1. /\ op.pc = "gcterm" /\ op \in CompactOp /\ op.pos >= 1 /\ op.next >= 1
  BY CompactFacts DEF GcTerm
<1>2. UNCHANGED <<flush_supported, base, gen>>
  BY DEF GcTerm, ram
<1>3. /\ next \in CompactOp /\ next.pc = "gcorder" /\ next.target = op.target
      /\ next.tail = op.tail /\ next.pos = op.pos /\ next.next = op.next
  BY <1>1 DEF CompactOp
<1>4. op.next \in Nat \ {0} /\ Zero \in SectorValue
  BY <1>1 DEF CompactOp, SectorValue
<1>5. CASE Write(op.target, op.next, Zero, next)
  <2> HIDE DEF next
  <2> QED BY <1>1, <1>2, <1>3, <1>4, <1>5, CompactWriteStep
<1>6. CASE op' = next /\ UNCHANGED disk
  <2>1. op' \in Operation
    BY <1>3, <1>6 DEF Operation, CompactOp
  <2>2. StoreTypeOK' /\ MediaInv' /\ GenerationsDiffer'
    BY <1>2, <1>6, <2>1, QuietStep DEF disk, IInv, StoreTypeOK
  <2>3. AppendInv' /\ HeaderAfterData'
    BY <1>3, <1>6 DEF AppendInv, HeaderAfterData
  <2>4. CompactInv'
    BY <1>1, <1>2, <1>3, <1>6, CompactFacts DEF CompactInv, disk
  <2>5. QED BY <2>2, <2>3, <2>4 DEF IInv
<1>7. QED BY <1>5, <1>6 DEF GcTerm

\* The new generation is higher than every generation on either medium.
LEMMA GcSuperStep ==
    ASSUME IInv, GcSuper
    PROVE  IInv'
<1> DEFINE next == [op EXCEPT !.pc = "gccommit"]
           v == IF gen = MaxGen THEN Corrupt ELSE Super(gen + 1)
<1>1. /\ op.pc = "super" /\ op \in CompactOp /\ base \in Bank
      /\ op.target \in Bank /\ op.target # base
      /\ base = Selected(now) /\ gen = now[base][0].gen /\ flush_supported
      /\ now[base][0].t = "super"
  BY CompactFacts DEF GcSuper
<1>2. \A b \in Bank : media[b][0] = {now[b][0]}
  BY <1>1 DEF IInv, CompactInv
<1>3. UNCHANGED <<flush_supported, base, gen>>
  BY DEF GcSuper, ram
<1>4. v \in SectorValue /\ (v.t = "super" => v.gen = gen + 1)
  <2>1. CASE gen = MaxGen
    <3>1. v = Corrupt
      BY <2>1
    <3>2. QED BY <3>1 DEF SectorValue, Corrupt
  <2>2. CASE gen # MaxGen
    <3>1. v = Super(gen + 1)
      BY <2>2
    <3>2. gen + 1 \in 0 .. MaxGen
      BY <2>2, ConstantsAssumption DEF IInv, StoreTypeOK
    <3>3. Super(gen + 1) \in SectorValue /\ Super(gen + 1).gen = gen + 1
      BY <3>2 DEF SectorValue, Super
    <3>4. QED BY <3>1, <3>3
  <2>3. QED BY <2>1, <2>2
<1>5. /\ next \in CompactOp /\ next.pc = "gccommit"
  BY <1>1 DEF CompactOp
<1>6. Write(op.target, 0, v, next)
  BY DEF GcSuper
<1>7. Done(-1) \in Operation /\ Done(-1).pc = "idle"
  BY DoneIdle DEF IInv, StoreTypeOK
<1>8. CASE op' = Done(-1) /\ now' = now /\ media' = media
  BY <1>3, <1>8, EndStep DEF IInv, StoreTypeOK
<1>9. CASE Land(op.target, 0, v) /\ op' \in {next, Done(-1)}
  <2>1. StoreTypeOK /\ MediaInv
    BY DEF IInv
  <2>2. LandPost(op.target, 0, v)
    <3> HIDE DEF v
    <3> QED BY <1>1, <1>4, <1>9, <2>1, LandEffect
  <2>3. op' \in Operation /\ op'.pc \in {"gccommit", "idle"}
    BY <1>5, <1>7, <1>9 DEF Operation, CompactOp
  <2>4. StoreTypeOK' /\ MediaInv'
    BY <1>3, <2>1, <2>2, <2>3 DEF StoreTypeOK, MediaInv, LandPost
  <2>5. AppendInv' /\ HeaderAfterData' /\ CompactInv'
    BY <1>1, <1>3, <2>3 DEF AppendInv, HeaderAfterData, CompactInv
  <2>6. /\ media'[base][0] = {now[base][0]}
        /\ media'[op.target][0] = {now[op.target][0], v}
    <3> HIDE DEF v
    <3>1. base \in Bank /\ op.target \in Bank /\ op.target # base /\ flush_supported
      BY <1>1
    <3>2. 0 \in Sector(base) /\ 0 \in Sector(op.target)
      BY <3>1, SectorZeroExists DEF SectorZero
    <3>3. media'[base][0] = media[base][0]
      BY <2>2, <3>1, <3>2 DEF LandPost
    <3>4. media'[op.target][0] = media[op.target][0] \union {v}
      BY <2>2, <3>1, <3>2 DEF LandPost
    <3>5. QED BY <1>2, <3>1, <3>3, <3>4
  <2>7. now[op.target][0].t = "super" => now[op.target][0].gen # gen
    <3>1. CASE base = "A"
      BY <1>1, <1>2, <3>1 DEF IInv, GenerationsDiffer, Bank
    <3>2. CASE base = "B"
      BY <1>1, <1>2, <3>2 DEF IInv, GenerationsDiffer, Bank
    <3>3. QED BY <1>1, <3>1, <3>2 DEF Bank
  <2>8. v.t = "super" => v.gen # gen
    BY <1>4 DEF IInv, StoreTypeOK
  <2>9. \A a \in media'[base][0], b \in media'[op.target][0] :
          a.t = "super" /\ b.t = "super" => a.gen # b.gen
    <3> HIDE DEF v
    <3> QED BY <1>1, <2>6, <2>7, <2>8
  <2>10. GenerationsDiffer'
    BY <1>1, <2>9 DEF GenerationsDiffer, Bank
  <2>11. QED BY <2>4, <2>5, <2>10 DEF IInv
<1>10. QED
  <2> HIDE DEF next, v
  <2> QED BY <1>6, <1>8, <1>9, WriteCases

\* The flush of the new superblock.
LEMMA GcCommitFlushStep ==
    ASSUME IInv, GcCommitFlush
    PROVE  IInv'
<1> DEFINE next == [op EXCEPT !.pc = "reselect"]
<1>1. op.pc = "gccommit" /\ op \in CompactOp /\ flush_supported
  BY OpCases DEF GcCommitFlush, IInv, StoreTypeOK, CompactInv
<1>2. UNCHANGED <<flush_supported, base, gen>> /\ now' = now
  BY DEF GcCommitFlush, Flush, ram, disk
<1>3. \/ op' = Done(-5) /\ media' = media
      \/ /\ op' = next
         /\ media' = [b \in Bank |-> [s \in Sector(b) |-> {now[b][s]}]]
  BY DEF GcCommitFlush, Flush, disk
<1>4. CASE op' = Done(-5) /\ media' = media
  BY <1>2, <1>4, FlushEndStep
<1>5. CASE /\ op' = next
           /\ media' = [b \in Bank |-> [s \in Sector(b) |-> {now[b][s]}]]
  <2>1. op' \in CompactOp /\ op'.pc = "reselect"
    BY <1>1, <1>5 DEF CompactOp
  <2>2. op' \in Operation
    BY <2>1 DEF Operation, CompactOp
  <2>3. StoreTypeOK
    BY DEF IInv
  <2>4. /\ DOMAIN media' = Bank
        /\ \A c \in Bank : media'[c] \in [Sector(c) -> SUBSET SectorValue]
        /\ \A c \in Bank : \A r \in Sector(c) : media'[c][r] = {now[c][r]}
    BY <1>2, <1>5, <2>3, FlushEffect
  <2>5. GenerationsDiffer'
    BY <2>4, SectorZeroExists DEF IInv, MediaInv, GenerationsDiffer, SectorZero, Bank
  <2>6. StoreTypeOK' /\ MediaInv'
    BY <1>2, <2>2, <2>3, <2>4 DEF StoreTypeOK, MediaInv
  <2>7. AppendInv' /\ HeaderAfterData' /\ CompactInv'
    BY <1>1, <1>2, <2>1 DEF AppendInv, HeaderAfterData, CompactInv
  <2>8. QED BY <2>5, <2>6, <2>7 DEF IInv
<1>6. QED BY <1>3, <1>4, <1>5

\* Selecting the bank at the end only reads.
LEMMA GcReselectStep ==
    ASSUME IInv, GcReselect
    PROVE  IInv'
<1>1. PICK S \in SUBSET Bank :
        /\ Probe(S)
        /\ op' = Done(IF S = {} \/ base' # op.target THEN -1 ELSE 0)
  BY DEF GcReselect
<1>2. now' = now /\ media' = media /\ flush_supported' = flush_supported
  BY DEF GcReselect, disk
<1>3. base' \in Bank /\ gen' \in 0 .. MaxGen
  <2>1. CASE S = {}
    BY <1>1, <2>1 DEF Probe, IInv, StoreTypeOK
  <2>2. CASE S # {}
    <3>1. S \in SUBSET ValidBanks(now) /\ base' = SelectBank(now, S)
          /\ gen' = now[base'][0].gen
      BY <1>1, <2>2 DEF Probe
    <3>2. base' \in S
      BY <2>2, <3>1, SelectedIsValid
    <3>3. base' \in Bank /\ now[base'][0].t = "super"
      BY <3>1, <3>2 DEF ValidBanks
    <3>4. QED
      BY <3>1, <3>3, SuperblockType, SectorZeroExists
         DEF SectorZero, IInv, StoreTypeOK
  <2>3. QED BY <2>1, <2>2
<1>4. op' = Done(-1) \/ op' = Done(0)
  BY <1>1
<1>5. QED BY <1>2, <1>3, <1>4, EndStep

\* An abandoned upload leaves the disk alone.
LEMMA StreamAbandonStep ==
    ASSUME IInv, StreamAbandon
    PROVE  IInv'
  BY EndStep DEF StreamAbandon, disk, ram, IInv, StoreTypeOK

-----------------------------------------------------------------------------
\* The invariant holds initially.
LEMMA InitInv ==
    ASSUME Init
    PROVE  IInv
<1>1. op \in Operation /\ op.pc = "idle"
  BY DEF Init, Idle, Operation, Kind
<1>2. /\ DOMAIN now = Bank /\ DOMAIN media = Bank
      /\ \A b \in Bank : /\ now[b] \in [Sector(b) -> SectorValue]
                         /\ media[b] \in [Sector(b) -> SUBSET SectorValue]
                         /\ \A s \in Sector(b) : media[b][s] = {now[b][s]}
  <2>1. Super(0) \in SectorValue /\ Zero \in SectorValue
    BY ConstantsAssumption DEF Super, SectorValue
  <2>2. /\ DOMAIN now = Bank
        /\ \A b \in Bank : now[b] \in [Sector(b) -> SectorValue]
    BY <2>1 DEF Init
  <2>3. QED BY <2>2 DEF Init
<1>3. StoreTypeOK /\ MediaInv
  BY <1>1, <1>2, ConstantsAssumption DEF Init, StoreTypeOK, MediaInv, Bank
<1>4. now["B"][0].t = "zero"
  BY SectorZeroExists DEF Init, SectorZero, Bank, Zero
<1>5. GenerationsDiffer
  BY <1>2, <1>4, SectorZeroExists DEF GenerationsDiffer, SectorZero, Bank
<1>6. QED
  BY <1>1, <1>3, <1>5 DEF IInv, AppendInv, CompactInv, HeaderAfterData

\* Every step preserves it.
LEMMA NextInv ==
    ASSUME IInv, [Next]_vars, ~SuperReadFaults
    PROVE  IInv'
<1>1. CASE UNCHANGED vars
  BY <1>1, SMTT(60) DEF vars, IInv, StoreTypeOK, MediaInv, AppendInv, Written, CompactInv,
              CurrentRecord, HeaderAfterData, GenerationsDiffer
<1>2. ASSUME NEW n \in Names, NEW f \in Files, Put(n, f) \/ StreamBegin(n, f)
      PROVE  IInv'
  BY <1>2, BeginAppendStep, BlocksNat DEF Put, StreamBegin, Kind
<1>3. ASSUME NEW n \in Names, Delete(n)
      PROVE  IInv'
  BY <1>3, BeginAppendStep DEF Delete, Kind
<1>4. CASE Step
  BY <1>4, PutBlockStep, StreamWriteStep, StreamAbandonStep, StreamFinishStep,
     TerminateLogStep, OrderFlushStep, WriteHeaderStep, CommitFlushStep,
     GcFlushStep, GcCheckStep, GcCheckedStep, GcCopyStep, GcCopySectorStep,
     GcCopiedStep, GcTermStep, GcOrderFlushStep, GcSuperStep,
     GcCommitFlushStep, GcReselectStep DEF Step
<1>5. QED
  BY <1>1, <1>2, <1>3, <1>4, EntryAtStep, CompactStep, GuestRestartStep,
     PowerLossStep DEF Next

\* The inductive invariant holds in every reachable state, when superblocks can
\* be read.
THEOREM StoreInvariant == ~SuperReadFaults => (Spec => []IInv)
<1> SUFFICES ASSUME ~SuperReadFaults PROVE Spec => []IInv
  OBVIOUS
<1>1. Init => IInv
  BY InitInv
<1>2. IInv /\ [Next]_vars => IInv'
  BY NextInv
<1>3. QED BY <1>1, <1>2, PTL DEF Spec

\* The disk, the globals and the operation in progress keep their types.
THEOREM StoreTyped == ~SuperReadFaults => (Spec => []StoreTypeOK)
<1>1. IInv => StoreTypeOK
  BY DEF IInv
<1>2. QED BY <1>1, StoreInvariant, PTL

\* No header is ever written before its data and the terminator are durable:
\* the write ordering of zss_put, zss_delete and zss_stream_finish.
THEOREM WriteOrdering == ~SuperReadFaults => (Spec => []HeaderAfterData)
<1>1. IInv => HeaderAfterData
  BY DEF IInv
<1>2. QED BY <1>1, StoreInvariant, PTL

\* zss_available never meets two superblocks of the same generation, whatever
\* a power loss leaves of them.
THEOREM UniqueGeneration == ~SuperReadFaults => (Spec => []GenerationsDiffer)
<1>1. IInv => GenerationsDiffer
  BY DEF IInv
<1>2. QED BY <1>1, StoreInvariant, PTL

-----------------------------------------------------------------------------
(* Reading a bank: what the scan of a log of any length yields, and when   *)
(* two banks show the same files.  A log is described by the positions of  *)
(* its records and by its tail; the scan finds exactly these, by induction *)
(* from the end of the bank.                                               *)

Image(b) == [Sector(b) -> SectorValue]

\* The sector behind the record at p.
Behind(img, p) == p + 1 + RecordBlocks(img[p])

\* The records at H follow each other from sector k without a gap, the last
\* one ends before t.
Chain(img, b, k, H, t) ==
    /\ H \subseteq k .. t - 1
    /\ k \in H \union {t}
    /\ \A p \in H : IsRecord(img, b, p) /\ Behind(img, p) \in H \union {t}
    /\ \A p \in H, q \in H \union {t} : p < q => Behind(img, p) <= q

\* A chain that ends at the end of the bank or at an empty sector.
LogFrom(img, b, k, H, t) ==
    /\ t \in 1 .. Sectors[b]
    /\ Chain(img, b, k, H, t)
    /\ t < Sectors[b] => img[t] = Zero

\* The record at p is added to the ones found behind it.
AddHead(rest, p) == [rest EXCEPT !.heads = @ \union {p}]

\* One turn of the scan.
ScanBody(img, b, f, p) ==
    IF p = Sectors[b] THEN [tail |-> p, heads |-> {}]
    ELSE IF img[p] = Zero THEN [tail |-> p, heads |-> {}]
    ELSE IF ~IsRecord(img, b, p) THEN [tail |-> 0, heads |-> {}]
    ELSE AddHead(f[Behind(img, p)], p)

\* The fields of a record.
LEMMA RecordValue ==
    ASSUME NEW v \in SectorValue, v.t \in {"file", "del"}
    PROVE  v.name \in Names /\ (v.t = "file" => v.file \in Files)
  BY DEF SectorValue, Zero, Corrupt

\* f is the function that the turns define.
IsScan(img, b, f) == f = [p \in 1 .. Sectors[b] |-> ScanBody(img, b, f, p)]

\* A record leaves room for its data, and is not an empty sector.
LEMMA RecordBounds ==
    ASSUME NEW b \in Bank, NEW img \in Image(b), NEW p \in 1 .. Sectors[b] - 1,
           IsRecord(img, b, p)
    PROVE  /\ RecordBlocks(img[p]) \in Nat
           /\ Behind(img, p) \in p + 1 .. Sectors[b]
           /\ img[p] # Zero
           /\ img[p].t \in {"file", "del"}
           /\ img[p].name \in Names
           /\ img[p].t = "file" => img[p].file \in Files
<1>1. Sectors[b] \in Nat /\ p \in Sector(b)
  BY ConstantsAssumption DEF Sector
<1>2. img[p] \in SectorValue /\ img[p].t \in {"file", "del"}
  BY <1>1 DEF Image, IsRecord
<1>3. img[p].t # "zero"
  BY <1>2
<1>4. img[p] # Zero
  BY <1>3 DEF Zero
<1>5. img[p].name \in Names /\ (img[p].t = "file" => img[p].file \in Files)
  BY <1>2, RecordValue
<1>6. RecordBlocks(img[p]) \in Nat
  BY <1>5, ConstantsAssumption DEF RecordBlocks
<1>7. CASE img[p].t = "file"
  <2>1. RecordBlocks(img[p]) = Blocks[img[p].file]
    BY <1>7 DEF RecordBlocks
  <2>2. p + 1 + Blocks[img[p].file] <= Sectors[b]
    BY <1>7 DEF IsRecord
  <2>3. QED
    BY <1>1, <1>2, <1>4, <1>5, <1>6, <2>1, <2>2 DEF Behind
<1>8. CASE img[p].t = "del"
  <2>1. RecordBlocks(img[p]) = 0
    BY <1>8 DEF RecordBlocks
  <2>2. QED
    BY <1>1, <1>2, <1>4, <1>5, <1>6, <2>1 DEF Behind
<1>9. QED
  BY <1>2, <1>7, <1>8

\* The turns of the scan define a function.
LEMMA ScanExists ==
    ASSUME NEW b \in Bank, NEW img \in Image(b)
    PROVE  \E f : IsScan(img, b, f)
<1> DEFINE N == Sectors[b]
           S == {k \in Nat : \E f : f = [p \in k .. N |-> ScanBody(img, b, f, p)]}
<1>1. N \in Nat /\ N >= 2
  BY ConstantsAssumption
<1>2. N \in S
  <2> DEFINE g == [p \in N .. N |-> [tail |-> p, heads |-> {}]]
  <2>1. g = [p \in N .. N |-> ScanBody(img, b, g, p)]
    BY <1>1 DEF ScanBody
  <2>2. QED
    BY <1>1, <2>1
<1>3. ASSUME NEW n \in 1 + 1 .. N, n \in S PROVE n - 1 \in S
  <2>1. PICK f : f = [p \in n .. N |-> ScanBody(img, b, f, p)]
    BY <1>3
  <2> DEFINE m == n - 1
             g == [p \in m .. N |-> IF p = m THEN ScanBody(img, b, f, m) ELSE f[p]]
  <2>2. \A p \in m .. N : ScanBody(img, b, g, p) = ScanBody(img, b, f, p)
    <3> SUFFICES ASSUME NEW p \in m .. N
                 PROVE  ScanBody(img, b, g, p) = ScanBody(img, b, f, p)
      OBVIOUS
    <3>1. ASSUME p # N, IsRecord(img, b, p)
          PROVE  g[Behind(img, p)] = f[Behind(img, p)]
      <4>1. p \in 1 .. N - 1
        BY <1>1, <1>3, <3>1
      <4>2. Behind(img, p) \in p + 1 .. N
        BY <3>1, <4>1, RecordBounds
      <4>3. QED
        BY <1>1, <1>3, <4>1, <4>2
    <3> HIDE DEF g
    <3>2. QED
      BY <3>1 DEF ScanBody
  <2>3. \A p \in m .. N : g[p] = ScanBody(img, b, g, p)
    <3> SUFFICES ASSUME NEW p \in m .. N PROVE g[p] = ScanBody(img, b, f, p)
      BY <2>2
    <3>1. CASE p = m
      BY <3>1
    <3>2. CASE p # m
      <4>1. p \in n .. N
        BY <1>1, <1>3, <3>2
      <4>2. QED
        BY <2>1, <3>2, <4>1
    <3>3. QED
      BY <3>1, <3>2
  <2>4. g = [p \in m .. N |-> ScanBody(img, b, g, p)]
    BY <2>3
  <2> HIDE DEF g
  <2>5. QED
    BY <1>1, <1>3, <2>4
<1>4. \A k \in 1 .. N : k \in S
  <2>1. 1 \in Int /\ N \in Int
    BY <1>1
  <2>2. \A n \in 1 + 1 .. N : n \in S => n - 1 \in S
    BY <1>3
  <2> HIDE DEF S, N
  <2>3. QED
    BY <1>2, <2>1, <2>2, DownwardInduction
<1>5. QED
  BY <1>1, <1>4 DEF IsScan

\* The scan starts at sector 1.
LEMMA ScanFunction ==
    ASSUME NEW b \in Bank, NEW img \in Image(b)
    PROVE  \E f : IsScan(img, b, f) /\ Scan(img, b) = f[1]
<1> DEFINE F == CHOOSE f : IsScan(img, b, f)
<1>1. IsScan(img, b, F)
  BY ScanExists
<1>2. Scan(img, b) = F[1]
  BY DEF Scan, IsScan, ScanBody, AddHead, Behind
<1> HIDE DEF F
<1>3. QED
  BY <1>1, <1>2
ScanResult(b) == [tail : 0 .. Sectors[b], heads : SUBSET Nat]

Turn(img, b, f, p) ==
    /\ p = Sectors[b] \/ img[p] = Zero => f[p] = [tail |-> p, heads |-> {}]
    /\ p # Sectors[b] /\ img[p] # Zero /\ ~IsRecord(img, b, p) =>
         f[p] = [tail |-> 0, heads |-> {}]
    /\ p # Sectors[b] /\ IsRecord(img, b, p) /\ f[Behind(img, p)] \in ScanResult(b) =>
         f[p] = [tail |-> f[Behind(img, p)].tail,
                 heads |-> f[Behind(img, p)].heads \union {p}]

\* One turn, for a function that the turns define.
LEMMA ScanTurn ==
    ASSUME NEW b \in Bank, NEW img \in Image(b), NEW f, NEW p \in 1 .. Sectors[b],
           IsScan(img, b, f)
    PROVE  Turn(img, b, f, p)
<1>1. f[p] = ScanBody(img, b, f, p)
  BY DEF IsScan
<1>2. Sectors[b] \in Nat
  BY ConstantsAssumption
<1>3. p # Sectors[b] /\ IsRecord(img, b, p) => img[p] # Zero
  BY <1>2, RecordBounds
<1>4. ASSUME NEW r \in ScanResult(b)
      PROVE  AddHead(r, p) = [tail |-> r.tail, heads |-> r.heads \union {p}]
  <2> DEFINE h == r.heads \union {p}
  <2>1. AddHead(r, p) = [r EXCEPT !.heads = h]
    BY DEF AddHead
  <2> HIDE DEF h
  <2>2. [r EXCEPT !.heads = h] = [tail |-> r.tail, heads |-> h]
    BY DEF ScanResult
  <2>3. QED
    BY <2>1, <2>2 DEF h
<1>5. QED
  BY <1>1, <1>3, <1>4 DEF ScanBody, Turn

\* A log whose first record is taken away, and one that gets a record in front.
LEMMA LogSplit ==
    ASSUME NEW b \in Bank, NEW img \in Image(b), NEW k \in 1 .. Sectors[b] - 1,
           IsRecord(img, b, k), NEW t \in Nat
    PROVE  /\ \A H : LogFrom(img, b, k, H, t) /\ k # t =>
                LogFrom(img, b, Behind(img, k), H \ {k}, t) /\ k \in H
           /\ \A H : LogFrom(img, b, Behind(img, k), H, t) =>
                LogFrom(img, b, k, H \union {k}, t)
<1>1. Sectors[b] \in Nat /\ Behind(img, k) \in k + 1 .. Sectors[b]
  BY RecordBounds, ConstantsAssumption
<1>2. ASSUME NEW H, LogFrom(img, b, k, H, t), k # t
      PROVE  LogFrom(img, b, Behind(img, k), H \ {k}, t) /\ k \in H
  <2>1. Chain(img, b, k, H, t) /\ k \in H
    BY <1>2 DEF LogFrom, Chain
  <2>2. H \ {k} \subseteq Behind(img, k) .. t - 1
    BY <1>1, <2>1 DEF Chain
  <2>3. Behind(img, k) \in (H \ {k}) \union {t}
    BY <1>1, <2>1 DEF Chain
  <2>4. \A p \in H \ {k} : Behind(img, p) \in (H \ {k}) \union {t}
    <3> SUFFICES ASSUME NEW p \in H \ {k} PROVE Behind(img, p) # k
      BY <2>1 DEF Chain
    <3>1. p \in k + 1 .. t - 1 /\ IsRecord(img, b, p) /\ t <= Sectors[b]
      BY <1>2, <2>1 DEF Chain, LogFrom
    <3>2. p \in 1 .. Sectors[b] - 1
      BY <1>1, <3>1
    <3>3. QED
      BY <1>1, <3>1, <3>2, RecordBounds
  <2>5. Chain(img, b, Behind(img, k), H \ {k}, t)
    BY <2>1, <2>2, <2>3, <2>4 DEF Chain
  <2>6. QED
    BY <1>2, <2>1, <2>5 DEF LogFrom
<1>3. ASSUME NEW H, LogFrom(img, b, Behind(img, k), H, t)
      PROVE  LogFrom(img, b, k, H \union {k}, t)
  <2>1. Chain(img, b, Behind(img, k), H, t)
    BY <1>3 DEF LogFrom
  <2>2. H \union {k} \subseteq k .. t - 1
    BY <1>1, <2>1 DEF Chain
  <2>3. \A q \in H \union {t} : Behind(img, k) <= q
    BY <1>1, <2>1 DEF Chain
  <2>4. \A p \in H \union {k} : \A q \in H \union {k} \union {t} :
          p < q => Behind(img, p) <= q
    BY <1>1, <2>1, <2>2, <2>3 DEF Chain
  <2>5. Chain(img, b, k, H \union {k}, t)
    BY <2>1, <2>2, <2>4 DEF Chain
  <2>6. QED
    BY <1>3, <2>5 DEF LogFrom
<1>4. QED
  BY <1>2, <1>3

\* A scan that reports a tail has followed a log to its end.
LEMMA ScanLog ==
    ASSUME NEW b \in Bank, NEW img \in Image(b)
    PROVE  /\ Scan(img, b) \in ScanResult(b)
           /\ Scan(img, b).tail # 0 =>
                LogFrom(img, b, 1, Scan(img, b).heads, Scan(img, b).tail)
<1> DEFINE N == Sectors[b]
<1>1. N \in Nat /\ N >= 2
  BY ConstantsAssumption
<1>2. PICK f : IsScan(img, b, f) /\ Scan(img, b) = f[1]
  BY ScanFunction
<1> DEFINE S == {k \in 1 .. N : /\ f[k] \in ScanResult(b)
                                /\ f[k].tail # 0 => LogFrom(img, b, k, f[k].heads, f[k].tail)}
<1>3. ASSUME NEW k \in 1 .. N, \A m \in k + 1 .. N : m \in S
      PROVE  k \in S
  <2>0. Turn(img, b, f, k)
    BY <1>2, ScanTurn
  <2>1. CASE f[k] = [tail |-> k, heads |-> {}] /\ (k # N => img[k] = Zero)
    <3>1. f[k] \in ScanResult(b)
      BY <1>1, <2>1 DEF ScanResult
    <3>2. LogFrom(img, b, k, {}, k)
      BY <1>1, <2>1 DEF LogFrom, Chain
    <3>3. QED
      BY <2>1, <3>1, <3>2
  <2>2. CASE k # N /\ IsRecord(img, b, k)
    <3> DEFINE q == Behind(img, k)
               r == f[q]
    <3>1. k \in 1 .. N - 1 /\ q \in k + 1 .. N
      BY <1>1, <2>2, RecordBounds
    <3>2. q \in S
      BY <1>3, <3>1
    <3>3. r \in ScanResult(b)
      BY <3>2
    <3>4. f[k] = [tail |-> r.tail, heads |-> r.heads \union {k}]
      BY <2>0, <2>2, <3>3 DEF Turn
    <3>5. f[k] \in ScanResult(b)
      <4> HIDE DEF r
      <4> QED BY <1>1, <3>3, <3>4 DEF ScanResult
    <3>6. r.tail \in Nat
      BY <3>3 DEF ScanResult
    <3>7. ASSUME r.tail # 0 PROVE LogFrom(img, b, k, r.heads \union {k}, r.tail)
      <4>1. LogFrom(img, b, q, r.heads, r.tail)
        BY <3>2, <3>7
      <4> HIDE DEF r
      <4>2. QED
        BY <2>2, <3>1, <3>6, <4>1, LogSplit
    <3> HIDE DEF r
    <3>8. QED
      BY <3>4, <3>5, <3>7
  <2>3. CASE k # N /\ img[k] # Zero /\ ~IsRecord(img, b, k)
    <3>1. f[k] = [tail |-> 0, heads |-> {}]
      BY <2>0, <2>3 DEF Turn
    <3>2. QED
      BY <1>1, <3>1 DEF ScanResult
  <2>4. QED
    BY <2>0, <2>1, <2>2, <2>3 DEF Turn
<1>4. \A k \in 1 .. N : k \in S
  <2>1. 1 \in Int /\ N \in Int
    BY <1>1
  <2> HIDE DEF S, N
  <2>2. QED
    BY <1>3, <2>1, StrongDownwardInduction
<1>5. QED
  BY <1>1, <1>2, <1>4

\* The scan finds the log that is there.
LEMMA LogScan ==
    ASSUME NEW b \in Bank, NEW img \in Image(b), NEW H, NEW t,
           LogFrom(img, b, 1, H, t)
    PROVE  Scan(img, b) = [tail |-> t, heads |-> H]
<1> DEFINE N == Sectors[b]
<1>1. N \in Nat /\ N >= 2 /\ t \in 1 .. N
  BY ConstantsAssumption DEF LogFrom
<1>2. PICK f : IsScan(img, b, f) /\ Scan(img, b) = f[1]
  BY ScanFunction
<1> DEFINE S == {k \in 1 .. N : \A G \in SUBSET Nat :
                    LogFrom(img, b, k, G, t) => f[k] = [tail |-> t, heads |-> G]}
<1>3. ASSUME NEW k \in 1 .. N, \A m \in k + 1 .. N : m \in S
      PROVE  k \in S
  <2> SUFFICES ASSUME NEW G \in SUBSET Nat, LogFrom(img, b, k, G, t)
               PROVE  f[k] = [tail |-> t, heads |-> G]
    OBVIOUS
  <2>0. Turn(img, b, f, k)
    BY <1>2, ScanTurn
  <2>1. CASE k = t
    <3>1. G = {}
      BY <1>1, <2>1 DEF LogFrom, Chain
    <3>2. k # N => img[k] = Zero
      BY <1>1, <2>1 DEF LogFrom
    <3>3. QED
      BY <2>0, <2>1, <3>1, <3>2 DEF Turn
  <2>2. CASE k # t
    <3> DEFINE q == Behind(img, k)
               K == G \ {k}
    <3>1. k \in G /\ k \in 1 .. N - 1 /\ IsRecord(img, b, k)
      BY <1>1, <2>2 DEF LogFrom, Chain
    <3>2. q \in k + 1 .. N
      BY <3>1, RecordBounds
    <3>3. LogFrom(img, b, q, K, t)
      BY <1>1, <2>2, <3>1, LogSplit
    <3>4. f[q] = [tail |-> t, heads |-> K]
      BY <1>3, <3>2, <3>3
    <3> HIDE DEF K
    <3>5. f[q] \in ScanResult(b)
      BY <1>1, <3>4 DEF ScanResult, K
    <3>6. k # N
      BY <1>1, <3>1
    <3>7. f[k] = [tail |-> f[q].tail, heads |-> f[q].heads \union {k}]
      BY <2>0, <3>1, <3>5, <3>6 DEF Turn
    <3>8. f[k] = [tail |-> t, heads |-> K \union {k}]
      BY <3>4, <3>7
    <3>9. K \union {k} = G
      BY <3>1 DEF K
    <3>10. QED
      BY <3>8, <3>9
  <2>3. QED
    BY <2>1, <2>2
<1>4. \A k \in 1 .. N : k \in S
  <2>1. 1 \in Int /\ N \in Int
    BY <1>1
  <2> HIDE DEF S, N
  <2>2. QED
    BY <1>3, <2>1, StrongDownwardInduction
<1>5. H \in SUBSET Nat
  BY <1>1 DEF LogFrom, Chain
<1>6. QED
  BY <1>1, <1>2, <1>4, <1>5
-----------------------------------------------------------------------------
(* Logs whose files are intact, and what they show.                         *)

\* The records at H, from sector 1 up to t, each file with its data.
GoodChain(img, b, H, t) ==
    /\ t \in 1 .. Sectors[b]
    /\ Chain(img, b, 1, H, t)
    /\ \A p \in H : img[p].t = "file" => Verify(img, p)

GoodLog(img, b, H, t) ==
    GoodChain(img, b, H, t) /\ (t < Sectors[b] => img[t] = Zero)

\* Where the records of a chain are, and where their data is.
LEMMA ChainRecords ==
    ASSUME NEW b \in Bank, NEW img \in Image(b), NEW H, NEW t, GoodChain(img, b, H, t)
    PROVE  /\ Sectors[b] \in Nat /\ t \in 1 .. Sectors[b] /\ H \subseteq 1 .. t - 1
           /\ \A p \in H :
                /\ p \in 1 .. Sectors[b] - 1 /\ p \in Sector(b)
                /\ IsRecord(img, b, p)
                /\ RecordBlocks(img[p]) \in Nat
                /\ Behind(img, p) \in p + 1 .. t
                /\ img[p].t \in {"file", "del"}
                /\ img[p].name \in Names
                /\ img[p].t = "file" => img[p].file \in Files
<1>1. Sectors[b] \in Nat /\ t \in 1 .. Sectors[b]
  BY ConstantsAssumption DEF GoodChain
<1>2. H \subseteq 1 .. t - 1
  BY DEF GoodChain, Chain
<1>3. ASSUME NEW p \in H
      PROVE  /\ p \in 1 .. Sectors[b] - 1 /\ p \in Sector(b)
             /\ IsRecord(img, b, p)
             /\ Behind(img, p) \in H \union {t}
  BY <1>1, <1>2 DEF GoodChain, Chain, Sector
<1>4. ASSUME NEW p \in H
      PROVE  Behind(img, p) \in p + 1 .. t
  <2>1. Behind(img, p) \in p + 1 .. Sectors[b]
    BY <1>3, RecordBounds
  <2>2. Behind(img, p) <= t
    <3>1. \A q \in H \union {t} : q <= t
      BY <1>1, <1>2
    <3>2. QED
      BY <1>3, <3>1
  <2>3. QED
    BY <1>1, <1>3, <2>1, <2>2
<1>5. QED
  BY <1>1, <1>2, <1>3, <1>4, RecordBounds

\* The data of a file lies between its header and the next record.
LEMMA DataSectors ==
    ASSUME NEW b \in Bank, NEW img \in Image(b), NEW p \in 1 .. Sectors[b] - 1,
           IsRecord(img, b, p), img[p].t = "file",
           NEW j \in 0 .. Blocks[img[p].file] - 1
    PROVE  p + 1 + j \in p + 1 .. Behind(img, p) - 1 /\ p + 1 + j \in Sector(b)
<1>1. /\ img[p].file \in Files /\ Behind(img, p) \in p + 1 .. Sectors[b]
      /\ Sectors[b] \in Nat
  BY RecordBounds, ConstantsAssumption
<1>2. Blocks[img[p].file] \in Nat
  BY <1>1, ConstantsAssumption
<1>3. Behind(img, p) = p + 1 + Blocks[img[p].file]
  BY DEF Behind, RecordBlocks
<1>4. QED
  BY <1>1, <1>2, <1>3 DEF Sector

\* A chain is not affected by the sectors behind it.
LEMMA ChainPrefix ==
    ASSUME NEW b \in Bank, NEW f \in Image(b), NEW g \in Image(b), NEW H, NEW t,
           GoodChain(f, b, H, t), \A s \in 1 .. t - 1 : f[s] = g[s]
    PROVE  GoodChain(g, b, H, t) /\ \A p \in H : f[p] = g[p]
<1>1. /\ Sectors[b] \in Nat /\ t \in 1 .. Sectors[b] /\ H \subseteq 1 .. t - 1
      /\ \A p \in H : /\ p \in 1 .. Sectors[b] - 1 /\ IsRecord(f, b, p)
                       /\ Behind(f, p) \in p + 1 .. t
  BY ChainRecords
<1>2. \A p \in H : f[p] = g[p]
  BY <1>1
<1>3. \A p \in H : IsRecord(g, b, p) /\ Behind(g, p) = Behind(f, p)
  BY <1>1, <1>2 DEF IsRecord, Behind
<1>4. Chain(g, b, 1, H, t)
  BY <1>3 DEF GoodChain, Chain
<1>5. ASSUME NEW p \in H, g[p].t = "file" PROVE Verify(g, p)
  <2>1. Verify(f, p) /\ f[p].t = "file"
    BY <1>2, <1>5 DEF GoodChain
  <2> SUFFICES ASSUME NEW j \in 0 .. Blocks[g[p].file] - 1
               PROVE  g[p + 1 + j] = Data(g[p].file, j)
    BY DEF Verify
  <2>2. j \in 0 .. Blocks[f[p].file] - 1
    BY <1>2
  <2>3. p + 1 + j \in 1 .. t - 1
    BY <1>1, <2>1, <2>2, DataSectors
  <2>4. f[p + 1 + j] = Data(f[p].file, j)
    BY <2>1, <2>2 DEF Verify
  <2>5. QED
    BY <1>2, <2>3, <2>4
<1>6. QED
  BY <1>1, <1>2, <1>4, <1>5 DEF GoodChain

\* From one record of a chain to the next.
LEMMA ChainNext ==
    ASSUME NEW b \in Bank, NEW img \in Image(b), NEW H, NEW t, GoodChain(img, b, H, t),
           NEW p \in H
    PROVE  /\ Behind(img, p) \in H \union {t}
           /\ \A q \in H : q < Behind(img, p) <=> q < p \/ q = p
<1>1. /\ t \in Nat /\ H \subseteq Nat
      /\ Behind(img, p) \in p + 1 .. t /\ p \in Nat
  BY ChainRecords
<1>2. /\ Behind(img, p) \in H \union {t}
      /\ \A q \in H : p < q => Behind(img, p) <= q
  BY DEF GoodChain, Chain
<1> DEFINE e == Behind(img, p)
<1> HIDE DEF e
<1>3. e \in Nat /\ e > p /\ \A q \in H : p < q => e <= q
  BY <1>1, <1>2 DEF e
<1>4. ASSUME NEW q \in H PROVE q < e <=> q < p \/ q = p
  BY <1>1, <1>3
<1>5. QED
  BY <1>2, <1>4 DEF e

\* A record behind a chain makes it longer.
LEMMA ChainExtend ==
    ASSUME NEW b \in Bank, NEW img \in Image(b), NEW H, NEW t, GoodChain(img, b, H, t),
           t < Sectors[b], IsRecord(img, b, t), img[t].t = "file" => Verify(img, t)
    PROVE  GoodChain(img, b, H \union {t}, Behind(img, t))
<1>1. /\ Sectors[b] \in Nat /\ t \in 1 .. Sectors[b] /\ H \subseteq 1 .. t - 1
      /\ \A p \in H : Behind(img, p) \in p + 1 .. t
  BY ChainRecords
<1>2. t \in 1 .. Sectors[b] - 1 /\ Behind(img, t) \in t + 1 .. Sectors[b]
  BY <1>1, RecordBounds
<1> DEFINE u == Behind(img, t)
           G == H \union {t}
<1>3. u \in t + 1 .. Sectors[b]
  BY <1>2
<1>4. G \subseteq 1 .. u - 1 /\ 1 \in G \union {u}
  BY <1>1, <1>3 DEF GoodChain, Chain
<1>5. \A p \in G : IsRecord(img, b, p) /\ Behind(img, p) \in G \union {u}
  BY DEF GoodChain, Chain
<1>6. \A p \in G, q \in G \union {u} : p < q => Behind(img, p) <= q
  <2> SUFFICES ASSUME NEW p \in G, NEW q \in G \union {u}, p < q
               PROVE  Behind(img, p) <= q
    OBVIOUS
  <2>1. CASE p = t
    <3>1. q = u
      BY <1>1, <2>1
    <3>2. QED
      BY <1>3, <2>1, <3>1
  <2>2. CASE p \in H
    <3>1. CASE q = u
      <4> HIDE DEF u
      <4> QED BY <1>1, <1>3, <2>2, <3>1
    <3>2. CASE q \in H \union {t}
      BY <2>2, <3>2 DEF GoodChain, Chain
    <3>3. QED
      BY <3>1, <3>2
  <2>3. QED
    BY <2>1, <2>2
<1>7. Chain(img, b, 1, G, u)
  <2> HIDE DEF u, G
  <2> QED BY <1>4, <1>5, <1>6 DEF Chain
<1>8. QED
  BY <1>1, <1>3, <1>7 DEF GoodChain

\* p is the last of the records of n.
IsLast(img, H, n, p) ==
    /\ p \in H /\ img[p].name = n
    /\ \A q \in H : img[q].name = n => q <= p

\* The latest record of a name is the last one; 0 means that there is none.
LEMMA LatestIsLast ==
    ASSUME NEW img, NEW n, NEW N \in Nat, NEW H \in SUBSET (1 .. N)
    PROVE  /\ LatestOf(img, H, n) = 0 <=> \A p \in H : img[p].name # n
           /\ LatestOf(img, H, n) # 0 => IsLast(img, H, n, LatestOf(img, H, n))
           /\ \A p : IsLast(img, H, n, p) => LatestOf(img, H, n) = p
<1> DEFINE K == {p \in H : img[p].name = n}
<1>1. LatestOf(img, H, n) = IF K = {} THEN 0 ELSE Max(K)
  BY DEF LatestOf
<1>2. \A y \in H : y \in Nat /\ y # 0 /\ y <= N
  OBVIOUS
<1>3. K \subseteq Nat /\ \A y \in K : y <= N
  BY <1>2
<1>4. K # {} => Max(K) \in K /\ \A y \in K : y <= Max(K)
  <2> HIDE DEF K
  <2> QED BY <1>3, MaxIsGreatest
<1> DEFINE m == Max(K)
<1>5. CASE K = {}
  BY <1>1, <1>5 DEF IsLast
<1>6. CASE K # {}
  <2>1. m \in H /\ img[m].name = n /\ \A y \in K : y <= m
    BY <1>4, <1>6
  <2>2. LatestOf(img, H, n) = m
    BY <1>1, <1>6
  <2> HIDE DEF m
  <2>3. m # 0 /\ m \in Nat
    BY <1>2, <2>1
  <2>4. IsLast(img, H, n, m)
    BY <2>1 DEF IsLast
  <2>5. ASSUME NEW p, IsLast(img, H, n, p) PROVE p = m
    <3>1. p \in K /\ p \in Nat /\ m <= p
      BY <1>2, <2>1, <2>5 DEF IsLast
    <3>2. QED
      BY <2>1, <2>3, <3>1
  <2>6. QED
    BY <2>1, <2>2, <2>3, <2>4, <2>5
<1>7. QED
  BY <1>5, <1>6
\* The same records are stored under the same names.
LEMMA StoredSame ==
    ASSUME NEW f, NEW g, NEW H, \A p \in H : f[p] = g[p], NEW n,
           NEW N \in Nat, H \subseteq 1 .. N
    PROVE  Stored(f, H, n) = Stored(g, H, n)
<1>1. {p \in H : f[p].name = n} = {p \in H : g[p].name = n}
  OBVIOUS
<1>2. LatestOf(f, H, n) = LatestOf(g, H, n)
  BY <1>1 DEF LatestOf
<1>3. LatestOf(f, H, n) # 0 => LatestOf(f, H, n) \in H
  BY LatestIsLast DEF IsLast
<1>4. QED
  BY <1>2, <1>3 DEF Stored

RecordContent(v) == IF v.t = "del" THEN Deleted ELSE v.file

\* The records at G are the ones at H and one behind them.
Longer(G, H, t) == t \in Nat \ {0} /\ H \subseteq 1 .. t - 1 /\ G = H \union {t}

\* A record at the end of the log is the latest of its name.
LEMMA StoredAppend ==
    ASSUME NEW img, NEW t, NEW H, NEW G, Longer(G, H, t), NEW n
    PROVE  /\ img[t].name = n => Stored(img, G, n) = RecordContent(img[t])
           /\ img[t].name # n => Stored(img, G, n) = Stored(img, H, n)
<1>1. /\ t \in Nat /\ t - 1 \in Nat /\ G = H \union {t}
      /\ G \in SUBSET (1 .. t) /\ H \in SUBSET (1 .. t - 1)
  BY DEF Longer
<1>2. CASE img[t].name = n
  <2>1. IsLast(img, G, n, t)
    BY <1>1, <1>2 DEF IsLast
  <2>2. LatestOf(img, G, n) = t
    BY <1>1, <2>1, LatestIsLast
  <2>3. QED
    BY <1>2, <2>2 DEF Stored, RecordContent, Longer
<1>3. CASE img[t].name # n
  <2>1. {p \in G : img[p].name = n} = {p \in H : img[p].name = n}
    BY <1>1, <1>3
  <2>2. LatestOf(img, G, n) = LatestOf(img, H, n)
    BY <2>1 DEF LatestOf
  <2>3. QED
    BY <1>3, <2>2 DEF Stored
<1>4. QED
  BY <1>2, <1>3

\* What is stored under a name has the type of a content, and is not damaged.
LEMMA StoredType ==
    ASSUME NEW b \in Bank, NEW img \in Image(b), NEW H, NEW t, GoodChain(img, b, H, t),
           NEW n
    PROVE  /\ Stored(img, H, n) \in Files \union {Absent, Deleted}
           /\ Content(img, H, n) = Stored(img, H, n)
<1> DEFINE p == LatestOf(img, H, n)
<1>1. t - 1 \in Nat /\ H \in SUBSET (1 .. t - 1)
  BY ChainRecords
<1>2. CASE p = 0
  BY <1>2 DEF Stored, Content
<1>3. CASE p # 0
  <2>1. p \in H
    BY <1>1, <1>3, LatestIsLast DEF IsLast
  <2>2. /\ img[p].t \in {"file", "del"} /\ (img[p].t = "file" => img[p].file \in Files)
        /\ (img[p].t = "file" => Verify(img, p))
    BY <2>1, ChainRecords DEF GoodChain
  <2>3. QED
    BY <1>3, <2>2 DEF Stored, Content
<1>4. QED
  BY <1>2, <1>3

\* The scan of a good log, and what it shows.
LEMMA GoodLogScan ==
    ASSUME NEW b \in Bank, NEW img \in Image(b), NEW H, NEW t, GoodLog(img, b, H, t)
    PROVE  /\ Scan(img, b).tail = t /\ Scan(img, b).heads = H /\ t # 0
           /\ CatalogOf(img, b) = [n \in Names |-> Stored(img, H, n)]
<1>1. LogFrom(img, b, 1, H, t)
  BY DEF GoodLog, GoodChain, LogFrom
<1>2. Scan(img, b) = [tail |-> t, heads |-> H]
  BY <1>1, LogScan
<1>3. QED
  BY <1>1, <1>2 DEF CatalogOf, LogFrom

\* A restart on img finds a bank with a good log.
Reads(img, H, t) ==
    /\ ValidBanks(img) # {}
    /\ GoodLog(img[Selected(img)], Selected(img), H, t)

Disk(img) == \A b \in Bank : img[b] \in Image(b)

\* What such a partition holds: for every name what is stored, nothing damaged.
LEMMA ReadsView ==
    ASSUME NEW img, Disk(img), NEW H, NEW t, Reads(img, H, t)
    PROVE  /\ Selected(img) \in ValidBanks(img) /\ Selected(img) \in Bank
           /\ View(img) = [n \in Names |-> Stored(img[Selected(img)], H, n)]
           /\ CatalogOf(img[Selected(img)], Selected(img)) = View(img)
           /\ View(img) \in [Names -> Files \union {Absent, Deleted}]
<1> DEFINE b == Selected(img)
<1>1. b \in Bank /\ b \in ValidBanks(img)
  BY DEF Selected, SelectBank, ValidBanks, Bank, Reads
<1>2. img[b] \in Image(b) /\ GoodLog(img[b], b, H, t) /\ GoodChain(img[b], b, H, t)
  BY <1>1 DEF Reads, Disk, GoodLog
<1> HIDE DEF b
<1>3. /\ Scan(img[b], b).tail = t /\ Scan(img[b], b).heads = H /\ t # 0
      /\ CatalogOf(img[b], b) = [n \in Names |-> Stored(img[b], H, n)]
  BY <1>1, <1>2, GoodLogScan
<1>4. \A n : /\ Stored(img[b], H, n) \in Files \union {Absent, Deleted}
             /\ Content(img[b], H, n) = Stored(img[b], H, n)
  BY <1>1, <1>2, StoredType
<1>5. View(img) = [n \in Names |-> Content(img[b], H, n)]
  BY <1>3 DEF View, Reads, b
<1>6. View(img) = [n \in Names |-> Stored(img[b], H, n)]
  BY <1>4, <1>5
<1>7. QED
  BY <1>1, <1>3, <1>4, <1>6 DEF b

\* Two disks that agree on the superblocks and on the log hold the same.
LEMMA ReadsSame ==
    ASSUME NEW f, NEW g, Disk(f), Disk(g), NEW H, NEW t, Reads(f, H, t),
           \A b \in Bank : f[b][0] = g[b][0],
           \A s \in Sector(Selected(f)) : s <= t => f[Selected(f)][s] = g[Selected(f)][s]
    PROVE  /\ Reads(g, H, t) /\ View(g) = View(f)
           /\ Selected(g) = Selected(f)
<1> DEFINE b == Selected(f)
<1>1. ValidBanks(f) = ValidBanks(g) /\ b = Selected(g)
  BY DEF ValidBanks, Selected, SelectBank, Bank
<1>2. b \in Bank
  BY DEF Selected, SelectBank, Bank
<1>3. f[b] \in Image(b) /\ g[b] \in Image(b) /\ GoodLog(f[b], b, H, t)
  BY <1>2 DEF Disk, Reads
<1> HIDE DEF b
<1>4. GoodChain(f[b], b, H, t) /\ (t < Sectors[b] => f[b][t] = Zero)
  BY <1>3 DEF GoodLog
<1>5. Sectors[b] \in Nat /\ t \in 1 .. Sectors[b] /\ H \subseteq 1 .. t - 1
  BY <1>2, <1>3, <1>4, ChainRecords
<1>6. \A s \in 1 .. t : s < Sectors[b] => f[b][s] = g[b][s]
  BY <1>5 DEF b, Sector
<1>7. \A s \in 1 .. t - 1 : f[b][s] = g[b][s]
  BY <1>5, <1>6
<1>8. GoodChain(g[b], b, H, t) /\ \A p \in H : f[b][p] = g[b][p]
  BY <1>2, <1>3, <1>4, <1>7, ChainPrefix
<1>9. t < Sectors[b] => g[b][t] = Zero
  BY <1>4, <1>5, <1>6
<1>10. Reads(g, H, t)
  BY <1>1, <1>8, <1>9 DEF Reads, GoodLog
<1>11. \A n : Stored(f[b], H, n) = Stored(g[b], H, n)
  <2>1. t - 1 \in Nat
    BY <1>5
  <2>2. QED
    BY <1>5, <1>8, <2>1, StoredSame
<1>12. /\ View(f) = [n \in Names |-> Stored(f[b], H, n)]
       /\ View(g) = [n \in Names |-> Stored(g[b], H, n)]
  BY <1>1, <1>10, ReadsView DEF b
<1>13. QED
  BY <1>1, <1>10, <1>11, <1>12 DEF b

-----------------------------------------------------------------------------
(* Copying the latest records to another bank.                              *)

\* The records at Q are the latest ones of the records at H before pos, one
\* for each name.
Copies(src, H, dst, Q, pos) ==
    /\ \A q \in Q : \E p \in H :
         p < pos /\ IsLast(src, H, src[p].name, p) /\ dst[q] = src[p]
    /\ \A p \in H :
         p < pos /\ IsLast(src, H, src[p].name, p) => \E q \in Q : dst[q] = src[p]
    /\ \A q, r \in Q : dst[q].name = dst[r].name => q = r

\* The heads of a log that ends before t, and those of one up to u.
Within(H, t, Q, u) ==
    t \in Nat /\ u \in Nat /\ H \subseteq 1 .. t - 1 /\ Q \subseteq 1 .. u

\* A complete copy stores the same under every name.
LEMMA CopyStores ==
    ASSUME NEW src, NEW H, NEW dst, NEW Q, NEW t, NEW u, NEW n,
           Within(H, t, Q, u), Copies(src, H, dst, Q, t)
    PROVE  Stored(dst, Q, n) = Stored(src, H, n)
<1>1. /\ t \in Nat /\ u \in Nat
      /\ H \in SUBSET (1 .. t) /\ Q \in SUBSET (1 .. u) /\ \A p \in H : p < t
  BY DEF Within
<1>2. CASE \A p \in H : src[p].name # n
  <2>1. ASSUME NEW q \in Q PROVE dst[q].name # n
    <3>1. PICK p \in H : dst[q] = src[p]
      BY DEF Copies
    <3>2. QED
      BY <1>2, <3>1
  <2>2. LatestOf(src, H, n) = 0 /\ LatestOf(dst, Q, n) = 0
    BY <1>1, <1>2, <2>1, LatestIsLast
  <2>3. QED
    BY <2>2 DEF Stored
<1>3. CASE \E p \in H : src[p].name = n
  <2> DEFINE p == LatestOf(src, H, n)
  <2>1. p # 0 /\ IsLast(src, H, n, p)
    BY <1>1, <1>3, LatestIsLast
  <2> HIDE DEF p
  <2>2. p \in H /\ p < t /\ src[p].name = n
    BY <1>1, <2>1 DEF IsLast
  <2>3. PICK q \in Q : dst[q] = src[p]
    BY <2>1, <2>2 DEF Copies
  <2>4. dst[q].name = n /\ \A r \in Q : dst[r].name = n => r = q
    BY <2>2, <2>3 DEF Copies
  <2>5. IsLast(dst, Q, n, q)
    <3>1. q \in Nat
      BY <1>1
    <3>2. QED
      BY <2>4, <3>1 DEF IsLast
  <2>6. LatestOf(dst, Q, n) = q /\ q # 0
    <3>1. q # 0
      BY <1>1
    <3>2. LatestOf(dst, Q, n) = q
      BY <1>1, <2>5, LatestIsLast
    <3>3. QED
      BY <3>1, <3>2
  <2>7. QED
    BY <2>1, <2>3, <2>6 DEF Stored, p
<1>4. QED
  BY <1>2, <1>3

\* A record that is not the latest of its name is left behind.
LEMMA CopySkip ==
    ASSUME NEW src, NEW H, NEW dst, NEW Q, NEW pos, NEW end,
           Copies(src, H, dst, Q, pos),
           \A p \in H : p < end <=> p < pos \/ p = pos,
           ~IsLast(src, H, src[pos].name, pos)
    PROVE  Copies(src, H, dst, Q, end)
  BY DEF Copies

\* One that is the latest is copied behind the others.
LEMMA CopyAdd ==
    ASSUME NEW src, NEW H, NEW dst, NEW Q, NEW pos \in H, NEW end, NEW u,
           Copies(src, H, dst, Q, pos), H \subseteq Nat,
           \A p \in H : p < end <=> p < pos \/ p = pos,
           IsLast(src, H, src[pos].name, pos),
           dst[u] = src[pos]
    PROVE  Copies(src, H, dst, Q \union {u}, end)
<1>1. ASSUME NEW q \in Q PROVE dst[q].name # src[pos].name
  <2>1. PICK p \in H : p < pos /\ IsLast(src, H, src[p].name, p) /\ dst[q] = src[p]
    BY DEF Copies
  <2>2. src[p].name = src[pos].name => pos <= p
    BY <2>1 DEF IsLast
  <2>3. QED
    BY <2>1, <2>2
<1>2. \A q, r \in Q \union {u} : dst[q].name = dst[r].name => q = r
  BY <1>1 DEF Copies
<1>3. \A q \in Q \union {u} : \E p \in H :
        p < end /\ IsLast(src, H, src[p].name, p) /\ dst[q] = src[p]
  BY DEF Copies
<1>4. \A p \in H : p < end /\ IsLast(src, H, src[p].name, p) =>
        \E q \in Q \union {u} : dst[q] = src[p]
  BY DEF Copies
<1>5. QED
  BY <1>2, <1>3, <1>4 DEF Copies

\* The copies are not affected by other sectors.
LEMMA CopySame ==
    ASSUME NEW src, NEW H, NEW f, NEW g, NEW Q, NEW pos, \A q \in Q : f[q] = g[q],
           Copies(src, H, f, Q, pos)
    PROVE  Copies(src, H, g, Q, pos)
  BY DEF Copies

-----------------------------------------------------------------------------
(* What the partition holds.                                               *)

\* A disk that a power loss may leave.
Possible(img) ==
    Disk(img) /\ \A b \in Bank : \A s \in Sector(b) : img[b][s] \in media[b][s]

Settled == \A b \in Bank : \A s \in Sector(b) : media[b][s] = {now[b][s]}

\* The log that a restart would find.
NowLog == Scan(now[Selected(now)], Selected(now))

ImageOK(img) ==
    /\ View(img) \in {vol, synced}
    /\ \E H, t : /\ Reads(img, H, t)
                 /\ Selected(img) = Selected(now) => t <= NowLog.tail

\* Each of them is readable and holds the volume, with or without the change
\* that is not flushed yet.
ViewInv ==
    /\ vol = View(now)
    /\ ~flush_supported => synced = vol
    /\ \A img : Possible(img) => ImageOK(img)

\* An append works behind the log, and from a settled disk.
AppendLogInv ==
    /\ op.pc \in {"data", "recv", "term", "order", "header"} =>
         base = Selected(now) /\ op.tail = NowLog.tail
    /\ op.pc = "header" => Settled /\ synced = vol
    /\ op.pc = "commit" => vol[op.name] = op.x /\ ~catalog.valid

\* What was acknowledged, and what a valid catalog lists.
AckInv ==
    /\ \A n \in Names : acked[n] # Unknown => vol[n] = acked[n] /\ synced[n] = acked[n]
    /\ catalog.valid =>
         \A n \in Names : acked[n] # Unknown => catalog.latest[n] = vol[n]

CopyPC == {"check", "copy", "copysector", "gcterm", "gcorder", "super"}

\* The copy in the target holds the latest of the records before pos.
CopiedTo(pos) ==
    \E Q : /\ GoodChain(now[op.target], op.target, Q, op.next)
           /\ Copies(now[base], NowLog.heads, now[op.target], Q, pos)

SourceOK ==
    gen < MaxGen /\ op.tail = NowLog.tail /\ op.need <= Sectors[op.target]

SourceSettled ==
    /\ \A s \in Sector(base) : media[base][s] = {now[base][s]}
    /\ media[op.target][0] = {now[op.target][0]}

\* A compaction reads a settled log and copies what is latest.
CompactLogInv ==
    /\ op.pc \in CopyPC \union {"gcflush"} => SourceOK
    /\ op.pc \in CompactPC \ {"gcflush"} => synced = vol
    /\ op.pc \in CopyPC => SourceSettled
    /\ op.pc \in {"gcflush", "check"} => op.next = 1
    /\ op.pc = "gcflush" => op.pos = 1
    /\ op.pc \in {"check", "copy", "copysector"} =>
         op.pos \in NowLog.heads \union {op.tail}
    /\ op.pc \in {"copy", "copysector"} =>
         (op.next <= Sectors[op.target] => CopiedTo(op.pos))
    /\ op.pc = "copysector" =>
         /\ IsLast(now[base], NowLog.heads, CurrentRecord.name, op.pos)
         /\ \A j \in 0 .. op.i - 1 : op.next + j < Sectors[op.target] =>
              now[op.target][op.next + j] = now[base][op.pos + j]
    /\ op.pc \in {"gcterm", "gcorder", "super"} => CopiedTo(op.tail)
    /\ op.pc \in {"gcorder", "super"} =>
         (op.next < Sectors[op.target] => now[op.target][op.next] = Zero)
    /\ op.pc = "super" => Settled
    /\ op.pc \in {"gccommit", "reselect"} =>
         \A p, q \in Scan(now[op.target], op.target).heads :
           now[op.target][p].name = now[op.target][q].name => p = q

\* The variables that StoreTypeOK leaves open.
HistoryTypeOK ==
    /\ catalog \in [valid : BOOLEAN, latest : [Names -> Contents]]
    /\ faults \in 0 .. MaxFaults
    /\ acked \in [Names -> Contents \union {Unknown}]
    /\ {vol, synced} \subseteq [Names -> Files \union {Absent, Deleted}]

VInv ==
    /\ HistoryTypeOK
    /\ ViewInv
    /\ AppendLogInv
    /\ AckInv
    /\ CompactLogInv
-----------------------------------------------------------------------------
(* The disk now, and what the device may do to it.                          *)

\* A restart now reads the log that NowLog describes.
LEMMA NowReads ==
    ASSUME IInv, ViewInv
    PROVE  /\ Disk(now) /\ Possible(now)
           /\ Reads(now, NowLog.heads, NowLog.tail)
           /\ Selected(now) \in Bank /\ Selected(now) \in ValidBanks(now)
           /\ vol = [n \in Names |-> Stored(now[Selected(now)], NowLog.heads, n)]
           /\ CatalogOf(now[Selected(now)], Selected(now)) = vol
           /\ vol \in [Names -> Files \union {Absent, Deleted}]
<1>1. Disk(now) /\ Possible(now)
  BY DEF IInv, StoreTypeOK, MediaInv, Disk, Possible, Image
<1>2. PICK H, t : Reads(now, H, t)
  BY <1>1 DEF ViewInv, ImageOK
<1>3. Selected(now) \in Bank
  BY DEF Selected, SelectBank, Bank
<1>4. NowLog.tail = t /\ NowLog.heads = H
  <2>1. now[Selected(now)] \in Image(Selected(now))
    BY <1>1, <1>3 DEF Disk
  <2>2. GoodLog(now[Selected(now)], Selected(now), H, t)
    BY <1>2 DEF Reads
  <2>3. QED
    BY <1>3, <2>1, <2>2, GoodLogScan DEF NowLog
<1>5. Reads(now, NowLog.heads, NowLog.tail)
  BY <1>2, <1>4
<1>6. QED
  BY <1>1, <1>3, <1>5, ReadsView DEF ViewInv

\* The tail and the heads of a disk that is read.
LEMMA ReadsLog ==
    ASSUME NEW img, Disk(img), NEW H, NEW t, Reads(img, H, t)
    PROVE  /\ Scan(img[Selected(img)], Selected(img)).tail = t
           /\ Scan(img[Selected(img)], Selected(img)).heads = H
           /\ GoodLog(img[Selected(img)], Selected(img), H, t)
           /\ Selected(img) \in Bank /\ img[Selected(img)] \in Image(Selected(img))
           /\ t \in Nat /\ t >= 1 /\ t <= Sectors[Selected(img)]
           /\ H \subseteq 1 .. t - 1
<1>1. Selected(img) \in Bank
  BY DEF Selected, SelectBank, Bank
<1>2. img[Selected(img)] \in Image(Selected(img))
  BY <1>1 DEF Disk
<1>3. GoodLog(img[Selected(img)], Selected(img), H, t)
  BY DEF Reads
<1>4. t \in 1 .. Sectors[Selected(img)] /\ Sectors[Selected(img)] \in Nat
  BY <1>1, <1>3, ConstantsAssumption DEF GoodLog, GoodChain
<1>5. H \subseteq 1 .. t - 1
  BY <1>3 DEF GoodLog, GoodChain, Chain
<1>6. QED
  BY <1>1, <1>2, <1>3, <1>4, <1>5, GoodLogScan

\* On a settled disk that can be read, a power loss changes nothing.
LEMMA SettledImages ==
    ASSUME Disk(now)', Settled', vol' = View(now)', (~flush_supported => synced = vol)',
           NEW H, NEW t, Reads(now', H, t)
    PROVE  ViewInv'
<1> SUFFICES ASSUME NEW img, Possible(img)' PROVE ImageOK(img)'
  BY DEF ViewInv
<1>1. Disk(now') /\ Disk(img)
  BY DEF Possible, Disk
<1>2. \A b \in Bank : \A s \in Sector(b) : img[b][s] = now'[b][s]
  BY DEF Possible, Settled
<1>3. \A b \in Bank : now'[b][0] = img[b][0]
  BY <1>2, SectorZeroExists DEF SectorZero
<1>4. Selected(now') \in Bank
  BY <1>1, ReadsLog
<1>5. Reads(img, H, t) /\ View(img) = View(now') /\ Selected(img) = Selected(now')
  BY <1>1, <1>2, <1>3, <1>4, ReadsSame
<1>6. Scan(now'[Selected(now')], Selected(now')).tail = t /\ t \in Nat
  BY <1>1, ReadsLog
<1>7. View(img) \in {vol', synced'}
  BY <1>5
<1>8. QED
  BY <1>5, <1>6, <1>7 DEF ImageOK, NowLog

\* Steps that leave the disk and its history alone.
LEMMA DiskSame ==
    ASSUME ViewInv, UNCHANGED disk, flush_supported' = flush_supported
    PROVE  ViewInv' /\ NowLog' = NowLog /\ Selected(now)' = Selected(now)
  BY DEF ViewInv, disk, Possible, ImageOK, NowLog

\* A flush settles the disk.
LEMMA FlushView ==
    ASSUME IInv, ViewInv, now' = now, vol' = vol, synced' = vol,
           media' = [b \in Bank |-> [s \in Sector(b) |-> {now[b][s]}]]
    PROVE  /\ ViewInv' /\ Settled'
           /\ NowLog' = NowLog /\ Selected(now)' = Selected(now)
<1>1. Settled'
  BY FlushEffect DEF IInv, Settled
<1>2. Disk(now') /\ Reads(now', NowLog.heads, NowLog.tail) /\ vol' = View(now')
  BY NowReads DEF ViewInv
<1>3. ViewInv'
  BY <1>1, <1>2, SettledImages DEF Disk
<1>4. QED
  BY <1>1, <1>3 DEF NowLog

\* The sector at s of bank b is not part of any log that a restart would read.
Harmless(b, s) ==
    \A img : Possible(img) /\ Selected(img) = b =>
        b = Selected(now) /\ NowLog.tail < s

\* A write to such a sector changes nothing that can be seen.
LEMMA HarmlessLand ==
    ASSUME IInv, ViewInv, NEW b \in Bank, NEW s \in Nat \ {0}, NEW v \in SectorValue,
           Land(b, s, v), flush_supported' = flush_supported, Harmless(b, s)
    PROVE  /\ ViewInv' /\ vol' = vol /\ synced' = synced
           /\ Selected(now)' = Selected(now) /\ NowLog' = NowLog
<1>1. LandPost(b, s, v)
  BY LandEffect DEF IInv
<1>2. Disk(now')
  BY <1>1 DEF LandPost, Disk, Image
<1>3. \A c \in Bank : now'[c][0] = now[c][0]
  BY <1>1, SectorZeroExists DEF LandPost, SectorZero
<1>4. /\ Disk(now) /\ Possible(now) /\ Reads(now, NowLog.heads, NowLog.tail)
      /\ Selected(now) \in Bank
  BY NowReads
<1>5. \A r \in Sector(Selected(now)) :
        r <= NowLog.tail => now[Selected(now)][r] = now'[Selected(now)][r]
  <2> SUFFICES ASSUME NEW r \in Sector(Selected(now)), r <= NowLog.tail
               PROVE  Selected(now) # b \/ r # s
    BY <1>1, <1>4 DEF LandPost
  <2>1. NowLog.tail \in Nat /\ r \in Nat
    BY <1>4, ReadsLog, ConstantsAssumption DEF Sector
  <2>2. QED
    BY <1>4, <2>1 DEF Harmless
<1>6. /\ Reads(now', NowLog.heads, NowLog.tail) /\ View(now') = View(now)
      /\ Selected(now') = Selected(now)
  BY <1>2, <1>3, <1>4, <1>5, ReadsSame
<1>7. vol' = vol /\ synced' = synced
  BY <1>6 DEF Land, ViewInv
<1>8. NowLog'.tail = NowLog.tail /\ NowLog'.heads = NowLog.heads
  BY <1>2, <1>6, ReadsLog DEF NowLog
<1>9. NowLog' = NowLog
  <2>1. now[Selected(now)] \in Image(Selected(now)) /\ now'[Selected(now)] \in Image(Selected(now))
    BY <1>2, <1>4 DEF Disk
  <2>2. NowLog \in ScanResult(Selected(now)) /\ NowLog' \in ScanResult(Selected(now))
    BY <1>4, <1>6, <2>1, ScanLog DEF NowLog
  <2>3. QED
    BY <1>8, <2>2 DEF ScanResult
<1>10. ASSUME NEW img, Possible(img)' PROVE ImageOK(img)'
  <2> DEFINE old == [c \in Bank |-> [r \in Sector(c) |->
                        IF c = b /\ r = s THEN now[b][s] ELSE img[c][r]]]
  <2>1. /\ \A c \in Bank : old[c] \in [Sector(c) -> SectorValue]
        /\ \A c \in Bank : \A r \in Sector(c) :
             /\ old[c][r] \in media[c][r]
             /\ c # b \/ r # s => old[c][r] = img[c][r]
    <3> SUFFICES ASSUME NEW c \in Bank, NEW r \in Sector(c)
                 PROVE  /\ old[c][r] \in media[c][r] /\ old[c][r] \in SectorValue
                        /\ c # b \/ r # s => old[c][r] = img[c][r]
      OBVIOUS
    <3>1. old[c][r] = IF c = b /\ r = s THEN now[b][s] ELSE img[c][r]
      OBVIOUS
    <3> HIDE DEF old
    <3>2. /\ img[c][r] \in SectorValue /\ img[c][r] \in media'[c][r]
          /\ now[c][r] \in SectorValue /\ now[c][r] \in media[c][r]
      BY <1>10 DEF Possible, Disk, Image, IInv, MediaInv, StoreTypeOK
    <3>3. c # b \/ r # s => media'[c][r] = media[c][r]
      BY <1>1 DEF LandPost
    <3>4. QED
      BY <3>1, <3>2, <3>3
  <2> HIDE DEF old
  <2>2. Possible(old) /\ Disk(old) /\ Disk(img)
    BY <1>10, <2>1 DEF Possible, Disk, Image
  <2>3. PICK H, t : Reads(old, H, t) /\ (Selected(old) = Selected(now) => t <= NowLog.tail)
    BY <2>2 DEF ViewInv, ImageOK
  <2>4. View(old) \in {vol, synced}
    BY <2>2 DEF ViewInv, ImageOK
  <2>5. \A c \in Bank : old[c][0] = img[c][0]
    BY <2>1, SectorZeroExists DEF SectorZero
  <2>6. Selected(old) \in Bank /\ t \in Nat
    BY <2>2, <2>3, ReadsLog
  <2>7. ASSUME NEW r \in Sector(Selected(old)), r <= t
        PROVE  Selected(old) # b \/ r # s
    <3>1. NowLog.tail \in Nat /\ r \in Nat
      BY <1>4, <2>6, ReadsLog, ConstantsAssumption DEF Sector, NowLog
    <3>2. Selected(old) = b => t < s
      BY <2>2, <2>3, <2>6, <3>1 DEF Harmless
    <3>3. QED
      BY <2>6, <2>7, <3>1, <3>2
  <2>8. \A r \in Sector(Selected(old)) :
          r <= t => old[Selected(old)][r] = img[Selected(old)][r]
    BY <2>1, <2>6, <2>7
  <2>9. Reads(img, H, t) /\ View(img) = View(old) /\ Selected(img) = Selected(old)
    BY <2>2, <2>3, <2>5, <2>8, ReadsSame
  <2>10. QED
    BY <1>6, <1>7, <1>9, <2>3, <2>4, <2>9 DEF ImageOK
<1>11. ViewInv'
  BY <1>6, <1>7, <1>10 DEF ViewInv
<1>12. QED
  BY <1>6, <1>7, <1>9, <1>11
-----------------------------------------------------------------------------
(* Parts of the invariant that most steps leave alone.                      *)

USE DEF AppendPC, CompactPC, CopyPC

\* The operation is over.
LEMMA IdleLogs ==
    ASSUME op'.pc = "idle"
    PROVE  AppendLogInv' /\ CompactLogInv'
  BY DEF AppendLogInv, CompactLogInv

\* The volume, the acknowledgements and the catalog do not change.
LEMMA HistorySame ==
    ASSUME HistoryTypeOK, AckInv, UNCHANGED <<vol, synced, acked, catalog>>,
           faults' \in 0 .. MaxFaults
    PROVE  HistoryTypeOK' /\ AckInv'
  BY DEF HistoryTypeOK, AckInv

\* An I/O error is counted.
LEMMA FaultBound ==
    ASSUME HistoryTypeOK
    PROVE  /\ Fault => faults' \in 0 .. MaxFaults
           /\ UNCHANGED faults => faults' \in 0 .. MaxFaults
  BY ConstantsAssumption DEF HistoryTypeOK, Fault

\* The outcomes of a write, and of a flush.
LEMMA WriteOutcome ==
    ASSUME IInv, HistoryTypeOK, NEW b, NEW s, NEW v, NEW next, Write(b, s, v, next)
    PROVE  /\ faults' \in 0 .. MaxFaults
           /\ Done(-1).pc = "idle"
           /\ \/ Land(b, s, v) /\ op' = next
              \/ Land(b, s, v) /\ op' = Done(-1)
              \/ UNCHANGED disk /\ op' = Done(-1)
<1>1. Done(-1).pc = "idle"
  BY DoneIdle DEF IInv, StoreTypeOK
<1>2. QED
  BY <1>1, FaultBound DEF Write

LEMMA FlushOutcome ==
    ASSUME IInv, HistoryTypeOK, NEW next, NEW code \in Int, Flush(next, code)
    PROVE  /\ faults' \in 0 .. MaxFaults
           /\ Done(code).pc = "idle"
           /\ \/ /\ media' = [b \in Bank |-> [s \in Sector(b) |-> {now[b][s]}]]
                 /\ synced' = vol /\ op' = next /\ UNCHANGED <<now, vol>>
              \/ UNCHANGED disk /\ op' = Done(code)
<1>1. Done(code).pc = "idle"
  BY DoneIdle DEF IInv, StoreTypeOK
<1>2. QED
  BY <1>1, FaultBound DEF Flush

\* Nothing but the operation and its globals changes.
LEMMA QuietInv ==
    ASSUME VInv, UNCHANGED <<disk, flush_supported, acked, catalog>>,
           faults' \in 0 .. MaxFaults, AppendLogInv', CompactLogInv'
    PROVE  VInv'
<1>1. ViewInv'
  BY DiskSame DEF VInv
<1>2. HistoryTypeOK' /\ AckInv'
  BY HistorySame DEF VInv, disk
<1>3. QED
  BY <1>1, <1>2 DEF VInv

-----------------------------------------------------------------------------
(* The steps of an append.                                                  *)

\* The operation before the header is written, as AppendLogInv sees it.
BeforeHeader(o) ==
    o.pc \in {"data", "recv", "term", "order"} /\ o.tail = op.tail

\* A sector behind the tail is written.
LEMMA AppendWriteView ==
    ASSUME IInv, VInv, op.pc \in {"data", "recv", "term"},
           NEW k \in Nat, NEW v \in SectorValue, NEW next, BeforeHeader(next),
           Write(base, op.tail + 1 + k, v, next),
           UNCHANGED <<flush_supported, ram, acked>>
    PROVE  VInv' /\ UNCHANGED <<vol, synced>>
<1>1. op.tail \in Nat /\ base \in Bank
  BY AppendFacts DEF AppendOp
<1>2. op.tail + 1 + k \in Nat \ {0} /\ op.tail < op.tail + 1 + k
  BY <1>1
<1> DEFINE s == op.tail + 1 + k
<1>3. /\ faults' \in 0 .. MaxFaults /\ Done(-1).pc = "idle"
      /\ \/ Land(base, s, v) /\ op' = next
         \/ Land(base, s, v) /\ op' = Done(-1)
         \/ UNCHANGED disk /\ op' = Done(-1)
  BY WriteOutcome DEF VInv
<1>4. base = Selected(now) /\ op.tail = NowLog.tail
  BY DEF VInv, AppendLogInv
<1>5. Harmless(base, s)
  BY <1>2, <1>4 DEF Harmless
<1>6. catalog' = catalog /\ acked' = acked /\ base' = base
  BY DEF ram
<1>7. CASE UNCHANGED disk /\ op' = Done(-1)
  <2>1. VInv'
    BY <1>3, <1>6, <1>7, IdleLogs, QuietInv
  <2>2. QED
    BY <1>7, <2>1 DEF disk
<1>8. CASE Land(base, s, v)
  <2>1. /\ ViewInv' /\ vol' = vol /\ synced' = synced
        /\ Selected(now)' = Selected(now) /\ NowLog' = NowLog
    <3> HIDE DEF s
    <3> QED BY <1>1, <1>2, <1>5, <1>8, HarmlessLand DEF VInv, s
  <2>2. HistoryTypeOK' /\ AckInv'
    BY <1>3, <1>6, <2>1, HistorySame DEF VInv
  <2>3. CASE op' = next
    <3>1. AppendLogInv'
      BY <1>4, <1>6, <2>1, <2>3 DEF AppendLogInv, BeforeHeader
    <3>2. CompactLogInv'
      BY <2>3 DEF CompactLogInv, BeforeHeader
    <3>3. QED
      BY <2>1, <2>2, <3>1, <3>2 DEF VInv
  <2>4. CASE op' = Done(-1)
    BY <1>3, <2>1, <2>2, <2>4, IdleLogs DEF VInv
  <2>5. QED
    BY <1>3, <2>3, <2>4, <1>8
<1>9. QED
  BY <1>3, <1>7, <1>8

LEMMA PutBlockView ==
    ASSUME IInv, VInv, PutBlock
    PROVE  VInv' /\ UNCHANGED <<vol, synced>>
<1> DEFINE j == op.i + 1
           q == IF op.i + 1 = ContentBlocks(op.x) THEN "term" ELSE "data"
           next == [op EXCEPT !.i = j, !.pc = q]
<1>1. op.pc = "data" /\ op \in AppendOp /\ op.x \in Files
  BY AppendFacts DEF PutBlock, IInv, AppendInv
<1>2. op.i \in Nat /\ Data(op.x, op.i) \in SectorValue
  BY <1>1 DEF AppendOp, Data, SectorValue
<1>3. BeforeHeader(next)
  <2>1. next = [op EXCEPT !.i = j, !.pc = q] /\ q \in {"term", "data"}
    OBVIOUS
  <2> HIDE DEF j, q, next
  <2>2. next.pc = q /\ next.tail = op.tail
    BY <1>1, <2>1 DEF AppendOp
  <2>3. QED
    BY <2>1, <2>2 DEF BeforeHeader
<1>4. /\ Write(base, op.tail + 1 + op.i, Data(op.x, op.i), next)
      /\ UNCHANGED <<flush_supported, ram, acked>>
  BY DEF PutBlock
<1> HIDE DEF next
<1>5. QED
  BY <1>1, <1>2, <1>3, <1>4, AppendWriteView

LEMMA StreamWriteView ==
    ASSUME IInv, VInv, StreamWrite
    PROVE  VInv' /\ UNCHANGED <<vol, synced>>
<1>1. op.pc = "recv" /\ op \in AppendOp /\ op.x \in Files
  BY AppendFacts DEF StreamWrite, IInv, AppendInv
<1>2. op.i \in Nat /\ op.intact \in BOOLEAN
      /\ Data(op.x, op.i) \in SectorValue /\ Corrupt \in SectorValue
  BY <1>1 DEF AppendOp, Data, SectorValue
<1>3. PICK good \in BOOLEAN :
        Write(base, op.tail + 1 + op.i,
              IF good THEN Data(op.x, op.i) ELSE Corrupt,
              [op EXCEPT !.i = @ + 1, !.intact = @ /\ good])
  BY DEF StreamWrite
<1> DEFINE v == IF good THEN Data(op.x, op.i) ELSE Corrupt
           j == op.i + 1
           g == op.intact /\ good
           next == [op EXCEPT !.i = j, !.intact = g]
<1>4. v \in SectorValue
  BY <1>2
<1>5. BeforeHeader(next)
  <2>1. next = [op EXCEPT !.i = j, !.intact = g]
    OBVIOUS
  <2> HIDE DEF j, g, next
  <2>2. next.pc = op.pc /\ next.tail = op.tail
    BY <1>1, <2>1 DEF AppendOp
  <2>3. QED
    BY <1>1, <2>2 DEF BeforeHeader
<1>6. /\ Write(base, op.tail + 1 + op.i, v, next)
      /\ UNCHANGED <<flush_supported, ram, acked>>
  BY <1>3 DEF StreamWrite
<1> HIDE DEF next, v
<1>7. QED
  BY <1>1, <1>2, <1>4, <1>5, <1>6, AppendWriteView

\* A step of an append that leaves the disk alone and does not reach the header.
LEMMA AppendQuietView ==
    ASSUME IInv, VInv, op.pc \in {"data", "recv", "term"},
           op'.pc = "idle" \/ BeforeHeader(op'),
           UNCHANGED <<disk, flush_supported, ram, faults, acked>>
    PROVE  VInv' /\ UNCHANGED <<vol, synced>>
<1>1. catalog' = catalog /\ base' = base /\ UNCHANGED <<vol, synced>>
  BY DEF ram, disk
<1>2. faults' \in 0 .. MaxFaults
  BY FaultBound DEF VInv
<1>3. CASE op'.pc = "idle"
  BY <1>1, <1>2, <1>3, IdleLogs, QuietInv
<1>4. CASE BeforeHeader(op')
  <2>1. CompactLogInv'
    BY <1>4 DEF CompactLogInv, BeforeHeader
  <2>2. NowLog' = NowLog /\ Selected(now)' = Selected(now)
    BY DiskSame DEF VInv
  <2>3. AppendLogInv'
    BY <1>1, <1>4, <2>2 DEF AppendLogInv, BeforeHeader, VInv
  <2>4. QED
    BY <1>1, <1>2, <2>1, <2>3, QuietInv
<1>5. QED
  BY <1>3, <1>4

LEMMA StreamAbandonView ==
    ASSUME IInv, VInv, StreamAbandon
    PROVE  VInv'
<1>1. op'.pc = "idle"
  BY DoneIdle DEF StreamAbandon, IInv, StoreTypeOK
<1>2. QED
  BY <1>1, AppendQuietView DEF StreamAbandon

LEMMA StreamFinishView ==
    ASSUME IInv, VInv, StreamFinish
    PROVE  VInv' /\ UNCHANGED <<vol, synced>>
<1> DEFINE c == ContentBlocks(op.x)
           next == [op EXCEPT !.pc = "term", !.i = c]
<1>1. op.pc = "recv" /\ op \in AppendOp /\ op.x \in Files
  BY AppendFacts DEF StreamFinish, IInv, AppendInv
<1>2. op.i \in Nat /\ Data(op.x, op.i) \in SectorValue
  BY <1>1 DEF AppendOp, Data, SectorValue
<1>3. BeforeHeader(next)
  <2>1. next = [op EXCEPT !.pc = "term", !.i = c]
    OBVIOUS
  <2> HIDE DEF c, next
  <2>2. next.pc = "term" /\ next.tail = op.tail
    BY <1>1, <2>1 DEF AppendOp
  <2>3. QED
    BY <2>2 DEF BeforeHeader
<1>4. UNCHANGED <<flush_supported, ram, acked>>
  BY DEF StreamFinish
<1>5. \/ op' = Done(-4) /\ UNCHANGED <<disk, faults>>
      \/ Write(base, op.tail + 1 + op.i, Data(op.x, op.i), next)
      \/ op' = next /\ UNCHANGED <<disk, faults>>
  BY DEF StreamFinish
<1>6. Done(-4).pc = "idle"
  BY DoneIdle DEF IInv, StoreTypeOK
<1> HIDE DEF next
<1>7. QED
  BY <1>1, <1>2, <1>3, <1>4, <1>5, <1>6, AppendWriteView, AppendQuietView

LEMMA TerminateLogView ==
    ASSUME IInv, VInv, TerminateLog
    PROVE  VInv' /\ UNCHANGED <<vol, synced>>
<1> DEFINE next == [op EXCEPT !.pc = "order"]
           c == ContentBlocks(op.x)
<1>1. op.pc = "term" /\ op \in AppendOp /\ c \in Nat
  BY AppendFacts DEF TerminateLog
<1>2. BeforeHeader(next)
  BY <1>1 DEF AppendOp, BeforeHeader
<1>3. Zero \in SectorValue
  BY DEF SectorValue
<1>4. UNCHANGED <<flush_supported, ram, acked>>
  BY DEF TerminateLog
<1>5. \/ Write(base, op.tail + 1 + c, Zero, next)
      \/ op' = next /\ UNCHANGED <<disk, faults>>
  BY DEF TerminateLog
<1> HIDE DEF next, c
<1>6. QED
  BY <1>1, <1>2, <1>3, <1>4, <1>5, AppendWriteView, AppendQuietView
\* A write that shows, from a settled disk: a power loss takes it or leaves it.
LEMMA VisibleLand ==
    ASSUME IInv, ViewInv, Settled, synced = vol,
           NEW b \in Bank, NEW s \in Nat, NEW v \in SectorValue,
           Land(b, s, v), flush_supported' = flush_supported,
           NEW H, NEW t, Reads(now', H, t),
           Selected(now') = Selected(now) => NowLog.tail <= t
    PROVE  /\ ViewInv' /\ NowLog'.tail = t /\ NowLog'.heads = H
           /\ vol' = [n \in Names |-> Stored(now'[Selected(now')], H, n)]
           /\ vol' \in [Names -> Files \union {Absent, Deleted}]
           /\ synced' = IF flush_supported THEN vol ELSE vol'
<1>1. LandPost(b, s, v)
  BY LandEffect DEF IInv
<1>2. Disk(now')
  BY <1>1 DEF LandPost, Disk, Image
<1>3. vol' = View(now') /\ synced' = IF flush_supported THEN vol ELSE vol'
  BY DEF Land
<1>4. NowLog'.tail = t /\ NowLog'.heads = H /\ t \in Nat
  BY <1>2, ReadsLog DEF NowLog
<1>5. /\ vol' = [n \in Names |-> Stored(now'[Selected(now')], H, n)]
      /\ vol' \in [Names -> Files \union {Absent, Deleted}]
  BY <1>2, <1>3, ReadsView
<1>6. ASSUME NEW img, Possible(img)' PROVE ImageOK(img)'
  <2>1. Disk(img)
    BY <1>6 DEF Possible
  <2>2. \A c \in Bank : \A r \in Sector(c) : img[c][r] \in media'[c][r]
    BY <1>6 DEF Possible
  <2>3. CASE \A c \in Bank : \A r \in Sector(c) : img[c][r] = now'[c][r]
    <3>1. \A c \in Bank : now'[c][0] = img[c][0]
      BY <2>3, SectorZeroExists DEF SectorZero
    <3>2. Selected(now') \in Bank
      BY <1>2, ReadsLog
    <3>3. Reads(img, H, t) /\ View(img) = View(now') /\ Selected(img) = Selected(now')
      BY <1>2, <2>1, <2>3, <3>1, <3>2, ReadsSame
    <3>4. QED
      BY <1>3, <1>4, <3>3 DEF ImageOK
  <2>4. CASE ~ \A c \in Bank : \A r \in Sector(c) : img[c][r] = now'[c][r]
    <3>0. PICK c \in Bank : \E r \in Sector(c) : img[c][r] # now'[c][r]
      BY <2>4
    <3>1. PICK r \in Sector(c) : img[c][r] # now'[c][r]
      BY <3>0
    <3>a. ASSUME NEW d \in Bank, NEW q \in Sector(d), d # b \/ q # s
          PROVE  img[d][q] = now'[d][q] /\ now[d][q] = now'[d][q]
      <4>1. img[d][q] \in {now[d][q]}
        <5>1. media'[d][q] = media[d][q]
          BY <1>1, <3>a DEF LandPost
        <5>2. media[d][q] = {now[d][q]}
          BY DEF Settled
        <5>3. img[d][q] \in media'[d][q]
          BY <2>2
        <5>4. QED
          BY <5>1, <5>2, <5>3
      <4>2. now[d][q] = now'[d][q]
        BY <1>1, <3>a DEF LandPost
      <4>3. QED
        BY <4>1, <4>2
    <3>b. c = b /\ r = s
      BY <3>1, <3>a
    <3>c. now'[b][s] = v /\ img[b][s] # v /\ media[b][s] = {now[b][s]}
      BY <1>1, <3>1, <3>b DEF LandPost, Settled
    <3>2. c = b /\ r = s /\ flush_supported
      <4>1. flush_supported \in BOOLEAN
        BY DEF IInv, StoreTypeOK
      <4>2. ~flush_supported => img[b][s] \in {v}
        BY <1>1, <2>2, <3>b DEF LandPost
      <4>3. QED
        BY <3>b, <3>c, <4>1, <4>2
    <3>3. img[b][s] = now[b][s]
      <4>1. img[b][s] \in {now[b][s]} \union {v}
        BY <1>1, <2>2, <3>2, <3>c DEF LandPost
      <4>2. QED
        BY <3>c, <4>1
    <3>4. \A d \in Bank : \A q \in Sector(d) : now[d][q] = img[d][q]
      BY <3>3, <3>a
    <3>5. \A d \in Bank : now[d][0] = img[d][0]
      BY <3>4, SectorZeroExists DEF SectorZero
    <3>6. /\ Disk(now) /\ Reads(now, NowLog.heads, NowLog.tail)
          /\ Selected(now) \in Bank
      BY NowReads
    <3>7. /\ Reads(img, NowLog.heads, NowLog.tail) /\ View(img) = View(now)
          /\ Selected(img) = Selected(now)
      BY <2>1, <3>4, <3>5, <3>6, ReadsSame
    <3>8. View(img) = synced'
      BY <1>3, <3>2, <3>7 DEF ViewInv
    <3>9. Selected(img) = Selected(now') => NowLog.tail <= NowLog'.tail
      BY <1>4, <3>7
    <3>10. QED
      BY <3>7, <3>8, <3>9 DEF ImageOK
  <2>5. QED
    BY <2>3, <2>4
<1>7. ViewInv'
  BY <1>3, <1>6 DEF ViewInv
<1>8. QED
  BY <1>3, <1>4, <1>5, <1>7

\* The flush before the header settles the disk.
LEMMA OrderFlushView ==
    ASSUME IInv, VInv, OrderFlush
    PROVE  VInv' /\ vol' = vol /\ synced' \in {synced, vol}
<1> DEFINE next == [op EXCEPT !.pc = "header"]
<1>1. op.pc = "order" /\ op \in AppendOp
  BY AppendFacts DEF OrderFlush
<1>2. next.pc = "header" /\ next.tail = op.tail
  BY <1>1 DEF AppendOp
<1>3. base' = base /\ catalog' = catalog /\ UNCHANGED <<flush_supported, acked>>
  BY DEF OrderFlush, ram
<1>4. /\ base = Selected(now) /\ op.tail = NowLog.tail
      /\ HistoryTypeOK /\ ViewInv /\ AckInv
  BY <1>1 DEF VInv, AppendLogInv
<1> HIDE DEF next
<1>5. ASSUME op' = next, ViewInv', Settled', synced' = vol', vol' = vol,
             NowLog' = NowLog, Selected(now)' = Selected(now), faults' \in 0 .. MaxFaults
      PROVE  VInv'
  <2>1. AppendLogInv'
    BY <1>2, <1>3, <1>4, <1>5 DEF AppendLogInv
  <2>2. CompactLogInv'
    BY <1>2, <1>5 DEF CompactLogInv
  <2>3. HistoryTypeOK' /\ AckInv'
    BY <1>3, <1>4, <1>5 DEF HistoryTypeOK, AckInv
  <2>4. QED
    BY <1>5, <2>1, <2>2, <2>3 DEF VInv
<1>6. CASE flush_supported
  <2>1. Flush(next, -1)
    BY <1>6 DEF OrderFlush, FlushIfSupported, next
  <2>2. /\ faults' \in 0 .. MaxFaults /\ Done(-1).pc = "idle"
        /\ \/ /\ media' = [b \in Bank |-> [s \in Sector(b) |-> {now[b][s]}]]
              /\ synced' = vol /\ op' = next /\ UNCHANGED <<now, vol>>
           \/ UNCHANGED disk /\ op' = Done(-1)
    BY <1>4, <2>1, FlushOutcome
  <2>3. CASE UNCHANGED disk /\ op' = Done(-1)
    <3>1. VInv'
      BY <1>3, <2>2, <2>3, IdleLogs, QuietInv
    <3>2. QED
      BY <2>3, <3>1 DEF disk
  <2>4. CASE /\ media' = [b \in Bank |-> [s \in Sector(b) |-> {now[b][s]}]]
             /\ synced' = vol /\ op' = next /\ UNCHANGED <<now, vol>>
    <3>1. /\ ViewInv' /\ Settled'
          /\ NowLog' = NowLog /\ Selected(now)' = Selected(now)
      BY <1>4, <2>4, FlushView
    <3>2. QED
      BY <1>5, <2>2, <2>4, <3>1
  <2>5. QED
    BY <2>2, <2>3, <2>4
<1>7. CASE ~flush_supported
  <2>1. op' = next /\ UNCHANGED disk /\ UNCHANGED faults
    BY <1>7 DEF OrderFlush, FlushIfSupported, next
  <2>2. /\ ViewInv' /\ NowLog' = NowLog /\ Selected(now)' = Selected(now)
    BY <1>3, <1>4, <2>1, DiskSame
  <2>3. Settled'
    BY <1>7, <2>1 DEF IInv, MediaInv, Settled, disk
  <2>4. synced' = vol' /\ vol' = vol
    BY <1>4, <1>7, <2>1 DEF ViewInv, disk
  <2>5. faults' \in 0 .. MaxFaults
    BY <1>4, <2>1, FaultBound
  <2>6. QED
    BY <1>5, <2>1, <2>2, <2>3, <2>4, <2>5
<1>8. QED
  BY <1>6, <1>7

\* The header that an append writes is a record with the content of its name.
LEMMA HeaderRecord ==
    ASSUME NEW n \in Names, NEW x \in Files \union {Deleted}
    PROVE  /\ Header(n, x) \in SectorValue
           /\ Header(n, x).name = n
           /\ Header(n, x) # Zero
           /\ RecordBlocks(Header(n, x)) = ContentBlocks(x)
           /\ RecordContent(Header(n, x)) = x
           /\ x = Deleted => Header(n, x).t = "del"
           /\ x # Deleted => Header(n, x).t = "file" /\ Header(n, x).file = x
<1>1. CASE x = Deleted
  <2>1. Header(n, x) = [t |-> "del", name |-> n]
    BY <1>1 DEF Header, Tombstone
  <2>2. Header(n, x).t = "del" /\ Header(n, x).name = n
    BY <2>1
  <2>3. Header(n, x) # Zero
    BY <2>2 DEF Zero
  <2>4. Header(n, x) \in SectorValue
    BY <2>1 DEF SectorValue
  <2>5. QED
    BY <1>1, <2>2, <2>3, <2>4 DEF RecordBlocks, ContentBlocks, RecordContent
<1>2. CASE x # Deleted
  <2>1. Header(n, x) = [t |-> "file", name |-> n, file |-> x] /\ x \in Files
    BY <1>2 DEF Header, FileHeader
  <2>2. Header(n, x).t = "file" /\ Header(n, x).name = n /\ Header(n, x).file = x
    BY <2>1
  <2>3. Header(n, x) # Zero
    BY <2>2 DEF Zero
  <2>4. Header(n, x) \in SectorValue
    BY <2>1 DEF SectorValue
  <2>5. QED
    BY <1>2, <2>2, <2>3, <2>4 DEF RecordBlocks, ContentBlocks, RecordContent
<1>3. QED
  BY <1>1, <1>2
\* The log with the header written: one record longer, and intact.
LEMMA HeaderLog ==
    ASSUME IInv, VInv, op.pc = "header",
           Land(base, op.tail, Header(op.name, op.x))
    PROVE  /\ Reads(now', NowLog.heads \union {op.tail}, op.tail + 1 + ContentBlocks(op.x))
           /\ Selected(now') = Selected(now)
           /\ \A n : Stored(now'[base], NowLog.heads \union {op.tail}, n) =
                       IF n = op.name THEN op.x ELSE Stored(now[base], NowLog.heads, n)
           /\ now' # now
<1> DEFINE v == Header(op.name, op.x)
           t == op.tail
           end == t + 1 + ContentBlocks(op.x)
           H == NowLog.heads
<1>1. /\ op \in AppendOp /\ base \in Bank /\ t \in Nat /\ t >= 1
      /\ end <= Sectors[base] /\ ContentBlocks(op.x) \in Nat /\ Sectors[base] \in Nat
      /\ op.name \in Names /\ op.x \in Files \union {Deleted}
  BY AppendFacts DEF AppendOp
<1>2. /\ v \in SectorValue /\ v.name = op.name /\ v # Zero
      /\ RecordBlocks(v) = ContentBlocks(op.x) /\ RecordContent(v) = op.x
      /\ op.x = Deleted => v.t = "del"
      /\ op.x # Deleted => v.t = "file" /\ v.file = op.x
  BY <1>1, HeaderRecord
<1> HIDE DEF v
<1>3. LandPost(base, t, v)
  BY <1>1, <1>2, LandEffect DEF IInv, v
<1>4. t \in Sector(base) /\ t < Sectors[base] /\ t # 0 /\ t \in 1 .. Sectors[base] - 1
  BY <1>1 DEF Sector
<1>5. now'[base][t] = v /\ \A r \in Sector(base) : r # t => now'[base][r] = now[base][r]
  BY <1>1, <1>3, <1>4 DEF LandPost
<1>6. base = Selected(now) /\ t = NowLog.tail /\ ViewInv /\ Settled
  BY DEF VInv, AppendLogInv
<1>7. /\ Disk(now) /\ Reads(now, H, t)
  BY <1>6, NowReads
<1>8. /\ now[base] \in Image(base) /\ GoodLog(now[base], base, H, t)
      /\ H \subseteq 1 .. t - 1
  BY <1>6, <1>7, ReadsLog
<1>9. now'[base] \in Image(base) /\ Disk(now')
  BY <1>1, <1>3 DEF LandPost, Image, Disk
<1>10. \A c \in Bank : now[c][0] = now'[c][0]
  BY <1>3, <1>4, SectorZeroExists, ZenonT(60) DEF LandPost, SectorZero
<1>11. ValidBanks(now') = ValidBanks(now) /\ Selected(now') = base
  BY <1>6, <1>10, SelectedCongruence
<1>12. GoodChain(now[base], base, H, t) /\ now[base][t] = Zero
  BY <1>4, <1>8 DEF GoodLog
<1>13. \A s \in 1 .. t - 1 : now[base][s] = now'[base][s]
  BY <1>1, <1>5 DEF Sector
<1>14. GoodChain(now'[base], base, H, t) /\ \A p \in H : now[base][p] = now'[base][p]
  BY <1>1, <1>8, <1>9, <1>12, <1>13, ChainPrefix
<1>15. ASSUME NEW i \in 0 .. ContentBlocks(op.x) - 1
       PROVE  now'[base][t + 1 + i] = Data(op.x, i)
  <2>1. t + 1 + i \in Sector(base) /\ t + 1 + i # t
    BY <1>1 DEF Sector
  <2>2. media[base][t + 1 + i] = {Data(op.x, i)}
    BY DEF IInv, HeaderAfterData
  <2>3. now[base][t + 1 + i] \in media[base][t + 1 + i]
    BY <1>1, <2>1 DEF IInv, MediaInv
  <2>4. QED
    BY <1>5, <2>1, <2>2, <2>3
<1>16. end < Sectors[base] => now'[base][end] = Zero
  <2> SUFFICES ASSUME end < Sectors[base] PROVE now'[base][end] = Zero
    OBVIOUS
  <2>1. end \in Sector(base) /\ end # t
    BY <1>1 DEF Sector
  <2>2. media[base][end] = {Zero}
    BY DEF IInv, HeaderAfterData
  <2>3. now[base][end] \in media[base][end]
    BY <1>1, <2>1 DEF IInv, MediaInv
  <2>4. QED
    BY <1>5, <2>1, <2>2, <2>3
<1>17. IsRecord(now'[base], base, t)
  BY <1>1, <1>2, <1>5 DEF IsRecord, ContentBlocks
<1>18. Behind(now'[base], t) = end
  BY <1>2, <1>5 DEF Behind
<1>19. now'[base][t].t = "file" => Verify(now'[base], t)
  <2> SUFFICES ASSUME v.t = "file" PROVE Verify(now'[base], t)
    BY <1>5
  <2>1. op.x # Deleted /\ v.file = op.x
    BY <1>2
  <2>2. ContentBlocks(op.x) = Blocks[op.x]
    BY <2>1 DEF ContentBlocks
  <2>3. QED
    BY <1>5, <1>15, <2>1, <2>2 DEF Verify
<1>20. GoodChain(now'[base], base, H \union {t}, end)
  BY <1>1, <1>4, <1>9, <1>14, <1>17, <1>18, <1>19, ChainExtend
<1>21. Reads(now', H \union {t}, end)
  BY <1>7, <1>11, <1>16, <1>20 DEF Reads, GoodLog
<1>22. ASSUME NEW n
       PROVE  Stored(now'[base], H \union {t}, n) =
                IF n = op.name THEN op.x ELSE Stored(now[base], H, n)
  <2>1. Stored(now'[base], H \union {t}, n) =
          IF v.name = n THEN RecordContent(v) ELSE Stored(now'[base], H, n)
    <3> DEFINE G == H \union {t}
    <3>1. Longer(G, H, t)
      BY <1>1, <1>8 DEF Longer
    <3>2. G = H \union {t}
      OBVIOUS
    <3> HIDE DEF t, H, G
    <3>3. /\ now'[base][t].name = n =>
               Stored(now'[base], G, n) = RecordContent(now'[base][t])
          /\ now'[base][t].name # n =>
               Stored(now'[base], G, n) = Stored(now'[base], H, n)
      <4> DEFINE f == now'[base]
      <4> HIDE DEF f
      <4>1. /\ f[t].name = n => Stored(f, G, n) = RecordContent(f[t])
            /\ f[t].name # n => Stored(f, G, n) = Stored(f, H, n)
        BY <3>1, StoredAppend
      <4>2. QED
        BY <4>1 DEF f
    <3>4. QED
      BY <1>5, <3>2, <3>3
  <2>2. Stored(now'[base], H, n) = Stored(now[base], H, n)
    <3>1. t - 1 \in Nat
      BY <1>1
    <3>2. QED
      BY <1>8, <1>14, <3>1, StoredSame
  <2>3. QED
    BY <1>2, <2>1, <2>2
<1>23. now' # now
  BY <1>2, <1>5, <1>12
<1>24. QED
  BY <1>6, <1>11, <1>21, <1>22, <1>23
\* The header changes one name; whether that lasts is not known yet.
LEMMA WriteHeaderView ==
    ASSUME IInv, VInv, WriteHeader
    PROVE  /\ VInv'
           /\ \/ UNCHANGED <<vol, synced>>
              \/ /\ synced = vol /\ vol' = [vol EXCEPT ![op.name] = op.x]
                 /\ synced' \in {vol, vol'}
<1> DEFINE next == [op EXCEPT !.pc = "commit"]
           v == Header(op.name, op.x)
           t == op.tail
           G == NowLog.heads \union {t}
           end == t + 1 + ContentBlocks(op.x)
<1>1. op.pc = "header" /\ op \in AppendOp /\ base \in Bank
  BY AppendFacts DEF WriteHeader
<1>2. /\ next.pc = "commit" /\ next.name = op.name /\ next.x = op.x
      /\ op.name \in Names /\ op.x \in Files \union {Deleted} /\ op.tail \in Nat
  BY <1>1 DEF AppendOp
<1>3. /\ Write(base, t, v, next)
      /\ catalog' = IF op'.pc = "commit" THEN NoCatalog ELSE catalog
      /\ acked' = IF now' = now THEN acked ELSE [acked EXCEPT ![op.name] = Unknown]
      /\ UNCHANGED <<flush_supported, base, gen>>
  BY DEF WriteHeader
<1> HIDE DEF next
<1>4. HistoryTypeOK /\ ViewInv /\ AckInv /\ Settled /\ synced = vol
  BY <1>1 DEF VInv, AppendLogInv
<1>5. /\ faults' \in 0 .. MaxFaults /\ Done(-1).pc = "idle"
      /\ \/ Land(base, t, v) /\ op' = next
         \/ Land(base, t, v) /\ op' = Done(-1)
         \/ UNCHANGED disk /\ op' = Done(-1)
  BY <1>3, <1>4, WriteOutcome
<1>6. CASE UNCHANGED disk /\ op' = Done(-1)
  <2>1. acked' = acked /\ catalog' = catalog /\ UNCHANGED <<vol, synced>>
    BY <1>3, <1>5, <1>6 DEF disk
  <2>2. QED
    BY <1>3, <1>5, <1>6, <2>1, IdleLogs, QuietInv
<1>7. CASE Land(base, t, v)
  <2>1. /\ Reads(now', G, end) /\ Selected(now') = Selected(now)
        /\ \A n : Stored(now'[base], G, n) =
                    IF n = op.name THEN op.x ELSE Stored(now[base], NowLog.heads, n)
        /\ now' # now
    BY <1>1, <1>7, HeaderLog
  <2>2. base = Selected(now) /\ t = NowLog.tail
    BY <1>1 DEF VInv, AppendLogInv
  <2>3. v \in SectorValue /\ end \in Nat /\ t <= end /\ t \in Nat
    BY <1>1, <1>2, HeaderRecord, AppendFacts
  <2> HIDE DEF G, end, v, t
  <2>4. /\ ViewInv'
        /\ vol' = [n \in Names |-> Stored(now'[Selected(now')], G, n)]
        /\ vol' \in [Names -> Files \union {Absent, Deleted}]
        /\ synced' = IF flush_supported THEN vol ELSE vol'
    BY <1>1, <1>3, <1>4, <1>7, <2>1, <2>2, <2>3, VisibleLand
  <2>5. vol = [n \in Names |-> Stored(now[base], NowLog.heads, n)]
    BY <1>4, <2>2, NowReads
  <2>6. vol' = [vol EXCEPT ![op.name] = op.x]
    BY <1>2, <2>1, <2>2, <2>4, <2>5
  <2>7. acked' = [acked EXCEPT ![op.name] = Unknown]
    BY <1>3, <2>1
  <2>8. \A n \in Names : n # op.name =>
          acked'[n] = acked[n] /\ vol'[n] = vol[n] /\ synced'[n] = vol[n]
    BY <1>4, <2>4, <2>6, <2>7 DEF HistoryTypeOK
  <2>9. acked'[op.name] = Unknown
    BY <1>2, <1>4, <2>7 DEF HistoryTypeOK
  <2>10. catalog'.valid => catalog' = catalog
    BY <1>3 DEF NoCatalog
  <2>11. AckInv'
    <3>1. ASSUME NEW n \in Names, acked'[n] # Unknown
          PROVE  vol'[n] = acked'[n] /\ synced'[n] = acked'[n]
      BY <1>4, <2>8, <2>9, <3>1 DEF AckInv
    <3>2. ASSUME catalog'.valid, NEW n \in Names, acked'[n] # Unknown
          PROVE  catalog'.latest[n] = vol'[n]
      BY <1>4, <2>8, <2>9, <2>10, <3>2 DEF AckInv
    <3>3. QED
      BY <3>1, <3>2 DEF AckInv
  <2>12. HistoryTypeOK'
    <3>1. NoCatalog \in [valid : BOOLEAN, latest : [Names -> Contents]]
      BY DEF NoCatalog, Contents
    <3>2. catalog' \in [valid : BOOLEAN, latest : [Names -> Contents]]
      BY <1>3, <1>4, <3>1 DEF HistoryTypeOK
    <3>3. acked' \in [Names -> Contents \union {Unknown}]
      BY <1>4, <2>7 DEF HistoryTypeOK
    <3>4. synced' \in [Names -> Files \union {Absent, Deleted}]
      BY <1>4, <2>4 DEF HistoryTypeOK
    <3>5. QED
      BY <1>5, <2>4, <3>2, <3>3, <3>4 DEF HistoryTypeOK
  <2>13. AppendLogInv' /\ CompactLogInv'
    <3>1. CASE op' = next
      <4>1. op'.pc = "commit" /\ op'.name = op.name /\ op'.x = op.x
        BY <1>2, <3>1
      <4>2. ~catalog'.valid
        BY <1>3, <4>1 DEF NoCatalog
      <4>3. vol'[op.name] = op.x
        BY <1>2, <2>5, <2>6
      <4>4. QED
        BY <4>1, <4>2, <4>3 DEF AppendLogInv, CompactLogInv
    <3>2. CASE op' = Done(-1)
      BY <1>5, <3>2, IdleLogs
    <3>3. QED
      BY <1>5, <1>7, <3>1, <3>2 DEF v, t
  <2>14. VInv'
    BY <2>4, <2>11, <2>12, <2>13 DEF VInv
  <2>15. QED
    BY <1>4, <2>4, <2>6, <2>14
<1>8. QED
  BY <1>5, <1>6, <1>7

\* The last flush makes it last, or fails.
LEMMA CommitFlushView ==
    ASSUME IInv, VInv, CommitFlush
    PROVE  VInv' /\ vol' = vol /\ synced' \in {synced, vol}
<1>1. op.pc = "commit" /\ op \in AppendOp /\ op.name \in Names /\ op.x \in Files \union {Deleted}
  BY AppendFacts DEF CommitFlush, AppendOp
<1>2. /\ acked' = IF op'.code = 0 THEN [acked EXCEPT ![op.name] = op.x] ELSE acked
      /\ UNCHANGED <<flush_supported, base, gen, catalog>>
  BY DEF CommitFlush
<1>3. /\ HistoryTypeOK /\ ViewInv /\ AckInv /\ vol[op.name] = op.x /\ ~catalog.valid
  BY <1>1 DEF VInv, AppendLogInv
<1>4. /\ Done(0).pc = "idle" /\ Done(-5).pc = "idle"
      /\ Done(0).code = 0 /\ Done(-5).code = -5
  BY DoneIdle DEF IInv, StoreTypeOK, Done
<1>5. ASSUME ViewInv', vol' = vol, synced' = vol, faults' \in 0 .. MaxFaults, op' = Done(0)
      PROVE  VInv'
  <2>1. acked' = [acked EXCEPT ![op.name] = op.x]
    BY <1>2, <1>4, <1>5
  <2>2. AckInv'
    BY <1>1, <1>2, <1>3, <1>5, <2>1 DEF AckInv, HistoryTypeOK
  <2>3. HistoryTypeOK'
    BY <1>1, <1>2, <1>3, <1>5, <2>1 DEF HistoryTypeOK, Contents
  <2>4. QED
    BY <1>4, <1>5, <2>2, <2>3, IdleLogs DEF VInv
<1>6. CASE flush_supported
  <2>1. Flush(Done(0), -5)
    BY <1>6 DEF CommitFlush, FlushIfSupported
  <2>2. /\ faults' \in 0 .. MaxFaults
        /\ \/ /\ media' = [b \in Bank |-> [s \in Sector(b) |-> {now[b][s]}]]
              /\ synced' = vol /\ op' = Done(0) /\ UNCHANGED <<now, vol>>
           \/ UNCHANGED disk /\ op' = Done(-5)
    BY <1>3, <2>1, FlushOutcome
  <2>3. CASE UNCHANGED disk /\ op' = Done(-5)
    <3>1. acked' = acked
      BY <1>2, <1>4, <2>3
    <3>2. VInv'
      BY <1>2, <1>4, <2>2, <2>3, <3>1, IdleLogs, QuietInv
    <3>3. QED
      BY <2>3, <3>2 DEF disk
  <2>4. CASE /\ media' = [b \in Bank |-> [s \in Sector(b) |-> {now[b][s]}]]
             /\ synced' = vol /\ op' = Done(0) /\ UNCHANGED <<now, vol>>
    BY <1>3, <1>5, <2>2, <2>4, FlushView
  <2>5. QED
    BY <2>2, <2>3, <2>4
<1>7. CASE ~flush_supported
  <2>1. op' = Done(0) /\ UNCHANGED disk /\ UNCHANGED faults
    BY <1>7 DEF CommitFlush, FlushIfSupported
  <2>2. ViewInv'
    BY <1>2, <1>3, <2>1, DiskSame
  <2>3. vol' = vol /\ synced' = vol
    BY <1>3, <1>7, <2>1 DEF ViewInv, disk
  <2>4. faults' \in 0 .. MaxFaults
    BY <1>3, <2>1, FaultBound
  <2>5. QED
    BY <1>5, <2>1, <2>2, <2>3, <2>4
<1>8. QED
  BY <1>6, <1>7
-----------------------------------------------------------------------------
(* Operations begin, the catalog is built, the system restarts.             *)

\* zss_find yields the log that a restart would read.
LEMMA FindLog ==
    ASSUME IInv, VInv, ~SuperReadFaults, NEW S \in SUBSET Bank, NEW t \in FindTail,
           Find(S, t)
    PROVE  /\ faults' \in 0 .. MaxFaults
           /\ S # {} => base' = Selected(now) /\ gen' = now[base'][0].gen
           /\ S # {} /\ t # 0 => t = NowLog.tail
<1>1. faults' \in 0 .. MaxFaults
  BY FaultBound DEF Find, Probe, VInv
<1>2. S # {} => base' = Selected(now) /\ gen' = now[base'][0].gen
  BY FindEffect DEF IInv
<1>3. S # {} /\ t # 0 => t = NowLog.tail
  BY <1>2 DEF Find, NowLog
<1>4. QED
  BY <1>1, <1>2, <1>3

LEMMA BeginAppendView ==
    ASSUME IInv, VInv, ~SuperReadFaults, NEW kind, NEW pc \in {"data", "recv", "term"},
           NEW n, NEW x, BeginAppend(kind, pc, n, x)
    PROVE  VInv'
<1>1. UNCHANGED <<disk, flush_supported, catalog, acked>>
  BY DEF BeginAppend
<1> DEFINE begun(t) == [pc |-> pc, kind |-> kind, name |-> n, x |-> x,
                        tail |-> t, i |-> 0, intact |-> TRUE]
<1>2. PICK S \in SUBSET Bank, t \in FindTail :
        /\ Find(S, t)
        /\ \/ op' \in {Fail(kind, -1), Fail(kind, -2), Fail(kind, -3), Fail(kind, -4)}
           \/ S # {} /\ t # 0 /\ op' = begun(t)
  BY DEF BeginAppend
<1>3. /\ faults' \in 0 .. MaxFaults
      /\ S # {} /\ t # 0 => base' = Selected(now) /\ t = NowLog.tail
  BY <1>2, FindLog
<1>4. CASE op' \in {Fail(kind, -1), Fail(kind, -2), Fail(kind, -3), Fail(kind, -4)}
  <2>1. op'.pc = "idle"
    BY <1>4 DEF Fail
  <2>2. QED
    BY <1>1, <1>3, <2>1, IdleLogs, QuietInv
<1>5. CASE S # {} /\ t # 0 /\ op' = begun(t)
  <2>1. op'.pc = pc /\ op'.tail = t
    BY <1>5
  <2>2. NowLog' = NowLog /\ Selected(now)' = Selected(now)
    BY <1>1, DiskSame DEF VInv
  <2>3. AppendLogInv'
    BY <1>3, <1>5, <2>1, <2>2 DEF AppendLogInv
  <2>4. CompactLogInv'
    BY <2>1 DEF CompactLogInv
  <2>5. QED
    BY <1>1, <1>3, <2>3, <2>4, QuietInv
<1>6. QED
  BY <1>2, <1>4, <1>5

\* A catalog that is built lists the volume.
LEMMA EntryAtView ==
    ASSUME IInv, VInv, ~SuperReadFaults, EntryAt
    PROVE  VInv'
<1>1. op.pc = "idle" /\ UNCHANGED <<disk, flush_supported, op, acked>>
  BY DEF EntryAt
<1>2. PICK S \in SUBSET Bank, t \in FindTail :
        /\ Find(S, t)
        /\ \/ catalog' = catalog
           \/ /\ S # {}
              /\ catalog' = [valid |-> TRUE, latest |-> CatalogOf(now[base'], base')]
  BY DEF EntryAt
<1>3. faults' \in 0 .. MaxFaults /\ (S # {} => base' = Selected(now))
  BY <1>2, FindLog
<1>4. op'.pc = "idle"
  BY <1>1
<1>5. CASE catalog' = catalog
  BY <1>1, <1>3, <1>4, <1>5, IdleLogs, QuietInv
<1>6. CASE S # {} /\ catalog' = [valid |-> TRUE, latest |-> CatalogOf(now[base'], base')]
  <2>1. CatalogOf(now[base'], base') = vol /\ vol \in [Names -> Files \union {Absent, Deleted}]
    BY <1>3, <1>6, NowReads DEF VInv
  <2>2. catalog' = [valid |-> TRUE, latest |-> vol]
    BY <1>6, <2>1
  <2>3. vol' = vol /\ synced' = synced /\ acked' = acked
    BY <1>1 DEF disk
  <2>4. vol \in [Names -> Contents]
    BY <2>1 DEF Contents
  <2>5. HistoryTypeOK'
    BY <1>3, <2>2, <2>3, <2>4 DEF VInv, HistoryTypeOK
  <2>6. AckInv'
    BY <2>2, <2>3 DEF VInv, AckInv
  <2>7. ViewInv'
    BY <1>1, DiskSame DEF VInv
  <2>8. QED
    BY <1>4, <2>5, <2>6, <2>7, IdleLogs DEF VInv
<1>7. QED
  BY <1>2, <1>5, <1>6

LEMMA ResetHistory ==
    ASSUME HistoryTypeOK, AckInv, Reset, UNCHANGED <<acked, faults>>,
           vol' \in {vol, synced}, synced' \in {synced, vol'}
    PROVE  HistoryTypeOK' /\ AckInv'
<1>1. catalog' = NoCatalog
  BY DEF Reset
<1>2. ~catalog'.valid /\ catalog' \in [valid : BOOLEAN, latest : [Names -> Contents]]
  BY <1>1 DEF NoCatalog, Contents
<1>3. QED
  BY <1>2 DEF HistoryTypeOK, AckInv

LEMMA GuestRestartView ==
    ASSUME IInv, VInv, GuestRestart
    PROVE  VInv'
<1>1. Reset /\ UNCHANGED <<disk, flush_supported, faults, acked>>
  BY DEF GuestRestart
<1>2. op'.pc = "idle"
  BY <1>1, ResetFacts
<1>3. HistoryTypeOK' /\ AckInv'
  BY <1>1, ResetHistory DEF VInv, disk
<1>4. ViewInv'
  BY <1>1, DiskSame DEF VInv
<1>5. QED
  BY <1>2, <1>3, <1>4, IdleLogs DEF VInv

\* What a power loss leaves was possible before.
LEMMA LossPossible ==
    ASSUME IInv, NEW img \in PowerLossImages
    PROVE  Possible(img)
<1> DEFINE unsettled == {x \in Address : media[x[1]][x[2]] # {now[x[1]][x[2]]}}
           left(h) == [b \in Bank |-> [s \in Sector(b) |->
                         IF <<b, s>> \in unsettled THEN h[<<b, s>>] ELSE now[b][s]]]
<1>1. PICK h : /\ \A x \in unsettled : h[x] \in media[x[1]][x[2]]
               /\ img = left(h)
  BY DEF PowerLossImages
<1>2. \A c \in Bank : img[c] = [s \in Sector(c) |-> img[c][s]]
  <2> HIDE DEF unsettled
  <2> QED BY <1>1
<1>3. ASSUME NEW c \in Bank, NEW r \in Sector(c)
      PROVE  img[c][r] \in media[c][r]
  <2>1. img[c][r] = IF <<c, r>> \in unsettled THEN h[<<c, r>>] ELSE now[c][r]
    <3> HIDE DEF unsettled
    <3> QED BY <1>1
  <2>2. now[c][r] \in media[c][r]
    BY DEF IInv, MediaInv
  <2>3. <<c, r>> \in unsettled => h[<<c, r>>] \in media[c][r]
    <3>1. <<c, r>>[1] = c /\ <<c, r>>[2] = r
      OBVIOUS
    <3> HIDE DEF unsettled
    <3>2. QED BY <1>1, <3>1
  <2>4. QED
    <3> HIDE DEF unsettled
    <3> QED BY <2>1, <2>2, <2>3
<1>4. \A c \in Bank : \A r \in Sector(c) : img[c][r] \in SectorValue
  BY <1>3 DEF IInv, StoreTypeOK
<1>5. Disk(img)
  <2> SUFFICES ASSUME NEW c \in Bank PROVE img[c] \in [Sector(c) -> SectorValue]
    BY DEF Disk, Image
  <2>1. img[c] = [s \in Sector(c) |-> img[c][s]]
    BY <1>2
  <2>2. QED
    BY <1>4, <2>1
<1>6. QED
  BY <1>3, <1>5 DEF Possible

LEMMA PowerLossView ==
    ASSUME IInv, VInv, PowerLoss
    PROVE  VInv' /\ vol' \in {vol, synced} /\ synced' = vol'
<1>1. /\ Reset /\ flush_supported' = flush_supported /\ now' \in PowerLossImages
      /\ media' = [b \in Bank |-> [s \in Sector(b) |-> {now'[b][s]}]]
      /\ vol' = View(now') /\ synced' = vol' /\ UNCHANGED <<acked, faults>>
  BY DEF PowerLoss
<1>2. op'.pc = "idle"
  BY <1>1, ResetFacts
<1>3. Possible(now')
  BY <1>1, LossPossible
<1>4. ImageOK(now')
  BY <1>3 DEF VInv, ViewInv
<1>5. PICK H, t : Reads(now', H, t)
  BY <1>4 DEF ImageOK
<1>6. vol' \in {vol, synced}
  BY <1>1, <1>4 DEF ImageOK
<1>7. Settled'
  BY <1>1 DEF Settled
<1>8. Disk(now)'
  BY <1>3 DEF Possible, Disk
<1>9. vol' = View(now)'
  BY <1>1 DEF View, Selected, SelectBank, ValidBanks
<1>10. ViewInv'
  BY <1>1, <1>5, <1>7, <1>8, <1>9, SettledImages
<1>11. HistoryTypeOK' /\ AckInv'
  BY <1>1, <1>6, ResetHistory DEF VInv
<1>12. QED
  BY <1>1, <1>2, <1>6, <1>10, <1>11, IdleLogs DEF VInv
-----------------------------------------------------------------------------
(* The steps of a compaction.                                               *)

LEMMA CompactView ==
    ASSUME IInv, VInv, ~SuperReadFaults, Compact
    PROVE  VInv'
<1>1. UNCHANGED <<disk, flush_supported, catalog, acked>>
  BY DEF Compact
<1> DEFINE begun(t) == [pc |-> "gcflush", kind |-> "compact",
                        target |-> Other(base'), tail |-> t,
                        pos |-> 1, need |-> 1, next |-> 1, i |-> 0]
<1>2. PICK S \in SUBSET Bank, t \in FindTail :
        /\ Find(S, t)
        /\ \/ op' \in {Fail("compact", -2), Fail("compact", -4)}
           \/ S # {} /\ t # 0 /\ gen' # MaxGen /\ op' = begun(t)
  BY DEF Compact
<1>3. /\ faults' \in 0 .. MaxFaults
      /\ S # {} /\ t # 0 => base' = Selected(now) /\ t = NowLog.tail
  BY <1>2, FindLog
<1>4. CASE op' \in {Fail("compact", -2), Fail("compact", -4)}
  <2>1. op'.pc = "idle"
    BY <1>4 DEF Fail
  <2>2. QED
    BY <1>1, <1>3, <2>1, IdleLogs, QuietInv
<1>5. CASE S # {} /\ t # 0 /\ gen' # MaxGen /\ op' = begun(t)
  <2>1. /\ op'.pc = "gcflush" /\ op'.tail = t /\ op'.pos = 1 /\ op'.need = 1
        /\ op'.next = 1 /\ op'.target = Other(base')
    BY <1>5
  <2>2. NowLog' = NowLog /\ Selected(now)' = Selected(now)
    BY <1>1, DiskSame DEF VInv
  <2>3. gen' \in 0 .. MaxGen /\ base' \in Bank
    BY <1>2, FindEffect DEF IInv
  <2>4. gen' < MaxGen /\ 1 <= Sectors[Other(base')]
    BY <1>5, <2>3, ConstantsAssumption DEF Other, Bank
  <2>5. SourceOK'
    BY <1>3, <1>5, <2>1, <2>2, <2>4 DEF SourceOK
  <2>6. CompactLogInv'
    BY <2>1, <2>5 DEF CompactLogInv
  <2>7. AppendLogInv'
    BY <2>1 DEF AppendLogInv
  <2>8. QED
    BY <1>1, <1>3, <2>6, <2>7, QuietInv
<1>6. QED
  BY <1>2, <1>4, <1>5

\* The log that a compaction copies.
LEMMA SourceLog ==
    ASSUME IInv, VInv, op.pc \in CopyPC \union {"gcflush"}
    PROVE  /\ op \in CompactOp /\ flush_supported
           /\ base \in Bank /\ op.target \in Bank /\ op.target # base
           /\ base = Selected(now) /\ SourceOK
           /\ Disk(now) /\ now[base] \in Image(base)
           /\ GoodLog(now[base], base, NowLog.heads, op.tail)
           /\ GoodChain(now[base], base, NowLog.heads, op.tail)
           /\ op.tail \in Nat /\ op.tail >= 1 /\ NowLog.heads \subseteq 1 .. op.tail - 1
           /\ NowLog = Scan(now[base], base)
           /\ HistoryTypeOK /\ ViewInv /\ AckInv
<1>1. /\ op \in CompactOp /\ flush_supported
      /\ base \in Bank /\ op.target \in Bank /\ op.target # base /\ base = Selected(now)
  BY CompactFacts
<1>2. SourceOK /\ HistoryTypeOK /\ ViewInv /\ AckInv
  BY DEF VInv, CompactLogInv
<1>3. Disk(now) /\ Reads(now, NowLog.heads, NowLog.tail)
  BY <1>2, NowReads
<1>4. op.tail = NowLog.tail
  BY <1>2 DEF SourceOK
<1>5. QED
  BY <1>1, <1>2, <1>3, <1>4, ReadsLog DEF GoodLog, NowLog

\* A step of a compaction that leaves the disk alone.
LEMMA CompactQuietView ==
    ASSUME IInv, VInv, op.pc \in CopyPC, CompactLogInv',
           op'.pc \in CopyPC,
           UNCHANGED <<disk, flush_supported, catalog, acked>>,
           faults' \in 0 .. MaxFaults
    PROVE  VInv'
<1>1. AppendLogInv'
  BY DEF AppendLogInv
<1>2. QED
  BY <1>1, QuietInv

\* The flush before the copy settles both banks.
LEMMA GcFlushView ==
    ASSUME IInv, VInv, GcFlush
    PROVE  VInv' /\ vol' = vol /\ synced' \in {synced, vol}
<1> DEFINE next == [op EXCEPT !.pc = "check"]
<1>1. op.pc = "gcflush" /\ Flush(next, -1) /\ UNCHANGED <<flush_supported, ram, acked>>
  BY DEF GcFlush
<1>2. /\ op \in CompactOp /\ base \in Bank /\ op.target \in Bank /\ SourceOK
      /\ GoodChain(now[base], base, NowLog.heads, op.tail)
      /\ HistoryTypeOK /\ ViewInv /\ AckInv
  BY <1>1, SourceLog
<1>3. op.next = 1 /\ op.pos = 1
  BY <1>1 DEF VInv, CompactLogInv
<1>4. /\ next.pc = "check" /\ next.target = op.target /\ next.tail = op.tail
      /\ next.pos = op.pos /\ next.need = op.need /\ next.next = op.next
  BY <1>2 DEF CompactOp
<1>5. /\ faults' \in 0 .. MaxFaults
      /\ Done(-1).pc = "idle"
      /\ \/ /\ media' = [b \in Bank |-> [s \in Sector(b) |-> {now[b][s]}]]
            /\ synced' = vol /\ op' = next /\ UNCHANGED <<now, vol>>
         \/ UNCHANGED disk /\ op' = Done(-1)
  <2> HIDE DEF next
  <2> QED BY <1>1, <1>2, FlushOutcome
<1> HIDE DEF next
<1>6. base' = base /\ gen' = gen /\ catalog' = catalog /\ acked' = acked
  BY <1>1 DEF ram
<1>7. CASE UNCHANGED disk /\ op' = Done(-1)
  <2>1. VInv'
    BY <1>1, <1>5, <1>6, <1>7, IdleLogs, QuietInv
  <2>2. QED
    BY <1>7, <2>1 DEF disk
<1>8. CASE /\ media' = [b \in Bank |-> [s \in Sector(b) |-> {now[b][s]}]]
           /\ synced' = vol /\ op' = next /\ UNCHANGED <<now, vol>>
  <2>1. /\ ViewInv' /\ Settled'
        /\ NowLog' = NowLog /\ Selected(now)' = Selected(now)
    BY <1>2, <1>8, FlushView
  <2>2. HistoryTypeOK' /\ AckInv'
    BY <1>2, <1>5, <1>6, <1>8 DEF HistoryTypeOK, AckInv
  <2>3. AppendLogInv'
    BY <1>4, <1>8 DEF AppendLogInv
  <2>4. SourceOK'
    BY <1>2, <1>4, <1>6, <1>8, <2>1 DEF SourceOK
  <2>5. SourceSettled'
    BY <1>2, <1>4, <1>6, <1>8, <2>1, SectorZeroExists DEF SourceSettled, Settled, SectorZero
  <2>6. 1 \in NowLog.heads \union {op.tail}
    BY <1>2 DEF GoodChain, Chain
  <2>7. CompactLogInv'
    BY <1>3, <1>4, <1>8, <2>1, <2>4, <2>5, <2>6 DEF CompactLogInv
  <2>8. QED
    BY <1>8, <2>1, <2>2, <2>3, <2>7 DEF VInv
<1>9. QED
  BY <1>5, <1>7, <1>8
\* The record that a turn of a loop looks at, and the one behind it.
LEMMA TurnFacts ==
    ASSUME IInv, VInv, op.pc \in {"check", "copy", "copysector"}, op.pos < op.tail
    PROVE  /\ op.pos \in NowLog.heads /\ op.pos \in Nat /\ op.pos # 0
           /\ IsRecord(now[base], base, op.pos)
           /\ CurrentRecord = now[base][op.pos]
           /\ RecordBlocks(CurrentRecord) \in Nat
           /\ op.pos + 1 + RecordBlocks(CurrentRecord) = Behind(now[base], op.pos)
           /\ Behind(now[base], op.pos) \in NowLog.heads \union {op.tail}
           /\ Behind(now[base], op.pos) \in Nat
           /\ \A p \in NowLog.heads :
                p < Behind(now[base], op.pos) <=> p < op.pos \/ p = op.pos
<1>1. /\ base \in Bank /\ now[base] \in Image(base)
      /\ GoodChain(now[base], base, NowLog.heads, op.tail)
      /\ op.tail \in Nat /\ op \in CompactOp
  BY SourceLog
<1>2. op.pos \in NowLog.heads
  BY <1>1 DEF VInv, CompactLogInv, CompactOp
<1>3. /\ op.pos \in Nat /\ op.pos # 0 /\ IsRecord(now[base], base, op.pos)
      /\ RecordBlocks(now[base][op.pos]) \in Nat
      /\ Behind(now[base], op.pos) \in op.pos + 1 .. op.tail
  BY <1>1, <1>2, ChainRecords
<1>4. /\ Behind(now[base], op.pos) \in NowLog.heads \union {op.tail}
      /\ \A p \in NowLog.heads :
           p < Behind(now[base], op.pos) <=> p < op.pos \/ p = op.pos
  BY <1>1, <1>2, ChainNext
<1>5. op.pos + 1 + RecordBlocks(CurrentRecord) = Behind(now[base], op.pos)
  BY DEF CurrentRecord, Behind
<1>6. QED
  BY <1>2, <1>3, <1>4, <1>5 DEF CurrentRecord

\* A turn keeps the record when it is the latest of its name.
LEMMA TurnLatest ==
    ASSUME IInv, VInv, ~SuperReadFaults, NEW pc \in {"check", "copy"}, NEW kept,
           GcTurn(pc, kept)
    PROVE  /\ UNCHANGED <<disk, flush_supported, catalog, acked>>
           /\ op.pc = pc /\ op.pos < op.tail /\ faults' \in 0 .. MaxFaults
           /\ \/ op' = Done(-1)
              \/ /\ base' = base /\ gen' = gen
                 /\ IsLast(now[base], NowLog.heads, CurrentRecord.name, op.pos)
                 /\ op' = kept
              \/ /\ base' = base /\ gen' = gen
                 /\ ~IsLast(now[base], NowLog.heads, CurrentRecord.name, op.pos)
                 /\ op' = [op EXCEPT !.pos = @ + 1 + RecordBlocks(CurrentRecord)]
<1>1. /\ UNCHANGED <<disk, flush_supported, catalog, acked>>
      /\ op.pc = pc /\ op.pos < op.tail
  BY DEF GcTurn
<1>2. PICK S \in SUBSET Bank, t \in FindTail :
        /\ Find(S, t)
        /\ \/ op' = Done(-1)
           \/ S # {} /\ IsLatest /\ op' = kept
           \/ /\ S # {} /\ ~IsLatest
              /\ op' = [op EXCEPT !.pos = @ + 1 + RecordBlocks(CurrentRecord)]
  BY DEF GcTurn
<1>3. faults' \in 0 .. MaxFaults
  BY <1>2, FindLog
<1>4. ASSUME S # {}
      PROVE  /\ base' = base /\ gen' = gen
             /\ IsLatest <=> IsLast(now[base], NowLog.heads, CurrentRecord.name, op.pos)
  <2>1. base' = Selected(now) /\ gen' = now[base'][0].gen
    BY <1>2, <1>4, FindLog
  <2>2. base' = base /\ gen' = gen
    BY <1>1, <2>1, CompactFacts
  <2>3. /\ op.pos # 0 /\ CurrentRecord = now[base][op.pos]
    BY <1>1, TurnFacts
  <2>4. /\ NowLog = Scan(now[base], base) /\ NowLog.heads \subseteq 1 .. op.tail - 1
        /\ op.tail \in Nat /\ op.tail >= 1
    BY <1>1, SourceLog
  <2> DEFINE f == now[base]
             H == NowLog.heads
             n == CurrentRecord.name
  <2>5. IsLatest <=> LatestOf(f, H, n) = op.pos
    BY <2>2, <2>3, <2>4 DEF IsLatest, LatestHeader
  <2>6. op.tail - 1 \in Nat /\ H \in SUBSET (1 .. op.tail - 1)
    BY <2>4
  <2> HIDE DEF f, H, n
  <2>7. /\ LatestOf(f, H, n) # 0 => IsLast(f, H, n, LatestOf(f, H, n))
        /\ IsLast(f, H, n, op.pos) => LatestOf(f, H, n) = op.pos
    BY <2>6, LatestIsLast, ZenonT(60)
  <2>8. LatestOf(f, H, n) = op.pos <=> IsLast(f, H, n, op.pos)
    BY <2>3, <2>7
  <2>9. QED
    BY <2>2, <2>5, <2>8 DEF f, H, n
<1>5. QED
  BY <1>1, <1>2, <1>3, <1>4

\* The parts of CompactLogInv that the steps of the loops carry along.
LEMMA LoopCarry ==
    ASSUME IInv, VInv, op.pc \in CopyPC, UNCHANGED <<disk, flush_supported>>,
           base' = base, gen' = gen, op'.target = op.target, op'.tail = op.tail,
           op'.need <= Sectors[op.target]
    PROVE  /\ SourceOK' /\ SourceSettled' /\ synced' = vol'
           /\ NowLog' = NowLog /\ now' = now
<1>1. NowLog' = NowLog /\ now' = now /\ media' = media /\ vol' = vol /\ synced' = synced
  BY DiskSame DEF VInv, disk
<1>2. SourceOK /\ SourceSettled /\ synced = vol
  BY DEF VInv, CompactLogInv
<1>3. QED
  BY <1>1, <1>2 DEF SourceOK, SourceSettled

LEMMA GcCheckView ==
    ASSUME IInv, VInv, ~SuperReadFaults, GcCheck
    PROVE  VInv'
<1> DEFINE size == 1 + RecordBlocks(CurrentRecord)
           kept == IF CurrentRecord.t = "file" /\ ~Verify(now[base'], op.pos)
                   THEN Done(-1)
                   ELSE IF op.need + size > Sectors[op.target] THEN Done(-3)
                   ELSE [op EXCEPT !.pos = @ + size, !.need = @ + size]
           skip == [op EXCEPT !.pos = @ + 1 + RecordBlocks(CurrentRecord)]
<1>1. GcTurn("check", kept)
  BY DEF GcCheck
<1>2. /\ UNCHANGED <<disk, flush_supported, catalog, acked>>
      /\ op.pc = "check" /\ op.pos < op.tail /\ faults' \in 0 .. MaxFaults
      /\ \/ op' = Done(-1)
         \/ base' = base /\ gen' = gen /\ op' = kept
         \/ base' = base /\ gen' = gen /\ op' = skip
  <2> HIDE DEF kept
  <2> QED BY <1>1, TurnLatest
<1>3. /\ op.pos + size = Behind(now[base], op.pos)
      /\ op.pos + 1 + RecordBlocks(CurrentRecord) = Behind(now[base], op.pos)
      /\ Behind(now[base], op.pos) \in NowLog.heads \union {op.tail}
      /\ size \in Nat
  <2>1. op.pos \in Nat /\ RecordBlocks(CurrentRecord) \in Nat
    BY <1>2, TurnFacts
  <2>2. op.pos + 1 + RecordBlocks(CurrentRecord) = op.pos + size /\ size \in Nat
    BY <2>1
  <2>3. QED
    BY <1>2, <2>2, TurnFacts
<1>4. Done(-1).pc = "idle" /\ Done(-3).pc = "idle"
  BY DoneIdle DEF IInv, StoreTypeOK
<1>5. CASE op' \in {Done(-1), Done(-3)}
  BY <1>2, <1>4, <1>5, IdleLogs, QuietInv
<1>6. ASSUME base' = base, gen' = gen, op'.pc = "check", op'.target = op.target,
             op'.tail = op.tail, op'.next = op.next,
             op'.pos = Behind(now[base], op.pos), op'.need <= Sectors[op.target]
      PROVE  VInv'
  <2>1. /\ SourceOK' /\ SourceSettled' /\ synced' = vol'
        /\ NowLog' = NowLog /\ now' = now
    BY <1>2, <1>6, LoopCarry
  <2>2. op'.next = 1
    BY <1>2, <1>6 DEF VInv, CompactLogInv
  <2>3. CompactLogInv'
    BY <1>3, <1>6, <2>1, <2>2 DEF CompactLogInv
  <2>4. QED
    BY <1>2, <1>6, <2>3, CompactQuietView
<1>7. op \in CompactOp /\ op.need <= Sectors[op.target] /\ Sectors[op.target] \in Nat
  BY <1>2, SourceLog, ConstantsAssumption DEF SourceOK
<1>8. CASE base' = base /\ gen' = gen /\ op' = skip
  <2> DEFINE p == op.pos + 1 + RecordBlocks(CurrentRecord)
  <2>1. op' = [op EXCEPT !.pos = p]
    BY <1>8
  <2> HIDE DEF p
  <2>2. /\ op'.pc = op.pc /\ op'.target = op.target /\ op'.tail = op.tail
        /\ op'.next = op.next /\ op'.pos = p /\ op'.need = op.need
    BY <1>7, <2>1 DEF CompactOp
  <2>3. QED
    BY <1>2, <1>3, <1>6, <1>7, <1>8, <2>2 DEF p
<1>9. CASE base' = base /\ gen' = gen /\ op' = kept /\ op' \notin {Done(-1), Done(-3)}
  <2> DEFINE p == op.pos + size
             d == op.need + size
  <2>1. op' = [op EXCEPT !.pos = p, !.need = d] /\ ~(d > Sectors[op.target])
    BY <1>9
  <2>2. d \in Nat
    BY <1>3, <1>7 DEF CompactOp
  <2> HIDE DEF p, d
  <2>3. /\ op'.pc = op.pc /\ op'.target = op.target /\ op'.tail = op.tail
        /\ op'.next = op.next /\ op'.pos = p /\ op'.need = d
    BY <1>7, <2>1 DEF CompactOp
  <2>4. d <= Sectors[op.target]
    BY <1>7, <2>1, <2>2
  <2>5. QED
    BY <1>2, <1>3, <1>6, <1>9, <2>3, <2>4 DEF p
<1>10. QED
  BY <1>2, <1>5, <1>8, <1>9

\* The copy starts with an empty target.
LEMMA GcCheckedView ==
    ASSUME IInv, VInv, GcChecked
    PROVE  VInv'
<1>1. /\ op.pc = "check" /\ op' = [op EXCEPT !.pc = "copy", !.pos = 1]
      /\ UNCHANGED <<disk, flush_supported, ram, faults, acked>>
  BY DEF GcChecked
<1>2. /\ op \in CompactOp /\ base \in Bank /\ op.target \in Bank /\ SourceOK
      /\ GoodChain(now[base], base, NowLog.heads, op.tail)
      /\ NowLog.heads \subseteq 1 .. op.tail - 1 /\ HistoryTypeOK
  BY <1>1, SourceLog
<1>3. /\ op'.pc = "copy" /\ op'.target = op.target /\ op'.tail = op.tail
      /\ op'.pos = 1 /\ op'.next = op.next /\ op'.need = op.need
  BY <1>1, <1>2 DEF CompactOp
<1>4. base' = base /\ gen' = gen /\ catalog' = catalog /\ op.next = 1
  BY <1>1 DEF ram, VInv, CompactLogInv
<1>5. /\ SourceOK' /\ SourceSettled' /\ synced' = vol'
      /\ NowLog' = NowLog /\ now' = now
  BY <1>1, <1>2, <1>3, <1>4, LoopCarry DEF SourceOK
<1>6. 1 \in NowLog.heads \union {op.tail}
  BY <1>2 DEF GoodChain, Chain
<1>7. GoodChain(now[op.target], op.target, {}, 1)
  BY <1>2, ConstantsAssumption DEF GoodChain, Chain
<1>8. Copies(now[base], NowLog.heads, now[op.target], {}, 1)
  BY <1>2 DEF Copies
<1>9. CopiedTo(op.pos)'
  BY <1>3, <1>4, <1>5, <1>7, <1>8 DEF CopiedTo
<1>10. CompactLogInv'
  BY <1>3, <1>5, <1>6, <1>9 DEF CompactLogInv
<1>11. faults' \in 0 .. MaxFaults
  BY <1>1, <1>2, FaultBound
<1>12. QED
  BY <1>1, <1>3, <1>4, <1>10, <1>11, CompactQuietView

\* The second loop starts to copy a record, or leaves it behind.
LEMMA GcCopyView ==
    ASSUME IInv, VInv, ~SuperReadFaults, GcCopy
    PROVE  VInv'
<1> DEFINE kept == [op EXCEPT !.pc = "copysector", !.i = 0]
           skip == [op EXCEPT !.pos = @ + 1 + RecordBlocks(CurrentRecord)]
           last == IsLast(now[base], NowLog.heads, CurrentRecord.name, op.pos)
<1>1. GcTurn("copy", kept)
  BY DEF GcCopy
<1>2. /\ UNCHANGED <<disk, flush_supported, catalog, acked>>
      /\ op.pc = "copy" /\ op.pos < op.tail /\ faults' \in 0 .. MaxFaults
      /\ \/ op' = Done(-1)
         \/ base' = base /\ gen' = gen /\ last /\ op' = kept
         \/ base' = base /\ gen' = gen /\ ~last /\ op' = skip
  <2> HIDE DEF kept
  <2> QED BY <1>1, TurnLatest
<1>3. Done(-1).pc = "idle"
  BY DoneIdle DEF IInv, StoreTypeOK
<1>4. CASE op' = Done(-1)
  BY <1>2, <1>3, <1>4, IdleLogs, QuietInv
<1>5. op \in CompactOp /\ op.need <= Sectors[op.target]
  BY <1>2, SourceLog DEF SourceOK
<1>6. op.next <= Sectors[op.target] => CopiedTo(op.pos)
  BY <1>2 DEF VInv, CompactLogInv
<1>7. /\ op.pos \in NowLog.heads /\ CurrentRecord = now[base][op.pos]
      /\ op.pos + 1 + RecordBlocks(CurrentRecord) = Behind(now[base], op.pos)
      /\ Behind(now[base], op.pos) \in NowLog.heads \union {op.tail}
      /\ \A p \in NowLog.heads :
           p < Behind(now[base], op.pos) <=> p < op.pos \/ p = op.pos
  BY <1>2, TurnFacts
<1>8. CASE base' = base /\ gen' = gen /\ last /\ op' = kept
  <2>1. /\ op'.pc = "copysector" /\ op'.target = op.target /\ op'.tail = op.tail
        /\ op'.next = op.next /\ op'.pos = op.pos /\ op'.need = op.need /\ op'.i = 0
    BY <1>5, <1>8 DEF CompactOp
  <2>2. /\ SourceOK' /\ SourceSettled' /\ synced' = vol'
        /\ NowLog' = NowLog /\ now' = now
    BY <1>2, <1>5, <1>8, <2>1, LoopCarry
  <2>3. IsLast(now[base], NowLog.heads, CurrentRecord.name, op.pos)'
    BY <1>8, <2>1, <2>2 DEF CurrentRecord
  <2>4. (op.next <= Sectors[op.target] => CopiedTo(op.pos))'
    BY <1>6, <1>8, <2>1, <2>2 DEF CopiedTo
  <2>5. \A j \in 0 .. op'.i - 1 : FALSE
    BY <2>1
  <2>6. op'.pos \in NowLog'.heads \union {op'.tail}
    BY <1>7, <2>1, <2>2
  <2>7. CompactLogInv'
    BY <2>1, <2>2, <2>3, <2>4, <2>5, <2>6 DEF CompactLogInv
  <2>8. QED
    BY <1>2, <2>1, <2>7, CompactQuietView
<1>9. CASE base' = base /\ gen' = gen /\ ~last /\ op' = skip
  <2> DEFINE e == op.pos + 1 + RecordBlocks(CurrentRecord)
  <2>1. op' = [op EXCEPT !.pos = e]
    BY <1>9
  <2> HIDE DEF e
  <2>2. /\ op'.pc = "copy" /\ op'.target = op.target /\ op'.tail = op.tail
        /\ op'.next = op.next /\ op'.pos = e /\ op'.need = op.need
    BY <1>2, <1>5, <2>1 DEF CompactOp
  <2>3. e = Behind(now[base], op.pos)
    BY <1>7 DEF e
  <2>4. /\ SourceOK' /\ SourceSettled' /\ synced' = vol'
        /\ NowLog' = NowLog /\ now' = now
    BY <1>2, <1>5, <1>9, <2>2, LoopCarry
  <2>5. ASSUME op.next <= Sectors[op.target] PROVE CopiedTo(e)
    <3>1. PICK Q : /\ GoodChain(now[op.target], op.target, Q, op.next)
                   /\ Copies(now[base], NowLog.heads, now[op.target], Q, op.pos)
      BY <1>6, <2>5 DEF CopiedTo
    <3>2. Copies(now[base], NowLog.heads, now[op.target], Q, e)
      BY <1>7, <1>9, <2>3, <3>1, CopySkip
    <3>3. QED
      BY <3>1, <3>2 DEF CopiedTo
  <2>6. (op.next <= Sectors[op.target] => CopiedTo(op.pos))'
    BY <1>9, <2>2, <2>4, <2>5 DEF CopiedTo
  <2>7. op'.pos \in NowLog'.heads \union {op'.tail}
    BY <1>7, <2>2, <2>3, <2>4
  <2>8. CompactLogInv'
    BY <2>2, <2>4, <2>6, <2>7 DEF CompactLogInv
  <2>9. QED
    BY <1>2, <2>2, <2>8, CompactQuietView
<1>10. QED
  BY <1>2, <1>4, <1>8, <1>9

\* Nobody reads the target before its superblock is written.
LEMMA CopyHarmless ==
    ASSUME IInv, VInv, op.pc \in CopyPC, NEW s
    PROVE  Harmless(op.target, s)
<1>1. base \in Bank /\ op.target \in Bank /\ op.target = Other(base) /\ base = Selected(now)
  BY CompactFacts
<1>2. SourceSettled
  BY DEF VInv, CompactLogInv
<1> SUFFICES ASSUME NEW img, Possible(img), Selected(img) = op.target PROVE FALSE
  BY DEF Harmless
<1>3. img[base][0] = now[base][0] /\ img[op.target][0] = now[op.target][0]
  BY <1>1, <1>2, SectorZeroExists DEF SourceSettled, SectorZero, Possible
<1>4. \A b \in Bank : img[b][0] = now[b][0]
  BY <1>1, <1>3 DEF Other, Bank
<1>5. Selected(img) = Selected(now)
  BY <1>4, SelectedCongruence
<1>6. QED
  BY <1>1, <1>5 DEF Other, Bank

\* A sector of the target is written: the source and the volume stay.
LEMMA CopyLand ==
    ASSUME IInv, VInv, op.pc \in CopyPC, NEW s \in Nat \ {0}, NEW v \in SectorValue,
           Land(op.target, s, v), UNCHANGED <<flush_supported, ram, acked>>,
           faults' \in 0 .. MaxFaults
    PROVE  /\ ViewInv' /\ HistoryTypeOK' /\ AckInv' /\ vol' = vol /\ synced' = synced
           /\ NowLog' = NowLog /\ base' = base /\ gen' = gen
           /\ \A r \in Sector(base) : now'[base][r] = now[base][r]
           /\ now'[base] = now[base]
           /\ now'[op.target] \in Image(op.target)
           /\ \A r \in Sector(op.target) :
                now'[op.target][r] = IF r = s THEN v ELSE now[op.target][r]
           /\ \A r \in Sector(base) : media'[base][r] = {now'[base][r]}
           /\ media'[op.target][0] = {now'[op.target][0]}
<1>1. base \in Bank /\ op.target \in Bank /\ op.target # base
  BY CompactFacts
<1>2. SourceSettled /\ HistoryTypeOK /\ ViewInv /\ AckInv
  BY DEF VInv, CompactLogInv
<1>3. Harmless(op.target, s)
  BY CopyHarmless
<1>4. ViewInv' /\ vol' = vol /\ synced' = synced /\ NowLog' = NowLog
  BY <1>1, <1>2, <1>3, HarmlessLand
<1>5. LandPost(op.target, s, v)
  BY <1>1, LandEffect DEF IInv
<1>6. base' = base /\ gen' = gen /\ catalog' = catalog
  BY DEF ram
<1>7. HistoryTypeOK' /\ AckInv'
  BY <1>2, <1>4, <1>6, HistorySame
<1>8. \A r \in Sector(base) :
        now'[base][r] = now[base][r] /\ media'[base][r] = media[base][r]
  BY <1>1, <1>5 DEF LandPost
<1>9. now'[op.target] \in Image(op.target)
  BY <1>1, <1>5 DEF LandPost, Image
<1>10. \A r \in Sector(op.target) :
         now'[op.target][r] = IF r = s THEN v ELSE now[op.target][r]
  BY <1>1, <1>5 DEF LandPost
<1>11. /\ media'[op.target][0] = media[op.target][0]
       /\ now'[op.target][0] = now[op.target][0]
  BY <1>1, <1>5, SectorZeroExists DEF LandPost, SectorZero
<1>12. now'[base] = now[base]
  <2> DEFINE f == now[base]
             g == now'[base]
  <2>1. f \in [Sector(base) -> SectorValue] /\ g \in [Sector(base) -> SectorValue]
    BY <1>1, <1>5 DEF LandPost, IInv, StoreTypeOK
  <2>2. \A r \in Sector(base) : f[r] = g[r]
    BY <1>8
  <2> HIDE DEF f, g
  <2>3. f = g
    BY <2>1, <2>2
  <2>4. QED
    BY <2>3 DEF f, g
<1>13. \A r \in Sector(base) : media'[base][r] = {now'[base][r]}
  BY <1>2, <1>8 DEF SourceSettled
<1>14. media'[op.target][0] = {now'[op.target][0]}
  BY <1>2, <1>11 DEF SourceSettled
<1>15. QED
  BY <1>4, <1>6, <1>7, <1>8, <1>9, <1>10, <1>12, <1>13, <1>14

\* Such a write goes well, or the compaction gives up.
LEMMA CopyWriteView ==
    ASSUME IInv, VInv, op.pc \in CopyPC, NEW s \in Nat \ {0}, NEW v \in SectorValue,
           NEW next, next.pc \in CopyPC, Write(op.target, s, v, next),
           UNCHANGED <<flush_supported, ram, acked>>,
           Land(op.target, s, v) /\ op' = next => CompactLogInv'
    PROVE  VInv' /\ vol' = vol /\ synced' = synced
<1>1. /\ faults' \in 0 .. MaxFaults /\ Done(-1).pc = "idle"
      /\ \/ Land(op.target, s, v) /\ op' = next
         \/ Land(op.target, s, v) /\ op' = Done(-1)
         \/ UNCHANGED disk /\ op' = Done(-1)
  BY WriteOutcome DEF VInv
<1>2. CASE UNCHANGED disk /\ op' = Done(-1)
  <2>1. catalog' = catalog /\ vol' = vol /\ synced' = synced
    BY <1>2 DEF ram, disk
  <2>2. QED
    BY <1>1, <1>2, <2>1, IdleLogs, QuietInv
<1>3. CASE Land(op.target, s, v)
  <2>1. ViewInv' /\ HistoryTypeOK' /\ AckInv' /\ vol' = vol /\ synced' = synced
    BY <1>1, <1>3, CopyLand
  <2>2. CASE op' = next
    <3>1. AppendLogInv'
      BY <2>2 DEF AppendLogInv
    <3>2. QED
      BY <1>3, <2>1, <2>2, <3>1 DEF VInv
  <2>3. CASE op' = Done(-1)
    BY <1>1, <2>1, <2>3, IdleLogs DEF VInv
  <2>4. QED
    BY <1>1, <1>3, <2>2, <2>3
<1>4. QED
  BY <1>1, <1>2, <1>3

\* A chain and its copies are not affected by a write behind them.
LEMMA CopiedLand ==
    ASSUME IInv, VInv, op.pc \in CopyPC, NEW s \in Nat \ {0}, NEW v \in SectorValue,
           Land(op.target, s, v), UNCHANGED <<flush_supported, ram, acked>>,
           faults' \in 0 .. MaxFaults, op.next <= s, NEW Q, NEW pos,
           GoodChain(now[op.target], op.target, Q, op.next),
           Copies(now[base], NowLog.heads, now[op.target], Q, pos)
    PROVE  /\ GoodChain(now'[op.target], op.target, Q, op.next)
           /\ Copies(now[base], NowLog.heads, now'[op.target], Q, pos)
<1> DEFINE f == now[op.target]
           g == now'[op.target]
           b == op.target
<1>1. b \in Bank /\ f \in Image(b) /\ op.next \in Nat
  BY CompactFacts DEF IInv, StoreTypeOK, Image, CompactOp
<1>2. g \in Image(b) /\ \A r \in Sector(b) : g[r] = IF r = s THEN v ELSE f[r]
  BY CopyLand
<1> HIDE DEF f, g, b
<1>3. GoodChain(f, b, Q, op.next)
  BY DEF f, b
<1>4. Sectors[b] \in Nat /\ op.next \in 1 .. Sectors[b]
  BY <1>1, <1>3, ChainRecords
<1>5. \A r \in 1 .. op.next - 1 : r \in Sector(b) /\ r # s
  BY <1>4 DEF Sector
<1>6. \A r \in 1 .. op.next - 1 : f[r] = g[r]
  BY <1>2, <1>5
<1>7. GoodChain(g, b, Q, op.next) /\ \A p \in Q : f[p] = g[p]
  BY <1>1, <1>2, <1>3, <1>6, ChainPrefix
<1>8. Copies(now[base], NowLog.heads, f, Q, pos)
  BY DEF f
<1>9. Copies(now[base], NowLog.heads, g, Q, pos)
  BY <1>7, <1>8, CopySame
<1>10. QED
  BY <1>7, <1>9 DEF g, b

\* The record at p of one bank, copied to q of another.
LEMMA CopiedRecord ==
    ASSUME NEW b \in Bank, NEW f \in Image(b), NEW p \in 1 .. Sectors[b] - 1,
           IsRecord(f, b, p), f[p].t = "file" => Verify(f, p),
           NEW c \in Bank, NEW g \in Image(c), NEW q \in Nat \ {0},
           q + 1 + RecordBlocks(f[p]) <= Sectors[c],
           \A j \in 0 .. RecordBlocks(f[p]) : g[q + j] = f[p + j]
    PROVE  /\ q < Sectors[c] /\ IsRecord(g, c, q) /\ g[q] = f[p]
           /\ g[q].t = "file" => Verify(g, q)
           /\ Behind(g, q) = q + 1 + RecordBlocks(f[p])
<1>1. RecordBlocks(f[p]) \in Nat /\ f[p].t \in {"file", "del"}
  BY RecordBounds
<1>2. Sectors[c] \in Nat /\ Sectors[b] \in Nat
  BY ConstantsAssumption
<1>3. g[q + 0] = f[p + 0]
  BY <1>1
<1>4. g[q] = f[p] /\ q < Sectors[c]
  BY <1>1, <1>2, <1>3
<1>5. Behind(g, q) = q + 1 + RecordBlocks(f[p])
  BY <1>4 DEF Behind
<1>6. IsRecord(g, c, q)
  BY <1>1, <1>4 DEF IsRecord, RecordBlocks
<1>7. ASSUME g[q].t = "file", NEW j \in 0 .. Blocks[g[q].file] - 1
      PROVE  g[q + 1 + j] = Data(g[q].file, j)
  <2>1. f[p].t = "file" /\ j \in 0 .. Blocks[f[p].file] - 1 /\ Verify(f, p)
    BY <1>4, <1>7
  <2>2. RecordBlocks(f[p]) = Blocks[f[p].file]
    BY <2>1 DEF RecordBlocks
  <2>3. j \in Nat /\ j + 1 \in 0 .. RecordBlocks(f[p])
    BY <1>1, <2>1, <2>2
  <2>4. g[q + (j + 1)] = f[p + (j + 1)]
    BY <2>3
  <2>5. q + (j + 1) = q + 1 + j /\ p + (j + 1) = p + 1 + j
    BY <1>2, <2>3
  <2>6. f[p + 1 + j] = Data(f[p].file, j)
    BY <2>1 DEF Verify
  <2>7. QED
    BY <1>4, <2>4, <2>5, <2>6
<1>8. g[q].t = "file" => Verify(g, q)
  BY <1>7 DEF Verify
<1>9. QED
  BY <1>4, <1>5, <1>6, <1>8

\* The parts of CompactLogInv that a write to the target carries along.
LEMMA LandCarry ==
    ASSUME IInv, VInv, op.pc \in CopyPC, NEW s \in Nat \ {0}, NEW v \in SectorValue,
           Land(op.target, s, v), UNCHANGED <<flush_supported, ram, acked>>,
           faults' \in 0 .. MaxFaults, op'.target = op.target, op'.tail = op.tail,
           op'.need = op.need
    PROVE  SourceOK' /\ SourceSettled' /\ synced' = vol'
<1>1. SourceOK /\ synced = vol
  BY DEF VInv, CompactLogInv
<1>2. /\ vol' = vol /\ synced' = synced /\ NowLog' = NowLog /\ base' = base /\ gen' = gen
      /\ \A r \in Sector(base) : media'[base][r] = {now'[base][r]}
      /\ media'[op.target][0] = {now'[op.target][0]}
  BY CopyLand
<1>3. QED
  BY <1>1, <1>2 DEF SourceOK, SourceSettled

LEMMA GcCopySectorView ==
    ASSUME IInv, VInv, GcCopySector
    PROVE  VInv' /\ vol' = vol /\ synced' = synced
<1> DEFINE blocks == RecordBlocks(CurrentRecord)
           s == op.next + op.i
           v == now[base][op.pos + op.i]
<1>1. /\ op.pc = "copysector" /\ op \in CompactOp /\ base \in Bank
      /\ op.target \in Bank /\ op.next >= 1 /\ Sectors[base] \in Nat
      /\ op.pos >= 1
  BY CompactFacts DEF GcCopySector
<1>2. /\ op.pos < op.tail /\ op.i <= blocks /\ op.pos + blocks < Sectors[base]
      /\ blocks \in Nat
  BY <1>1, RecordFacts DEF IInv, CompactInv
<1>3. /\ op.pos \in Nat /\ op.i \in Nat /\ op.next \in Nat /\ op.need \in Nat
      /\ Sectors[op.target] \in Nat
  BY <1>1, ConstantsAssumption DEF CompactOp
<1>4. s \in Nat \ {0} /\ v \in SectorValue /\ op.next <= s
  <2>1. op.pos + op.i \in Sector(base)
    BY <1>1, <1>2, <1>3 DEF Sector
  <2>2. QED
    BY <1>1, <1>3, <2>1 DEF IInv, StoreTypeOK
<1>5. UNCHANGED <<flush_supported, ram, acked>>
  BY DEF GcCopySector
<1>6. /\ IsLast(now[base], NowLog.heads, CurrentRecord.name, op.pos)
      /\ \A j \in 0 .. op.i - 1 : op.next + j < Sectors[op.target] =>
           now[op.target][op.next + j] = now[base][op.pos + j]
      /\ op.next <= Sectors[op.target] => CopiedTo(op.pos)
  BY <1>1 DEF VInv, CompactLogInv
<1>7. /\ op.pos \in NowLog.heads /\ op.pos # 0
      /\ IsRecord(now[base], base, op.pos)
      /\ CurrentRecord = now[base][op.pos]
      /\ op.pos + 1 + blocks = Behind(now[base], op.pos)
      /\ Behind(now[base], op.pos) \in NowLog.heads \union {op.tail}
      /\ \A p \in NowLog.heads :
           p < Behind(now[base], op.pos) <=> p < op.pos \/ p = op.pos
  BY <1>1, <1>2, TurnFacts
<1>8. /\ GoodChain(now[base], base, NowLog.heads, op.tail) /\ now[base] \in Image(base)
      /\ NowLog.heads \subseteq Nat
  BY <1>1, SourceLog
<1>9. ASSUME Land(op.target, s, v), faults' \in 0 .. MaxFaults, NEW j \in 0 .. op.i,
             op.next + j < Sectors[op.target]
      PROVE  now'[op.target][op.next + j] = now[base][op.pos + j]
  <2>1. \A r \in Sector(op.target) :
          now'[op.target][r] = IF r = s THEN v ELSE now[op.target][r]
    <3> HIDE DEF s, v
    <3> QED BY <1>1, <1>4, <1>5, <1>9, CopyLand
  <2>2. op.next + j \in Sector(op.target) /\ j \in Nat
    BY <1>3, <1>9 DEF Sector
  <2>3. CASE j = op.i
    BY <2>1, <2>2, <2>3
  <2>4. CASE j # op.i
    <3>1. j \in 0 .. op.i - 1 /\ op.next + j # s
      BY <1>3, <2>2, <2>4
    <3>2. QED
      BY <1>6, <1>9, <2>1, <2>2, <3>1
  <2>5. QED
    BY <2>3, <2>4
<1>10. CASE op.i < blocks
  <2> DEFINE k == op.i + 1
             next == [op EXCEPT !.i = k]
  <2>1. Write(op.target, s, v, next)
    BY <1>10 DEF GcCopySector
  <2>2. k \in Nat
    BY <1>3
  <2>3. /\ next.pc = "copysector" /\ next.target = op.target
        /\ next.tail = op.tail /\ next.pos = op.pos /\ next.next = op.next
        /\ next.need = op.need /\ next.i = k
    <3> HIDE DEF k
    <3> QED BY <1>1, <2>2 DEF CompactOp
  <2> HIDE DEF next, s, v
  <2>4. ASSUME Land(op.target, s, v), op' = next, faults' \in 0 .. MaxFaults
        PROVE  CompactLogInv'
    <3>1. SourceOK' /\ SourceSettled' /\ synced' = vol'
      BY <1>1, <1>4, <1>5, <2>3, <2>4, LandCarry
    <3>2. NowLog' = NowLog /\ base' = base /\ now'[base] = now[base]
      BY <1>1, <1>4, <1>5, <2>4, CopyLand
    <3>3. CurrentRecord' = CurrentRecord
      BY <2>3, <2>4, <3>2 DEF CurrentRecord
    <3>4. IsLast(now[base], NowLog.heads, CurrentRecord.name, op.pos)'
      BY <1>6, <2>3, <2>4, <3>2, <3>3
    <3>5. ASSUME op.next <= Sectors[op.target] PROVE CopiedTo(op.pos)'
      <4>1. PICK Q : /\ GoodChain(now[op.target], op.target, Q, op.next)
                     /\ Copies(now[base], NowLog.heads, now[op.target], Q, op.pos)
        BY <1>6, <3>5 DEF CopiedTo
      <4>2. /\ GoodChain(now'[op.target], op.target, Q, op.next)
            /\ Copies(now[base], NowLog.heads, now'[op.target], Q, op.pos)
        BY <1>1, <1>4, <1>5, <2>4, <4>1, CopiedLand
      <4>3. QED
        BY <2>3, <2>4, <3>2, <4>2 DEF CopiedTo
    <3>6. \A j \in 0 .. op'.i - 1 : op'.next + j < Sectors[op'.target] =>
            now'[op'.target][op'.next + j] = now'[base'][op'.pos + j]
      <4>1. 0 .. op'.i - 1 = 0 .. op.i
        BY <1>3, <2>3, <2>4
      <4>2. QED
        BY <1>9, <2>3, <2>4, <3>2, <4>1
    <3>7. op'.pos \in NowLog'.heads \union {op'.tail}
      BY <1>7, <2>3, <2>4, <3>2
    <3>8. QED
      BY <2>3, <2>4, <3>1, <3>4, <3>5, <3>6, <3>7 DEF CompactLogInv
  <2>5. faults' \in 0 .. MaxFaults
    BY <2>1, WriteOutcome DEF VInv
  <2>6. QED
    BY <1>1, <1>4, <1>5, <2>1, <2>3, <2>4, <2>5, CopyWriteView
<1>11. CASE ~(op.i < blocks)
  <2> DEFINE e == op.pos + 1 + blocks
             n == op.next + 1 + blocks
             next == [op EXCEPT !.pc = "copy", !.i = 0, !.pos = e, !.next = n]
  <2>1. Write(op.target, s, v, next) /\ op.i = blocks
    BY <1>2, <1>3, <1>11 DEF GcCopySector
  <2>2. e \in Nat /\ n \in Nat
    BY <1>2, <1>3
  <2>3. /\ next.pc = "copy" /\ next.target = op.target
        /\ next.tail = op.tail /\ next.pos = e /\ next.next = n /\ next.need = op.need
    <3>1. next = [op EXCEPT !.pc = "copy", !.i = 0, !.pos = e, !.next = n]
      OBVIOUS
    <3> HIDE DEF e, n, next
    <3>2. QED
      BY <1>1, <2>2, <3>1 DEF CompactOp
  <2> HIDE DEF next, s, v
  <2>4. ASSUME Land(op.target, s, v), op' = next, faults' \in 0 .. MaxFaults
        PROVE  CompactLogInv'
    <3>1. SourceOK' /\ SourceSettled' /\ synced' = vol'
      BY <1>1, <1>4, <1>5, <2>3, <2>4, LandCarry
    <3>2. /\ NowLog' = NowLog /\ base' = base /\ now'[base] = now[base]
          /\ now'[op.target] \in Image(op.target)
      BY <1>1, <1>4, <1>5, <2>4, CopyLand
    <3>3. ASSUME n <= Sectors[op.target] PROVE CopiedTo(op.pos)'
      <4>1. op.next <= Sectors[op.target]
        BY <1>2, <1>3, <3>3
      <4>2. PICK Q : /\ GoodChain(now[op.target], op.target, Q, op.next)
                     /\ Copies(now[base], NowLog.heads, now[op.target], Q, op.pos)
        BY <1>6, <4>1 DEF CopiedTo
      <4>3. /\ GoodChain(now'[op.target], op.target, Q, op.next)
            /\ Copies(now[base], NowLog.heads, now'[op.target], Q, op.pos)
        BY <1>1, <1>4, <1>5, <2>4, <4>2, CopiedLand
      <4>4. op.pos \in 1 .. Sectors[base] - 1
        BY <1>1, <1>2, <1>3
      <4>5. now[base][op.pos].t = "file" => Verify(now[base], op.pos)
        BY <1>7, <1>8 DEF GoodChain
      <4> DEFINE f == now[base]
                 g == now'[op.target]
                 c == op.target
                 q == op.next
      <4>6. blocks = RecordBlocks(f[op.pos])
        BY <1>7
      <4>7. \A j \in 0 .. RecordBlocks(f[op.pos]) : g[q + j] = f[op.pos + j]
        <5>1. ASSUME NEW j \in 0 .. RecordBlocks(f[op.pos])
              PROVE  j \in 0 .. op.i /\ op.next + j < Sectors[op.target]
          BY <1>2, <1>3, <2>1, <3>3, <4>6
        <5>2. QED
          BY <1>9, <2>4, <5>1
      <4>8. /\ c \in Bank /\ g \in Image(c) /\ q \in Nat \ {0}
            /\ q + 1 + RecordBlocks(f[op.pos]) <= Sectors[c]
            /\ f \in Image(base) /\ IsRecord(f, base, op.pos)
        BY <1>1, <1>3, <1>7, <1>8, <3>2, <3>3, <4>6
      <4>9. /\ GoodChain(g, c, Q, q) /\ Copies(f, NowLog.heads, g, Q, op.pos)
            /\ f[op.pos].t = "file" => Verify(f, op.pos)
        BY <4>3, <4>5
      <4>10. \A p \in NowLog.heads : p < e <=> p < op.pos \/ p = op.pos
        BY <1>7
      <4>11. IsLast(f, NowLog.heads, f[op.pos].name, op.pos)
        BY <1>6, <1>7
      <4> HIDE DEF f, g, c, q
      <4>12. /\ q < Sectors[c] /\ IsRecord(g, c, q) /\ g[q] = f[op.pos]
             /\ g[q].t = "file" => Verify(g, q)
             /\ Behind(g, q) = q + 1 + RecordBlocks(f[op.pos])
        BY <1>1, <4>4, <4>7, <4>8, <4>9, CopiedRecord
      <4>13. GoodChain(g, c, Q \union {q}, Behind(g, q))
        BY <4>8, <4>9, <4>12, ChainExtend
      <4>14. Copies(f, NowLog.heads, g, Q \union {q}, e)
        BY <1>7, <1>8, <4>9, <4>10, <4>11, <4>12, CopyAdd
      <4>15. Behind(g, q) = n
        BY <4>6, <4>12 DEF q
      <4>16. /\ f = now'[base'] /\ g = now'[op'.target] /\ c = op'.target
             /\ NowLog' = NowLog /\ op'.next = n /\ op'.pos = e
        BY <2>3, <2>4, <3>2 DEF f, g, c
      <4>17. QED
        BY <4>13, <4>14, <4>15, <4>16 DEF CopiedTo
    <3>4. op'.pos \in NowLog'.heads \union {op'.tail}
      BY <1>7, <2>3, <2>4, <3>2
    <3>5. QED
      BY <2>3, <2>4, <3>1, <3>3, <3>4 DEF CompactLogInv
  <2>5. faults' \in 0 .. MaxFaults
    BY <2>1, WriteOutcome DEF VInv
  <2>6. QED
    BY <1>1, <1>4, <1>5, <2>1, <2>3, <2>4, <2>5, CopyWriteView
<1>12. QED
  BY <1>10, <1>11

\* At the end of the second loop every latest record is copied.
LEMMA GcCopiedView ==
    ASSUME IInv, VInv, GcCopied
    PROVE  VInv'
<1> DEFINE next == [op EXCEPT !.pc = "gcterm"]
<1>1. /\ op.pc = "copy" /\ op.pos >= op.tail
      /\ op' = Done(-1) \/ (op.next = op.need /\ op' = next)
      /\ UNCHANGED <<disk, flush_supported, ram, faults, acked>>
  BY DEF GcCopied
<1>2. /\ op \in CompactOp /\ SourceOK /\ op.tail \in Nat
      /\ NowLog.heads \subseteq 1 .. op.tail - 1 /\ HistoryTypeOK
  BY <1>1, SourceLog
<1>3. faults' \in 0 .. MaxFaults /\ catalog' = catalog /\ base' = base /\ gen' = gen
  BY <1>1, <1>2, FaultBound DEF ram
<1>4. CASE op' = Done(-1)
  <2>1. Done(-1).pc = "idle"
    BY DoneIdle DEF IInv, StoreTypeOK
  <2>2. QED
    BY <1>1, <1>3, <1>4, <2>1, IdleLogs, QuietInv
<1>5. CASE op.next = op.need /\ op' = next
  <2>1. /\ op'.pc = "gcterm" /\ op'.target = op.target /\ op'.tail = op.tail
        /\ op'.next = op.next /\ op'.need = op.need
    BY <1>2, <1>5 DEF CompactOp
  <2>2. op.pos \in NowLog.heads \union {op.tail}
    BY <1>1 DEF VInv, CompactLogInv
  <2>3. op.pos = op.tail
    BY <1>1, <1>2, <2>2
  <2>4. CopiedTo(op.tail)
    BY <1>1, <1>2, <1>5, <2>3 DEF VInv, CompactLogInv, SourceOK
  <2>5. /\ SourceOK' /\ SourceSettled' /\ synced' = vol'
        /\ NowLog' = NowLog /\ now' = now
    BY <1>1, <1>2, <1>3, <2>1, LoopCarry DEF SourceOK
  <2>6. CopiedTo(op.tail)'
    BY <1>3, <2>1, <2>4, <2>5 DEF CopiedTo
  <2>7. CompactLogInv'
    BY <2>1, <2>5, <2>6 DEF CompactLogInv
  <2>8. QED
    BY <1>1, <1>3, <2>1, <2>7, CompactQuietView
<1>6. QED
  BY <1>1, <1>4, <1>5

\* The copy is terminated.
LEMMA GcTermView ==
    ASSUME IInv, VInv, GcTerm
    PROVE  VInv' /\ vol' = vol /\ synced' = synced
<1> DEFINE next == [op EXCEPT !.pc = "gcorder"]
<1>1. op.pc = "gcterm" /\ op \in CompactOp /\ op.next >= 1 /\ op.target \in Bank
  BY CompactFacts DEF GcTerm
<1>2. UNCHANGED <<flush_supported, ram, acked>>
  BY DEF GcTerm
<1>3. /\ next.pc = "gcorder" /\ next.target = op.target
      /\ next.tail = op.tail /\ next.next = op.next /\ next.need = op.need
  BY <1>1 DEF CompactOp
<1>4. op.next \in Nat \ {0} /\ Zero \in SectorValue /\ Sectors[op.target] \in Nat
  BY <1>1, ConstantsAssumption DEF CompactOp, SectorValue
<1>5. PICK Q : /\ GoodChain(now[op.target], op.target, Q, op.next)
               /\ Copies(now[base], NowLog.heads, now[op.target], Q, op.tail)
  BY <1>1 DEF VInv, CompactLogInv, CopiedTo
<1>6. \/ op.next < Sectors[op.target] /\ Write(op.target, op.next, Zero, next)
      \/ ~(op.next < Sectors[op.target]) /\ op' = next /\ UNCHANGED <<disk, faults>>
  BY DEF GcTerm
<1> HIDE DEF next
<1>7. CASE op.next < Sectors[op.target] /\ Write(op.target, op.next, Zero, next)
  <2>1. ASSUME Land(op.target, op.next, Zero), op' = next, faults' \in 0 .. MaxFaults
        PROVE  CompactLogInv'
    <3>1. SourceOK' /\ SourceSettled' /\ synced' = vol'
      BY <1>1, <1>2, <1>3, <1>4, <2>1, LandCarry
    <3>2. /\ NowLog' = NowLog /\ base' = base /\ now'[base] = now[base]
          /\ \A r \in Sector(op.target) :
               now'[op.target][r] = IF r = op.next THEN Zero ELSE now[op.target][r]
      BY <1>1, <1>2, <1>4, <2>1, CopyLand
    <3>3. /\ GoodChain(now'[op.target], op.target, Q, op.next)
          /\ Copies(now[base], NowLog.heads, now'[op.target], Q, op.tail)
      BY <1>1, <1>2, <1>4, <1>5, <2>1, CopiedLand
    <3>4. CopiedTo(op.tail)'
      BY <1>3, <2>1, <3>2, <3>3 DEF CopiedTo
    <3>5. op.next \in Sector(op.target)
      BY <1>4, <1>7 DEF Sector
    <3>6. now'[op.target][op.next] = Zero
      BY <3>2, <3>5
    <3>7. QED
      BY <1>3, <2>1, <3>1, <3>4, <3>6 DEF CompactLogInv
  <2>2. faults' \in 0 .. MaxFaults
    BY <1>7, WriteOutcome DEF VInv
  <2>3. QED
    BY <1>1, <1>2, <1>3, <1>4, <1>7, <2>1, <2>2, CopyWriteView
<1>8. CASE ~(op.next < Sectors[op.target]) /\ op' = next /\ UNCHANGED <<disk, faults>>
  <2>1. catalog' = catalog /\ base' = base /\ gen' = gen /\ faults' \in 0 .. MaxFaults
    BY <1>2, <1>8, FaultBound DEF ram, VInv
  <2>2. op.need <= Sectors[op.target]
    BY <1>1, SourceLog DEF SourceOK
  <2>3. /\ SourceOK' /\ SourceSettled' /\ synced' = vol'
        /\ NowLog' = NowLog /\ now' = now
    BY <1>1, <1>2, <1>3, <1>8, <2>1, <2>2, LoopCarry
  <2>4. CopiedTo(op.tail)'
    BY <1>3, <1>5, <1>8, <2>1, <2>3 DEF CopiedTo
  <2>5. CompactLogInv'
    BY <1>3, <1>8, <2>3, <2>4 DEF CompactLogInv
  <2>6. VInv'
    BY <1>1, <1>2, <1>3, <1>8, <2>1, <2>5, CompactQuietView
  <2>7. QED
    BY <1>8, <2>6 DEF disk
<1>9. QED
  BY <1>6, <1>7, <1>8

\* The flush before the superblock settles the copy.
LEMMA GcOrderFlushView ==
    ASSUME IInv, VInv, GcOrderFlush
    PROVE  VInv' /\ vol' = vol /\ synced' \in {synced, vol}
<1> DEFINE next == [op EXCEPT !.pc = "super"]
<1>1. op.pc = "gcorder" /\ Flush(next, -1) /\ UNCHANGED <<flush_supported, ram, acked>>
  BY DEF GcOrderFlush
<1>2. /\ op \in CompactOp /\ base \in Bank /\ op.target \in Bank /\ SourceOK
      /\ HistoryTypeOK /\ ViewInv /\ AckInv
  BY <1>1, SourceLog
<1>3. /\ CopiedTo(op.tail)
      /\ op.next < Sectors[op.target] => now[op.target][op.next] = Zero
  BY <1>1 DEF VInv, CompactLogInv
<1>4. /\ next.pc = "super" /\ next.target = op.target /\ next.tail = op.tail
      /\ next.need = op.need /\ next.next = op.next
  BY <1>2 DEF CompactOp
<1> HIDE DEF next
<1>5. /\ faults' \in 0 .. MaxFaults
      /\ Done(-1).pc = "idle"
      /\ \/ /\ media' = [b \in Bank |-> [s \in Sector(b) |-> {now[b][s]}]]
            /\ synced' = vol /\ op' = next /\ UNCHANGED <<now, vol>>
         \/ UNCHANGED disk /\ op' = Done(-1)
  BY <1>1, <1>2, FlushOutcome
<1>6. base' = base /\ gen' = gen /\ catalog' = catalog /\ acked' = acked
  BY <1>1 DEF ram
<1>7. CASE UNCHANGED disk /\ op' = Done(-1)
  <2>1. VInv'
    BY <1>1, <1>5, <1>6, <1>7, IdleLogs, QuietInv
  <2>2. QED
    BY <1>7, <2>1 DEF disk
<1>8. CASE /\ media' = [b \in Bank |-> [s \in Sector(b) |-> {now[b][s]}]]
           /\ synced' = vol /\ op' = next /\ UNCHANGED <<now, vol>>
  <2>1. /\ ViewInv' /\ Settled'
        /\ NowLog' = NowLog /\ Selected(now)' = Selected(now)
    BY <1>2, <1>8, FlushView
  <2>2. HistoryTypeOK' /\ AckInv'
    BY <1>2, <1>5, <1>6, <1>8 DEF HistoryTypeOK, AckInv
  <2>3. AppendLogInv'
    BY <1>4, <1>8 DEF AppendLogInv
  <2>4. SourceOK'
    BY <1>2, <1>4, <1>6, <1>8, <2>1 DEF SourceOK
  <2>5. SourceSettled'
    BY <1>2, <1>4, <1>6, <1>8, <2>1, SectorZeroExists DEF SourceSettled, Settled, SectorZero
  <2>6. CopiedTo(op.tail)'
    BY <1>3, <1>4, <1>6, <1>8, <2>1 DEF CopiedTo
  <2>7. CompactLogInv'
    BY <1>3, <1>4, <1>8, <2>1, <2>4, <2>5, <2>6 DEF CompactLogInv
  <2>8. QED
    BY <1>8, <2>1, <2>2, <2>3, <2>7 DEF VInv
<1>9. QED
  BY <1>5, <1>7, <1>8

\* The new superblock makes the copy the log, which stores the same files.
LEMMA SuperLog ==
    ASSUME IInv, VInv, op.pc = "super", Land(op.target, 0, Super(gen + 1))
    PROVE  /\ Selected(now') = op.target /\ Super(gen + 1) \in SectorValue
           /\ now'[op.target] \in Image(op.target)
           /\ \E Q : /\ Reads(now', Q, op.next)
                     /\ \A n : Stored(now'[op.target], Q, n) =
                                 Stored(now[base], NowLog.heads, n)
                     /\ \A p, q \in Q : now'[op.target][p].name = now'[op.target][q].name
                                          => p = q
<1>1. /\ op \in CompactOp /\ base \in Bank /\ op.target \in Bank
      /\ op.target = Other(base) /\ op.target # base
      /\ gen = now[base][0].gen /\ now[base][0].t = "super"
  BY CompactFacts
<1>2. /\ SourceOK /\ Disk(now) /\ op.tail \in Nat
      /\ NowLog.heads \subseteq 1 .. op.tail - 1
  BY SourceLog
<1>3. gen \in Nat /\ gen + 1 \in 0 .. MaxGen
  BY <1>2, ConstantsAssumption DEF SourceOK, IInv, StoreTypeOK
<1>4. Super(gen + 1) \in SectorValue /\ Super(gen + 1).t = "super" /\ Super(gen + 1).gen = gen + 1
  BY <1>3 DEF SectorValue, Super
<1> DEFINE v == Super(gen + 1)
<1>5. LandPost(op.target, 0, v)
  <2> HIDE DEF v
  <2> QED BY <1>1, <1>4, LandEffect DEF IInv, v
<1> HIDE DEF v
<1>6. /\ now'[op.target][0] = v /\ now'[base][0] = now[base][0]
      /\ now'[op.target] \in Image(op.target)
      /\ \A r \in Sector(op.target) : r # 0 => now'[op.target][r] = now[op.target][r]
  BY <1>1, <1>5, SectorZeroExists DEF LandPost, SectorZero, Image
<1>7. ValidBanks(now') = Bank
  BY <1>1, <1>4, <1>6 DEF ValidBanks, Bank, Other, v
<1>8. Selected(now') = op.target
  <2>1. now'[op.target][0].gen = gen + 1 /\ now'[base][0].gen = gen
    BY <1>1, <1>4, <1>6 DEF v
  <2>2. CASE base = "A"
    <3>1. op.target = "B" /\ now'["B"][0].gen > now'["A"][0].gen
      BY <1>1, <1>3, <2>1, <2>2 DEF Other
    <3>2. QED
      BY <1>7, <3>1 DEF Selected, SelectBank, Bank
  <2>3. CASE base = "B"
    <3>1. op.target = "A" /\ ~(now'["B"][0].gen > now'["A"][0].gen)
      BY <1>1, <1>3, <2>1, <2>3 DEF Other
    <3>2. QED
      BY <1>7, <3>1 DEF Selected, SelectBank, Bank
  <2>4. QED
    BY <1>1, <2>2, <2>3 DEF Bank
<1>9. PICK Q : /\ GoodChain(now[op.target], op.target, Q, op.next)
               /\ Copies(now[base], NowLog.heads, now[op.target], Q, op.tail)
  BY DEF VInv, CompactLogInv, CopiedTo
<1>10. op.next < Sectors[op.target] => now[op.target][op.next] = Zero
  BY DEF VInv, CompactLogInv
<1> DEFINE f == now[op.target]
           g == now'[op.target]
           c == op.target
           t == op.next
           src == now[base]
<1>11. /\ c \in Bank /\ f \in Image(c) /\ g \in Image(c)
       /\ GoodChain(f, c, Q, t) /\ Copies(src, NowLog.heads, f, Q, op.tail)
       /\ \A r \in Sector(c) : r # 0 => g[r] = f[r]
       /\ t < Sectors[c] => f[t] = Zero
  BY <1>1, <1>2, <1>6, <1>9, <1>10 DEF Disk
<1> HIDE DEF f, g, c, t, src
<1>12. Sectors[c] \in Nat /\ t \in 1 .. Sectors[c] /\ Q \subseteq 1 .. t - 1
  BY <1>11, ChainRecords
<1>13. /\ \A r \in 1 .. t - 1 : f[r] = g[r]
       /\ t < Sectors[c] => g[t] = Zero
  BY <1>11, <1>12 DEF Sector
<1>14. GoodChain(g, c, Q, t) /\ \A p \in Q : f[p] = g[p]
  BY <1>11, <1>13, ChainPrefix
<1>15. Copies(src, NowLog.heads, g, Q, op.tail)
  BY <1>11, <1>14, CopySame
<1>16. \A n : Stored(g, Q, n) = Stored(src, NowLog.heads, n)
  <2>1. Q \subseteq 1 .. t /\ t \in Nat
    BY <1>12
  <2>2. Within(NowLog.heads, op.tail, Q, t)
    BY <1>2, <2>1 DEF Within
  <2>3. QED
    BY <1>15, <2>2, CopyStores
<1>17. \A p, q \in Q : g[p].name = g[q].name => p = q
  BY <1>15 DEF Copies
<1>18. Reads(now', Q, op.next)
  <2>1. GoodLog(g, c, Q, t)
    BY <1>13, <1>14 DEF GoodLog
  <2>2. ValidBanks(now') # {}
    BY <1>7 DEF Bank
  <2>3. QED
    BY <1>8, <2>1, <2>2 DEF Reads, g, c, t
<1>19. QED
  BY <1>4, <1>6, <1>8, <1>16, <1>17, <1>18 DEF g, src

LEMMA GcSuperView ==
    ASSUME IInv, VInv, GcSuper
    PROVE  VInv' /\ vol' = vol /\ synced' = synced
<1> DEFINE next == [op EXCEPT !.pc = "gccommit"]
           v == Super(gen + 1)
<1>1. /\ op.pc = "super" /\ op \in CompactOp /\ base \in Bank
      /\ op.target \in Bank /\ op.target # base /\ base = Selected(now)
      /\ flush_supported
  BY CompactFacts DEF GcSuper
<1>2. SourceOK /\ HistoryTypeOK /\ ViewInv /\ AckInv
  BY <1>1, SourceLog
<1>3. Write(op.target, 0, v, next)
  <2>1. gen # MaxGen
    BY <1>2, ConstantsAssumption DEF SourceOK, IInv, StoreTypeOK
  <2>2. QED
    BY <2>1 DEF GcSuper
<1>4. UNCHANGED <<flush_supported, ram, acked>> /\ catalog' = catalog
  BY DEF GcSuper, ram
<1>5. next.pc = "gccommit" /\ next.target = op.target
  BY <1>1 DEF CompactOp
<1> HIDE DEF next, v
<1>6. /\ faults' \in 0 .. MaxFaults /\ Done(-1).pc = "idle"
      /\ \/ Land(op.target, 0, v) /\ op' = next
         \/ Land(op.target, 0, v) /\ op' = Done(-1)
         \/ UNCHANGED disk /\ op' = Done(-1)
  BY <1>2, <1>3, WriteOutcome
<1>7. CASE UNCHANGED disk /\ op' = Done(-1)
  <2>1. VInv'
    BY <1>4, <1>6, <1>7, IdleLogs, QuietInv
  <2>2. QED
    BY <1>7, <2>1 DEF disk
<1>8. CASE Land(op.target, 0, v)
  <2>1. Settled /\ synced = vol
    BY <1>1 DEF VInv, CompactLogInv
  <2>2. /\ Selected(now') = op.target /\ v \in SectorValue
        /\ now'[op.target] \in Image(op.target)
        /\ \E Q : /\ Reads(now', Q, op.next)
                  /\ \A n : Stored(now'[op.target], Q, n) =
                              Stored(now[base], NowLog.heads, n)
                  /\ \A p, q \in Q : now'[op.target][p].name = now'[op.target][q].name
                                       => p = q
    BY <1>1, <1>8, SuperLog DEF v
  <2>3. PICK Q : /\ Reads(now', Q, op.next)
                 /\ \A n : Stored(now'[op.target], Q, n) =
                             Stored(now[base], NowLog.heads, n)
                 /\ \A p, q \in Q : now'[op.target][p].name = now'[op.target][q].name
                                      => p = q
    BY <2>2
  <2>4. /\ ViewInv' /\ NowLog'.heads = Q
        /\ vol' = [n \in Names |-> Stored(now'[op.target], Q, n)]
        /\ synced' = vol
    <3>1. 0 \in Nat /\ flush_supported' = flush_supported
      BY <1>4
    <3>2. Selected(now') # Selected(now)
      BY <1>1, <2>2
    <3>3. QED
      BY <1>1, <1>2, <1>8, <2>1, <2>2, <2>3, <3>1, <3>2, VisibleLand
  <2>5. vol = [n \in Names |-> Stored(now[base], NowLog.heads, n)]
    BY <1>1, <1>2, NowReads
  <2>6. vol' = vol /\ synced' = synced
    BY <2>1, <2>3, <2>4, <2>5
  <2>7. HistoryTypeOK' /\ AckInv'
    BY <1>2, <1>4, <1>6, <2>6, HistorySame
  <2>8. CASE op' = next
    <3>1. op'.pc = "gccommit" /\ op'.target = op.target
      BY <1>5, <2>8
    <3>2. Scan(now'[op.target], op.target).heads = Q
      BY <2>2, <2>4 DEF NowLog
    <3>3. AppendLogInv'
      BY <3>1 DEF AppendLogInv
    <3>4. CompactLogInv'
      BY <2>1, <2>3, <2>6, <3>1, <3>2 DEF CompactLogInv
    <3>5. QED
      BY <2>4, <2>6, <2>7, <3>3, <3>4 DEF VInv
  <2>9. CASE op' = Done(-1)
    BY <1>6, <2>4, <2>6, <2>7, <2>9, IdleLogs DEF VInv
  <2>10. QED
    BY <1>6, <1>8, <2>8, <2>9
<1>9. QED
  BY <1>6, <1>7, <1>8

LEMMA GcCommitFlushView ==
    ASSUME IInv, VInv, GcCommitFlush
    PROVE  VInv' /\ vol' = vol /\ synced' \in {synced, vol}
<1> DEFINE next == [op EXCEPT !.pc = "reselect"]
<1>1. op.pc = "gccommit" /\ Flush(next, -5) /\ UNCHANGED <<flush_supported, ram, acked>>
  BY DEF GcCommitFlush
<1>2. op \in CompactOp
  BY <1>1, OpCases DEF IInv, StoreTypeOK
<1>3. /\ HistoryTypeOK /\ ViewInv /\ AckInv /\ synced = vol
      /\ \A p, q \in Scan(now[op.target], op.target).heads :
           now[op.target][p].name = now[op.target][q].name => p = q
  BY <1>1 DEF VInv, CompactLogInv
<1>4. next.pc = "reselect" /\ next.target = op.target
  BY <1>2 DEF CompactOp
<1> HIDE DEF next
<1>5. /\ faults' \in 0 .. MaxFaults
      /\ Done(-5).pc = "idle"
      /\ \/ /\ media' = [b \in Bank |-> [s \in Sector(b) |-> {now[b][s]}]]
            /\ synced' = vol /\ op' = next /\ UNCHANGED <<now, vol>>
         \/ UNCHANGED disk /\ op' = Done(-5)
  BY <1>1, <1>3, FlushOutcome
<1>6. catalog' = catalog /\ acked' = acked
  BY <1>1 DEF ram
<1>7. CASE UNCHANGED disk /\ op' = Done(-5)
  <2>1. VInv'
    BY <1>1, <1>5, <1>6, <1>7, IdleLogs, QuietInv
  <2>2. QED
    BY <1>7, <2>1 DEF disk
<1>8. CASE /\ media' = [b \in Bank |-> [s \in Sector(b) |-> {now[b][s]}]]
           /\ synced' = vol /\ op' = next /\ UNCHANGED <<now, vol>>
  <2>1. ViewInv'
    BY <1>3, <1>8, FlushView
  <2>2. HistoryTypeOK' /\ AckInv'
    BY <1>3, <1>5, <1>6, <1>8, HistorySame
  <2>3. AppendLogInv'
    BY <1>4, <1>8 DEF AppendLogInv
  <2>4. CompactLogInv'
    BY <1>3, <1>4, <1>8 DEF CompactLogInv
  <2>5. QED
    BY <1>8, <2>1, <2>2, <2>3, <2>4 DEF VInv
<1>9. QED
  BY <1>5, <1>7, <1>8

LEMMA GcReselectView ==
    ASSUME IInv, VInv, GcReselect
    PROVE  VInv'
<1>1. /\ op' = Done(-1) \/ op' = Done(0)
      /\ UNCHANGED <<disk, flush_supported, catalog, acked>>
      /\ \E S \in SUBSET Bank : Probe(S)
  BY DEF GcReselect
<1>2. Done(-1).pc = "idle" /\ Done(0).pc = "idle"
  BY DoneIdle DEF IInv, StoreTypeOK
<1>3. faults' \in 0 .. MaxFaults
  BY <1>1, FaultBound DEF Probe, VInv
<1>4. QED
  BY <1>1, <1>2, <1>3, IdleLogs, QuietInv

-----------------------------------------------------------------------------
(* The invariant.                                                           *)

LEMMA InitVInv ==
    ASSUME Init
    PROVE  VInv
<1>1. IInv /\ op.pc = "idle" /\ Disk(now)
  BY InitInv DEF Init, Idle, IInv, StoreTypeOK, Disk, Image
<1>2. /\ now["A"][0] = Super(0)
      /\ \A b \in Bank : \A s \in Sector(b) : s # 0 => now[b][s] = Zero
      /\ now["B"][0] = Zero
  BY SectorZeroExists DEF Init, SectorZero, Bank
<1>3. Settled
  BY DEF Init, Settled
<1>4. ValidBanks(now) = {"A"} /\ Selected(now) = "A"
  BY <1>2 DEF ValidBanks, Bank, Selected, SelectBank, Super, Zero
<1>5. "A" \in Bank /\ Sectors["A"] \in Nat \ {0, 1}
  BY ConstantsAssumption DEF Bank
<1>6. 1 \in Sector("A")
  BY <1>5 DEF Sector
<1>7. GoodChain(now["A"], "A", {}, 1)
  BY <1>5 DEF GoodChain, Chain
<1>8. GoodLog(now["A"], "A", {}, 1)
  BY <1>2, <1>5, <1>6, <1>7 DEF GoodLog
<1>9. Reads(now, {}, 1)
  BY <1>4, <1>8 DEF Reads
<1>10. View(now) = [n \in Names |-> Stored(now["A"], {}, n)]
  BY <1>1, <1>4, <1>9, ReadsView
<1>11. \A n : Stored(now["A"], {}, n) = Absent
  BY DEF Stored, LatestOf
<1>12. vol = View(now) /\ synced = vol /\ vol \in [Names -> {Absent}]
  BY <1>10, <1>11 DEF Init
<1>13. ASSUME NEW img, Possible(img) PROVE ImageOK(img)
  <2>1. Disk(img)
    BY <1>13 DEF Possible
  <2>2. \A b \in Bank : \A s \in Sector(b) : now[b][s] = img[b][s]
    BY <1>3, <1>13 DEF Possible, Settled
  <2>3. \A b \in Bank : now[b][0] = img[b][0]
    BY <2>2, SectorZeroExists DEF SectorZero
  <2>4. \A s \in Sector(Selected(now)) : now[Selected(now)][s] = img[Selected(now)][s]
    BY <1>4, <1>5, <2>2
  <2>5. Reads(img, {}, 1) /\ View(img) = View(now)
    BY <1>1, <1>9, <2>1, <2>3, <2>4, ReadsSame
  <2>6. NowLog.tail = 1
    BY <1>1, <1>9, ReadsLog DEF NowLog
  <2>7. View(img) \in {vol, synced} /\ 1 <= NowLog.tail
    BY <1>12, <2>5, <2>6
  <2>8. QED
    BY <2>5, <2>7 DEF ImageOK
<1>14. ViewInv
  BY <1>12, <1>13 DEF ViewInv
<1>15. HistoryTypeOK
  BY <1>12, ConstantsAssumption DEF HistoryTypeOK, Init, NoCatalog, Contents
<1>16. AckInv
  BY DEF AckInv, Init, NoCatalog
<1>17. QED
  BY <1>1, <1>14, <1>15, <1>16 DEF VInv, AppendLogInv, CompactLogInv

\* What a step may do to the volume: nothing, one change on top of a durable
\* volume, a flush, or a loss of what is not durable.
VolumeStep ==
    \/ UNCHANGED <<vol, synced>>
    \/ \E n \in Names, x \in Files \union {Deleted} :
         /\ synced = vol /\ vol' = [vol EXCEPT ![n] = x]
         /\ synced' \in {synced, vol'}
    \/ vol' = vol /\ synced' = vol
    \/ vol' \in {vol, synced} /\ synced' = vol'

\* A step that is not a power loss and does not write a header leaves the
\* volume alone.
LEMMA StepVInv ==
    ASSUME IInv, VInv, Step, ~SuperReadFaults
    PROVE  VInv' /\ VolumeStep /\ (vol' = vol \/ WriteHeader)
<1>1. CASE PutBlock
  BY <1>1, PutBlockView DEF VolumeStep
<1>2. CASE StreamWrite
  BY <1>2, StreamWriteView DEF VolumeStep
<1>3. CASE StreamAbandon
  <2>1. VInv'
    BY <1>3, StreamAbandonView
  <2>2. QED
    BY <1>3, <2>1 DEF VolumeStep, StreamAbandon, disk
<1>4. CASE StreamFinish
  BY <1>4, StreamFinishView DEF VolumeStep
<1>5. CASE TerminateLog
  BY <1>5, TerminateLogView DEF VolumeStep
<1>6. CASE OrderFlush
  BY <1>6, OrderFlushView DEF VolumeStep
<1>7. CASE WriteHeader
  <2>1. /\ VInv'
        /\ \/ UNCHANGED <<vol, synced>>
           \/ /\ synced = vol /\ vol' = [vol EXCEPT ![op.name] = op.x]
              /\ synced' \in {vol, vol'}
    BY <1>7, WriteHeaderView
  <2>2. op.name \in Names /\ op.x \in Files \union {Deleted}
    BY <1>7, AppendFacts DEF WriteHeader, AppendOp
  <2>3. QED
    BY <1>7, <2>1, <2>2 DEF VolumeStep
<1>8. CASE CommitFlush
  BY <1>8, CommitFlushView DEF VolumeStep
<1>9. CASE GcFlush
  BY <1>9, GcFlushView DEF VolumeStep
<1>10. CASE GcCheck
  <2>1. VInv' /\ UNCHANGED disk
    BY <1>10, GcCheckView DEF GcCheck, GcTurn
  <2>2. QED
    BY <2>1 DEF VolumeStep, disk
<1>11. CASE GcChecked
  <2>1. VInv' /\ UNCHANGED disk
    BY <1>11, GcCheckedView DEF GcChecked
  <2>2. QED
    BY <2>1 DEF VolumeStep, disk
<1>12. CASE GcCopy
  <2>1. VInv' /\ UNCHANGED disk
    BY <1>12, GcCopyView DEF GcCopy, GcTurn
  <2>2. QED
    BY <2>1 DEF VolumeStep, disk
<1>13. CASE GcCopySector
  BY <1>13, GcCopySectorView DEF VolumeStep
<1>14. CASE GcCopied
  <2>1. VInv' /\ UNCHANGED disk
    BY <1>14, GcCopiedView DEF GcCopied
  <2>2. QED
    BY <2>1 DEF VolumeStep, disk
<1>15. CASE GcTerm
  BY <1>15, GcTermView DEF VolumeStep
<1>16. CASE GcOrderFlush
  BY <1>16, GcOrderFlushView DEF VolumeStep
<1>17. CASE GcSuper
  BY <1>17, GcSuperView DEF VolumeStep
<1>18. CASE GcCommitFlush
  BY <1>18, GcCommitFlushView DEF VolumeStep
<1>19. CASE GcReselect
  <2>1. VInv' /\ UNCHANGED disk
    BY <1>19, GcReselectView DEF GcReselect
  <2>2. QED
    BY <2>1 DEF VolumeStep, disk
<1>20. QED
  BY <1>1, <1>2, <1>3, <1>4, <1>5, <1>6, <1>7, <1>8, <1>9, <1>10, <1>11, <1>12,
     <1>13, <1>14, <1>15, <1>16, <1>17, <1>18, <1>19 DEF Step

\* Every step preserves the invariant and is a step of the volume.
LEMMA NextVInv ==
    ASSUME IInv, VInv, [Next]_vars, ~SuperReadFaults
    PROVE  VInv' /\ VolumeStep
<1>1. CASE UNCHANGED vars
  <2>1. UNCHANGED <<vol, synced>>
    BY <1>1 DEF vars
  <2>2. VInv'
    <3>1. HistoryTypeOK' /\ AckInv'
      BY <1>1 DEF vars, VInv, HistoryTypeOK, AckInv
    <3>2. UNCHANGED disk /\ flush_supported' = flush_supported
      BY <1>1 DEF vars, disk
    <3>3. ViewInv' /\ NowLog' = NowLog /\ Selected(now)' = Selected(now)
      BY <3>2, DiskSame DEF VInv
    <3>4. AppendLogInv'
      BY <1>1, <3>3 DEF vars, VInv, AppendLogInv, Settled
    <3>5. CompactLogInv'
      BY <1>1, <3>3 DEF vars, VInv, CompactLogInv, Settled, SourceOK, SourceSettled,
                        CopiedTo, CurrentRecord
    <3>6. QED
      BY <3>1, <3>3, <3>4, <3>5 DEF VInv
  <2>3. QED
    BY <2>1, <2>2 DEF VolumeStep
<1>2. ASSUME NEW kind, NEW pc \in {"data", "recv", "term"}, NEW n, NEW x,
             BeginAppend(kind, pc, n, x)
      PROVE  VInv' /\ VolumeStep
  <2>1. VInv' /\ UNCHANGED disk
    BY <1>2, BeginAppendView DEF BeginAppend
  <2>2. QED
    BY <2>1 DEF VolumeStep, disk
<1>3. CASE EntryAt
  <2>1. VInv' /\ UNCHANGED disk
    BY <1>3, EntryAtView DEF EntryAt
  <2>2. QED
    BY <2>1 DEF VolumeStep, disk
<1>4. CASE Compact
  <2>1. VInv' /\ UNCHANGED disk
    BY <1>4, CompactView DEF Compact
  <2>2. QED
    BY <2>1 DEF VolumeStep, disk
<1>5. CASE Step
  BY <1>5, StepVInv
<1>6. CASE GuestRestart
  <2>1. VInv' /\ UNCHANGED disk
    BY <1>6, GuestRestartView DEF GuestRestart
  <2>2. QED
    BY <2>1 DEF VolumeStep, disk
<1>7. CASE PowerLoss
  BY <1>7, PowerLossView DEF VolumeStep
<1>8. CASE \E n \in Names, f \in Files : Put(n, f) \/ StreamBegin(n, f)
  BY <1>2, <1>8 DEF Put, StreamBegin
<1>9. CASE \E n \in Names : Delete(n)
  BY <1>2, <1>9 DEF Delete
<1>10. QED
  BY <1>1, <1>3, <1>4, <1>5, <1>6, <1>7, <1>8, <1>9 DEF Next

\* The kind of the operation in progress goes with its program counter.
KindInv ==
    /\ op.pc \in AppendPC => op.kind \in {"put", "stream", "del"}
    /\ op.pc \in CompactPC => op.kind = "compact"

\* An operation goes on as the same kind, or is over.
GoesOn ==
    \/ op'.pc = "idle"
    \/ op'.kind = op.kind /\ op.pc \in AppendPC /\ op'.pc \in AppendPC
    \/ op'.kind = op.kind /\ op.pc \in CompactPC /\ op'.pc \in CompactPC

LEMMA AppendGoesOn ==
    ASSUME IInv,
           \/ PutBlock \/ StreamWrite \/ StreamAbandon \/ StreamFinish
           \/ TerminateLog \/ OrderFlush \/ WriteHeader \/ CommitFlush
    PROVE  GoesOn
<1>1. op.pc \in AppendPC /\ op \in AppendOp
  <2>1. op.pc \in AppendPC
    BY DEF PutBlock, StreamWrite, StreamAbandon, StreamFinish, TerminateLog, OrderFlush,
           WriteHeader, CommitFlush
  <2>2. QED
    BY <2>1, OpCases DEF IInv, StoreTypeOK
<1>2. \A c : Done(c).pc = "idle"
  BY DEF Done
<1> DEFINE moved(q, i, g) == [op EXCEPT !.pc = q, !.i = i, !.intact = g]
<1>3. \A q \in AppendPC : \A i, g :
        moved(q, i, g).kind = op.kind /\ moved(q, i, g).pc = q
  BY <1>1 DEF AppendOp
<1>4. SUFFICES \/ \E c : op' = Done(c)
               \/ \E q \in AppendPC : \E i, g : op' = moved(q, i, g)
  <2> HIDE DEF moved
  <2> QED BY <1>1, <1>2, <1>3 DEF GoesOn
<1>5. CASE PutBlock
  <2> DEFINE q == IF op.i + 1 = ContentBlocks(op.x) THEN "term" ELSE "data"
             j == op.i + 1
  <2>1. op' = Done(-1) \/ op' = [op EXCEPT !.i = j, !.pc = q]
    BY <1>5 DEF PutBlock, Write
  <2>2. q \in AppendPC
    OBVIOUS
  <2> HIDE DEF q, j
  <2>3. op' = Done(-1) \/ op' = moved(q, j, op.intact)
    BY <1>1, <2>1 DEF AppendOp
  <2> HIDE DEF moved
  <2>4. QED
    BY <2>2, <2>3
<1>6. CASE StreamWrite
  <2>1. PICK good \in BOOLEAN :
          op' = Done(-1) \/ op' = [op EXCEPT !.i = @ + 1, !.intact = @ /\ good]
    BY <1>6 DEF StreamWrite, Write
  <2> DEFINE j == op.i + 1
             g == op.intact /\ good
  <2>2. op' = Done(-1) \/ op' = [op EXCEPT !.i = j, !.intact = g]
    BY <2>1
  <2> HIDE DEF j, g
  <2>3. op' = Done(-1) \/ op' = moved(op.pc, j, g)
    BY <1>1, <2>2 DEF AppendOp
  <2> HIDE DEF moved
  <2>4. QED
    BY <1>1, <2>3
<1>7. CASE StreamFinish
  <2> DEFINE j == ContentBlocks(op.x)
  <2>1. op' = Done(-1) \/ op' = Done(-4) \/ op' = [op EXCEPT !.pc = "term", !.i = j]
    BY <1>7 DEF StreamFinish, Write
  <2> HIDE DEF j
  <2>2. op' = Done(-1) \/ op' = Done(-4) \/ op' = moved("term", j, op.intact)
    BY <1>1, <2>1 DEF AppendOp
  <2> HIDE DEF moved
  <2>3. QED
    BY <2>2
<1>8. CASE TerminateLog \/ OrderFlush \/ WriteHeader
  <2>1. \/ op' = Done(-1)
        \/ \E q \in AppendPC : op' = [op EXCEPT !.pc = q]
    BY <1>8 DEF TerminateLog, OrderFlush, WriteHeader, Write, FlushIfSupported, Flush
  <2>2. \A q : [op EXCEPT !.pc = q] = moved(q, op.i, op.intact)
    BY <1>1 DEF AppendOp
  <2> HIDE DEF moved
  <2>3. QED
    BY <2>1, <2>2
<1>9. CASE StreamAbandon \/ CommitFlush
  <2>1. op' = Done(-1) \/ op' = Done(0) \/ op' = Done(-5)
    BY <1>9 DEF StreamAbandon, CommitFlush, FlushIfSupported, Flush
  <2>2. QED
    BY <2>1
<1>10. QED
  BY <1>5, <1>6, <1>7, <1>8, <1>9

LEMMA CompactGoesOn ==
    ASSUME IInv,
           \/ GcFlush \/ GcCheck \/ GcChecked \/ GcCopy \/ GcCopySector \/ GcCopied
           \/ GcTerm \/ GcOrderFlush \/ GcSuper \/ GcCommitFlush \/ GcReselect
    PROVE  GoesOn
<1>1. op.pc \in CompactPC /\ op \in CompactOp
  <2>1. op.pc \in CompactPC
    BY DEF GcFlush, GcCheck, GcChecked, GcCopy, GcTurn, GcCopySector, GcCopied, GcTerm,
           GcOrderFlush, GcSuper, GcCommitFlush, GcReselect
  <2>2. QED
    BY <2>1, OpCases DEF IInv, StoreTypeOK
<1>2. \A c : Done(c).pc = "idle"
  BY DEF Done
<1> DEFINE moved(q, i, p, d, n) ==
             [op EXCEPT !.pc = q, !.i = i, !.pos = p, !.need = d, !.next = n]
<1>3. \A q \in CompactPC : \A i, p, d, n :
        moved(q, i, p, d, n).kind = op.kind /\ moved(q, i, p, d, n).pc = q
  BY <1>1 DEF CompactOp
<1>4. SUFFICES \/ \E c : op' = Done(c)
               \/ \E q \in CompactPC : \E i, p, d, n : op' = moved(q, i, p, d, n)
  <2> HIDE DEF moved
  <2> QED BY <1>1, <1>2, <1>3 DEF GoesOn
<1>5. CASE GcFlush \/ GcCopied \/ GcTerm \/ GcOrderFlush \/ GcSuper \/ GcCommitFlush
  <2>1. \/ \E c : op' = Done(c)
        \/ \E q \in CompactPC : op' = [op EXCEPT !.pc = q]
    BY <1>5 DEF GcFlush, GcCopied, GcTerm, GcOrderFlush, GcSuper, GcCommitFlush, Write, Flush
  <2>2. \A q : [op EXCEPT !.pc = q] = moved(q, op.i, op.pos, op.need, op.next)
    BY <1>1 DEF CompactOp
  <2> HIDE DEF moved
  <2>3. QED
    BY <2>1, <2>2
<1>6. CASE GcChecked
  <2>1. op' = [op EXCEPT !.pc = "copy", !.pos = 1]
    BY <1>6 DEF GcChecked
  <2>2. op' = moved("copy", op.i, 1, op.need, op.next)
    BY <1>1, <2>1 DEF CompactOp
  <2> HIDE DEF moved
  <2>3. QED
    BY <2>2
<1>7. CASE GcReselect
  BY <1>7 DEF GcReselect
<1>8. CASE GcCheck
  <2> DEFINE p == op.pos + 1 + RecordBlocks(CurrentRecord)
             p2 == op.pos + (1 + RecordBlocks(CurrentRecord))
             d == op.need + (1 + RecordBlocks(CurrentRecord))
  <2>1. \/ \E c : op' = Done(c)
        \/ op.pc = "check" /\ op' = [op EXCEPT !.pos = p]
        \/ op.pc = "check" /\ op' = [op EXCEPT !.pos = p2, !.need = d]
    BY <1>8 DEF GcCheck, GcTurn
  <2> HIDE DEF p, p2, d
  <2>2. \/ \E c : op' = Done(c)
        \/ op' = moved("check", op.i, p, op.need, op.next)
        \/ op' = moved("check", op.i, p2, d, op.next)
    BY <1>1, <2>1 DEF CompactOp
  <2> HIDE DEF moved
  <2>3. QED
    BY <2>2
<1>9. CASE GcCopy
  <2> DEFINE p == op.pos + 1 + RecordBlocks(CurrentRecord)
  <2>1. \/ \E c : op' = Done(c)
        \/ op.pc = "copy" /\ op' = [op EXCEPT !.pos = p]
        \/ op' = [op EXCEPT !.pc = "copysector", !.i = 0]
    BY <1>9 DEF GcCopy, GcTurn
  <2> HIDE DEF p
  <2>2. \/ \E c : op' = Done(c)
        \/ op' = moved("copy", op.i, p, op.need, op.next)
        \/ op' = moved("copysector", 0, op.pos, op.need, op.next)
    BY <1>1, <2>1 DEF CompactOp
  <2> HIDE DEF moved
  <2>3. QED
    BY <2>2
<1>10. CASE GcCopySector
  <2> DEFINE blocks == RecordBlocks(CurrentRecord)
             p == op.pos + 1 + blocks
             n == op.next + 1 + blocks
             k == op.i + 1
  <2>1. \/ \E c : op' = Done(c)
        \/ op.pc = "copysector" /\ op' = [op EXCEPT !.i = k]
        \/ op' = [op EXCEPT !.pc = "copy", !.i = 0, !.pos = p, !.next = n]
    BY <1>10 DEF GcCopySector, Write
  <2> HIDE DEF p, n, k
  <2>2. \/ \E c : op' = Done(c)
        \/ op' = moved("copysector", k, op.pos, op.need, op.next)
        \/ op' = moved("copy", 0, p, op.need, n)
    BY <1>1, <2>1, ZenonT(60) DEF CompactOp
  <2> HIDE DEF moved
  <2>3. QED
    BY <2>2
<1>11. QED
  BY <1>5, <1>6, <1>7, <1>8, <1>9, <1>10

LEMMA KindStep ==
    ASSUME IInv, KindInv, [Next]_vars
    PROVE  KindInv'
<1>1. CASE UNCHANGED vars
  BY <1>1 DEF vars, KindInv
<1>2. ASSUME NEW kind \in {"put", "stream", "del"}, NEW pc \in {"data", "recv", "term"},
             NEW n, NEW x, BeginAppend(kind, pc, n, x)
      PROVE  KindInv'
  <2>1. \/ op'.pc = "idle"
        \/ op'.pc = pc /\ op'.kind = kind
    BY <1>2 DEF BeginAppend, Fail
  <2>2. QED
    BY <2>1 DEF KindInv
<1>3. CASE EntryAt
  BY <1>3 DEF EntryAt, KindInv
<1>4. CASE Compact
  <2>1. \/ op'.pc = "idle"
        \/ op'.pc = "gcflush" /\ op'.kind = "compact"
    BY <1>4 DEF Compact, Fail
  <2>2. QED
    BY <2>1 DEF KindInv
<1>5. CASE Step
  <2>1. GoesOn
    BY <1>5, AppendGoesOn, CompactGoesOn DEF Step
  <2>2. QED
    BY <2>1 DEF GoesOn, KindInv
<1>6. CASE GuestRestart \/ PowerLoss
  <2>1. op'.pc = "idle"
    BY <1>6 DEF GuestRestart, PowerLoss, Reset, Idle
  <2>2. QED
    BY <2>1 DEF KindInv
<1>7. CASE \E n \in Names, f \in Files : Put(n, f) \/ StreamBegin(n, f)
  BY <1>2, <1>7 DEF Put, StreamBegin
<1>8. CASE \E n \in Names : Delete(n)
  BY <1>2, <1>8 DEF Delete
<1>9. QED
  BY <1>1, <1>3, <1>4, <1>5, <1>6, <1>7, <1>8 DEF Next

-----------------------------------------------------------------------------
(* The theorems.                                                            *)

FullInv == IInv /\ VInv /\ KindInv

\* The log, the copy in progress, the volume and the acknowledgements are
\* related as VInv says, in every reachable state.
THEOREM VolumeInvariant == ~SuperReadFaults => (Spec => []FullInv)
<1> SUFFICES ASSUME ~SuperReadFaults PROVE Spec => []FullInv
  OBVIOUS
<1>1. Init => FullInv
  BY InitInv, InitVInv DEF FullInv, Init, Idle, KindInv
<1>2. FullInv /\ [Next]_vars => FullInv'
  BY NextInv, NextVInv, KindStep DEF FullInv
<1>3. QED
  BY <1>1, <1>2, PTL DEF Spec

\* The markers of a lookup are not contents.
LEMMA MarkersDiffer == Bad \notin Files \union {Absent, Deleted}
<1>1. Bad \notin Files
  BY ContentAssumption
<1>2. \A x, y, z : Cardinality({x, y, z}) <= 3
  <2> SUFFICES ASSUME NEW x, NEW y, NEW z PROVE Cardinality({x, y, z}) <= 3
    OBVIOUS
  <2> DEFINE A == {z}
             B == A \union {y}
  <2>1. IsFiniteSet(A) /\ Cardinality(A) = 1
    BY FS_Singleton
  <2> HIDE DEF A
  <2>2. IsFiniteSet(B) /\ Cardinality(B) \in {1, 2}
    <3>1. /\ IsFiniteSet(B)
          /\ Cardinality(B) = IF y \in A THEN Cardinality(A) ELSE Cardinality(A) + 1
      BY <2>1, FS_AddElement
    <3>2. QED
      BY <2>1, <3>1
  <2> HIDE DEF B
  <2>3. Cardinality(B \union {x}) <= 3
    <3>1. Cardinality(B \union {x}) = IF x \in B THEN Cardinality(B) ELSE Cardinality(B) + 1
      BY <2>2, FS_AddElement
    <3>2. QED
      BY <2>2, <3>1
  <2>4. B \union {x} = {x, y, z}
    BY DEF A, B
  <2>5. QED
    BY <2>3, <2>4
<1>3. Bad # Absent /\ Bad # Deleted
  <2>1. Bad = Absent => {Absent, Deleted, Bad, Unknown} = {Absent, Deleted, Unknown}
    OBVIOUS
  <2>2. Bad = Deleted => {Absent, Deleted, Bad, Unknown} = {Absent, Deleted, Unknown}
    OBVIOUS
  <2>3. Cardinality({Absent, Deleted, Unknown}) <= 3
    BY <1>2
  <2>4. Cardinality({Absent, Deleted, Bad, Unknown}) = 4
    BY ContentAssumption
  <2>5. {Absent, Deleted, Bad, Unknown} # {Absent, Deleted, Unknown}
    BY <2>3, <2>4
  <2>6. QED
    BY <2>1, <2>2, <2>5
<1>4. QED
  BY <1>1, <1>3

\* What a power loss may leave holds the volume or the one before the change
\* that is not flushed.
LEMMA PossibleVolumes ==
    ASSUME FullInv, NEW v \in PossibleViews
    PROVE  v \in {vol, synced} /\ v \in [Names -> Files \union {Absent, Deleted}]
<1>1. PICK img \in PowerLossImages : v = View(img)
  BY DEF PossibleViews
<1>2. Possible(img)
  BY LossPossible DEF FullInv
<1>3. v \in {vol, synced}
  BY <1>1, <1>2 DEF FullInv, VInv, ViewInv, ImageOK
<1>4. QED
  BY <1>3 DEF FullInv, VInv, HistoryTypeOK

\* Every variable has its type, the catalog and the volumes too.
THEOREM FullyTyped == ~SuperReadFaults => (Spec => []TypeOK)
<1>1. FullInv => TypeOK
  BY DEF FullInv, IInv, VInv, HistoryTypeOK, TypeOK, Contents
<1>2. QED
  BY <1>1, VolumeInvariant, PTL

\* In every state, and after every power loss, the bank that zss_available
\* selects has a log that zss_find scans to its end and no damaged file.
THEOREM LogReadable == ~SuperReadFaults => (Spec => []AlwaysReadable)
<1>1. FullInv => AlwaysReadable
  BY PossibleVolumes, MarkersDiffer DEF AlwaysReadable
<1>2. QED
  BY <1>1, VolumeInvariant, PTL

\* What was acknowledged with 0 is what a lookup yields, now and after a power
\* loss at any moment.
THEOREM AckedDurable == ~SuperReadFaults => (Spec => []AckedSurvives)
<1>1. FullInv => AckedSurvives
  <2> SUFFICES ASSUME FullInv, NEW v \in PossibleViews, NEW n \in Names, acked[n] # Unknown
               PROVE  v[n] = acked[n]
    BY DEF AckedSurvives
  <2>1. v \in {vol, synced}
    BY PossibleVolumes
  <2>2. vol[n] = acked[n] /\ synced[n] = acked[n]
    BY DEF FullInv, VInv, AckInv
  <2>3. QED
    BY <2>1, <2>2
<1>2. QED
  BY <1>1, VolumeInvariant, PTL

\* A valid catalog lists what a scan of the log would find.
THEOREM CatalogAgrees == ~SuperReadFaults => (Spec => []CatalogFresh)
<1>1. FullInv => CatalogFresh
  <2> SUFFICES ASSUME FullInv, catalog.valid, NEW n \in Names, acked[n] # Unknown
               PROVE  catalog.latest[n] = CatalogOf(now[Selected(now)], Selected(now))[n]
    BY DEF CatalogFresh
  <2>1. CatalogOf(now[Selected(now)], Selected(now)) = vol
    BY NowReads DEF FullInv, VInv
  <2>2. catalog.latest[n] = vol[n]
    BY DEF FullInv, VInv, AckInv
  <2>3. QED
    BY <2>1, <2>2
<1>2. QED
  BY <1>1, VolumeInvariant, PTL

\* From its first flush on, a compaction does not change what the partition
\* holds, at whatever step it fails or power is lost.
THEOREM CompactionKeepsFiles == ~SuperReadFaults => (Spec => CompactPreservesView)
<1> SUFFICES ASSUME ~SuperReadFaults PROVE Spec => CompactPreservesView
  OBVIOUS
<1> DEFINE Kept == op.kind = "compact" /\ op.pc \notin {"idle", "gcflush"} => vol' = vol
<1>1. FullInv /\ [Next]_vars => Kept
  <2> SUFFICES ASSUME FullInv, [Next]_vars, op.kind = "compact",
                      op.pc \notin {"idle", "gcflush"}
               PROVE  vol' = vol
    OBVIOUS
  <2>1. op.pc \in CompactPC \ {"gcflush"}
    BY OpCases DEF FullInv, KindInv, IInv, StoreTypeOK, Operation
  <2>2. synced = vol
    BY <2>1 DEF FullInv, VInv, CompactLogInv
  <2>3. CASE Step
    <3>1. ~WriteHeader
      BY <2>1 DEF WriteHeader
    <3>2. QED
      BY <2>3, <3>1, StepVInv DEF FullInv
  <2>4. CASE PowerLoss
    BY <2>2, <2>4, PowerLossView DEF FullInv
  <2>5. CASE GuestRestart \/ UNCHANGED vars
    BY <2>5 DEF GuestRestart, disk, vars
  <2>6. QED
    BY <2>3, <2>4, <2>5 DEF Next, Put, StreamBegin, Delete, BeginAppend, EntryAt, Compact
<1>2. Spec => [][Kept]_vars
  BY <1>1, VolumeInvariant, PTL DEF Spec
<1>3. QED
  BY <1>2 DEF CompactPreservesView

\* After a compaction that returns 0 the log holds one record of a name.
THEOREM CompactionReclaims == ~SuperReadFaults => (Spec => CompactReclaims)
<1> SUFFICES ASSUME ~SuperReadFaults PROVE Spec => CompactReclaims
  OBVIOUS
<1> DEFINE Unique(b) == LET heads == Scan(now[b], b).heads
                        IN  \A p, q \in heads : now[b][p].name = now[b][q].name => p = q
           Reclaimed == op.pc = "reselect" /\ op' = Done(0) => Unique(base')
<1>1. FullInv /\ [Next]_vars => Reclaimed
  <2> SUFFICES ASSUME FullInv, [Next]_vars, op.pc = "reselect", op' = Done(0)
               PROVE  Unique(base')
    OBVIOUS
  <2>1. op.kind = "compact" /\ op'.pc = "idle" /\ op'.kind = "compact" /\ op'.code = 0
    BY DEF FullInv, KindInv, Done
  <2>2. ~GuestRestart /\ ~PowerLoss /\ ~UNCHANGED vars
    BY <2>1 DEF GuestRestart, PowerLoss, Reset, Idle, vars
  <2>3. GcReselect
    BY <2>2 DEF Next, Put, StreamBegin, Delete, BeginAppend, EntryAt, Compact, Step,
       PutBlock, StreamWrite, StreamAbandon, StreamFinish, TerminateLog, OrderFlush,
       WriteHeader, CommitFlush, GcFlush, GcCheck, GcChecked, GcCopy, GcTurn,
       GcCopySector, GcCopied, GcTerm, GcOrderFlush, GcSuper, GcCommitFlush
  <2>4. base' = op.target
    BY <2>1, <2>3 DEF GcReselect, Done
  <2>5. Unique(op.target)
    BY DEF FullInv, VInv, CompactLogInv
  <2>6. QED
    BY <2>4, <2>5
<1>2. Spec => [][Reclaimed]_vars
  <2> HIDE DEF Reclaimed
  <2> QED BY <1>1, VolumeInvariant, PTL DEF Spec
<1>3. QED
  BY <1>2 DEF CompactReclaims

\* The partition implements the atomic volume: a header that lands is its
\* Commit, a flush its Sync, a power loss its Lose, every other step a stutter.
THEOREM Refinement == ~SuperReadFaults => (Spec => ImplementsVolume)
<1> SUFFICES ASSUME ~SuperReadFaults PROVE Spec => ImplementsVolume
  OBVIOUS
<1>1. Init => Volume!Init
  BY DEF Init, Volume!Init
<1>2. FullInv /\ [Next]_vars => [Volume!Next]_(Volume!vars)
  BY NextVInv DEF FullInv, VolumeStep, Volume!Next, Volume!vars, Volume!Commit,
                  Volume!Sync, Volume!Lose
<1>3. QED
  BY <1>1, <1>2, VolumeInvariant, PTL DEF Spec, ImplementsVolume, Volume!Spec
=============================================================================
