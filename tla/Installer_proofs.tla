-------------------------- MODULE Installer_proofs ---------------------------
(***************************************************************************)
(* Proofs about Installer for disks of any size, images of any number of   *)
(* extents, any transfer window and any number of device errors: what      *)
(* zinstall_handle says at its end is true.                                *)
(***************************************************************************)
EXTENDS Installer, Induction

Count == Len(image.extents)
Lba(i) == image.extents[i].lba
Size(i) == image.extents[i].n

\* Extent i has sector s.
Covers(i, s) == Lba(i) <= s /\ s < Lba(i) + Size(i)

\* Sector s of extent i holds its payload in m.
Holds(m, i, s) == m[s] = Used(i) + (s - Lba(i)) + 1

\* Sector s of m is what the image says.
Matches(m, s) ==
    /\ \A i \in 1 .. Count : Covers(i, s) => Holds(m, i, s)
    /\ (\A i \in 1 .. Count : ~Covers(i, s)) => m[s] = 0

\* The extents before the walk's position, and the sectors before "done" of
\* that one, are written, the rest of the disk is zero.
Reached(i, s) == i < extent \/ (i = extent /\ s < Lba(i) + done)
Written(s) ==
    /\ \A i \in 1 .. Count : Covers(i, s) =>
           IF Reached(i, s) THEN Holds(now, i, s) ELSE now[s] = 0
    /\ (\A i \in 1 .. Count : ~Covers(i, s)) => now[s] = 0

Untouched == \A s \in LBAs : now[s] = Old /\ stable[s] = Old

\* What has been checked before the first write stays true.
Going ==
    /\ zinstall_image_valid
    /\ target.flush
    /\ target.batch \in Nat \ {0}

ErasePhase ==
    /\ sector \in 0 .. Sectors
    /\ faults = 0 => \A s \in LBAs : s < sector => now[s] = 0

WritePhase ==
    /\ extent \in 1 .. Count + 1
    /\ offset = Used(extent)
    /\ done \in Nat
    /\ extent <= Count => done < Size(extent)
    /\ faults = 0 => \A s \in LBAs : Written(s)

VerifyPhase ==
    /\ sector \in 0 .. Sectors
    /\ extent \in 1 .. Count + 1
    /\ offset = Used(extent)
    /\ \A i \in 1 .. extent - 1 : Lba(i) + Size(i) <= sector
    /\ \A s \in LBAs : s < sector => Matches(now, s)
    /\ faults = 0 => \A s \in LBAs : Matches(now, s)

Ended ==
    /\ message \in {"installed", "refused", "incomplete", "do not reboot"}
    /\ message = "installed" =>
           zinstall_image_valid /\ \A s \in LBAs : Matches(stable, s)
    /\ message = "refused" => Untouched
    /\ message \in {"incomplete", "do not reboot"} => faults > 0

Inv ==
    /\ image \in Images /\ target \in Targets /\ faults \in Nat
    /\ pc \in {"start", "erase", "write", "verify", "done"}
    /\ pc = "start" => Untouched
    /\ pc \in {"erase", "write", "verify"} => Going
    /\ pc = "erase" => ErasePhase
    /\ pc = "write" => WritePhase
    /\ pc = "verify" => VerifyPhase
    /\ pc = "done" => Ended

-----------------------------------------------------------------------------
(* Walks over the extents.                                                 *)

IsWalk(f, from, start) ==
    f = [k \in from .. Count + 1 |->
            IF k = from THEN start ELSE f[k - 1] + image.extents[k - 1].n]

Extents == Seq([lba : Nat, n : Nat])

\* The extents of an image have an address and a size.
LEMMA ExtentTyped ==
    ASSUME image.extents \in Extents
    PROVE  Count \in Nat /\ \A i \in 1 .. Count : Lba(i) \in Nat /\ Size(i) \in Nat
<1>1. Count \in Nat
  BY DEF Count, Extents
<1>2. ASSUME NEW i \in 1 .. Count PROVE Lba(i) \in Nat /\ Size(i) \in Nat
  <2>1. image.extents[i] \in [lba : Nat, n : Nat]
    <3> DEFINE R == [lba : Nat, n : Nat]
    <3>1. image.extents \in Seq(R) /\ i \in 1 .. Len(image.extents)
      BY DEF Count, Extents
    <3> HIDE DEF R
    <3>2. image.extents[i] \in R
      BY <3>1
    <3> QED
      BY <3>2 DEF R
  <2> QED
    BY <2>1 DEF Lba, Size
<1> QED
  BY <1>1, <1>2

\* The walk defines a function.
LEMMA WalkExists ==
    ASSUME image.extents \in Extents, NEW from \in 1 .. Count + 1, NEW start \in Nat
    PROVE  \E f : IsWalk(f, from, start)
<1> DEFINE Part(f, b) ==
               f = [k \in from .. b |->
                       IF k = from THEN start ELSE f[k - 1] + image.extents[k - 1].n]
           S == {d \in Nat : \E f : Part(f, from + d)}
<1>0. Count \in Nat /\ from \in Nat
  BY ExtentTyped
<1>1. 0 \in S
  <2> DEFINE g == [k \in from .. from |-> start]
  <2>1. Part(g, from)
    BY <1>0
  <2>2. from + 0 = from
    BY <1>0
  <2> HIDE DEF Part, g
  <2> QED
    BY <2>1, <2>2
<1>2. ASSUME NEW d \in Nat, d \in S PROVE d + 1 \in S
  <2>1. PICK f : Part(f, from + d)
    BY <1>2
  <2> DEFINE b == from + d
             g == [k \in from .. b + 1 |->
                      IF k = b + 1 THEN f[b] + image.extents[b].n ELSE f[k]]
  <2>2. b \in Nat /\ b >= from /\ b + 1 - 1 = b /\ from + (d + 1) = b + 1
    BY <1>0
  <2>3. \A k \in from .. b + 1 :
            g[k] = IF k = from THEN start ELSE g[k - 1] + image.extents[k - 1].n
    <3> SUFFICES ASSUME NEW k \in from .. b + 1
                 PROVE  g[k] = IF k = from THEN start
                               ELSE g[k - 1] + image.extents[k - 1].n
      OBVIOUS
    <3> HIDE DEF b
    <3>1. CASE k = b + 1
      <4>1. g[k] = f[b] + image.extents[b].n /\ k # from /\ k - 1 = b
        BY <1>0, <2>2, <3>1
      <4>2. g[b] = f[b]
        BY <1>0, <2>2
      <4> HIDE DEF g
      <4> QED
        BY <4>1, <4>2
    <3>2. CASE k # b + 1
      <4>1. k \in from .. b /\ g[k] = f[k]
        BY <1>0, <2>2, <3>2
      <4>2. f[k] = IF k = from THEN start ELSE f[k - 1] + image.extents[k - 1].n
        BY <2>1, <4>1 DEF b
      <4>3. k # from => g[k - 1] = f[k - 1]
        BY <1>0, <2>2, <4>1
      <4> HIDE DEF g
      <4> QED
        BY <4>1, <4>2, <4>3
    <3> QED
      BY <3>1, <3>2
  <2>4. Part(g, b + 1)
    BY <2>3
  <2> HIDE DEF Part, g
  <2> QED
    BY <2>2, <2>4
<1> HIDE DEF S
<1>3. \A d \in Nat : d \in S
  BY <1>1, <1>2, NaturalInduction
<1>4. Count + 1 - from \in Nat /\ from + (Count + 1 - from) = Count + 1
  BY <1>0
<1>5. PICK f : Part(f, Count + 1)
  BY <1>3, <1>4 DEF S
<1> QED
  BY <1>5 DEF IsWalk

\* Walk is that function.
LEMMA WalkFunction ==
    ASSUME image.extents \in Extents, NEW from \in 1 .. Count + 1, NEW start \in Nat
    PROVE  \E f : IsWalk(f, from, start) /\ \A k : Walk(from, start, k) = f[k]
<1> DEFINE F == CHOOSE f : IsWalk(f, from, start)
<1>1. IsWalk(F, from, start)
  BY WalkExists
<1>2. \A k : Walk(from, start, k) = F[k]
  BY DEF Walk, IsWalk, Count
<1> HIDE DEF F
<1> QED
  BY <1>1, <1>2

\* One turn of a walk.
LEMMA WalkTurn ==
    ASSUME image.extents \in Extents, NEW from \in 1 .. Count + 1, NEW start \in Nat
    PROVE  /\ Walk(from, start, from) = start
           /\ \A k \in from + 1 .. Count + 1 :
                  Walk(from, start, k) = Walk(from, start, k - 1) + Size(k - 1)
<1>1. PICK f : IsWalk(f, from, start) /\ \A k : Walk(from, start, k) = f[k]
  BY WalkFunction
<1>2. Count \in Nat
  BY ExtentTyped
<1>3. f[from] = start
  BY <1>1, <1>2 DEF IsWalk
<1>4. \A k \in from + 1 .. Count + 1 : f[k] = f[k - 1] + Size(k - 1)
  BY <1>1, <1>2 DEF IsWalk, Size
<1> QED
  BY <1>1, <1>3, <1>4

\* What is used before an extent is a number, and a walk that has it behind
\* itself at one extent has it at every later one.
LEMMA UsedTurn ==
    ASSUME image.extents \in Extents
    PROVE  /\ Used(1) = 0
           /\ \A k \in 1 .. Count : Used(k + 1) = Used(k) + Size(k)
           /\ \A k \in 1 .. Count + 1 : Used(k) \in Nat
<1>1. Count \in Nat /\ \A i \in 1 .. Count : Size(i) \in Nat
  BY ExtentTyped
<1>2. Used(1) = 0 /\ \A k \in 2 .. Count + 1 : Used(k) = Used(k - 1) + Size(k - 1)
  BY <1>1, WalkTurn DEF Used
<1>3. ASSUME NEW k \in 1 .. Count PROVE Used(k + 1) = Used(k) + Size(k)
  <2>1. k + 1 \in 2 .. Count + 1 /\ k + 1 - 1 = k
    BY <1>1
  <2> QED
    BY <1>2, <2>1
<1> DEFINE S == {d \in Nat : d + 1 \in 1 .. Count + 1 => Used(d + 1) \in Nat}
<1>4. 0 \in S
  BY <1>2
<1>5. ASSUME NEW d \in Nat, d \in S PROVE d + 1 \in S
  <2>1. CASE d + 1 \in 1 .. Count
    <3>1. Used(d + 1) \in Nat /\ Size(d + 1) \in Nat
      BY <1>1, <1>5, <2>1
    <3>2. Used(d + 1 + 1) = Used(d + 1) + Size(d + 1)
      BY <1>3, <2>1
    <3> QED
      BY <3>1, <3>2
  <2>2. CASE d + 1 \notin 1 .. Count
    BY <1>1, <2>2
  <2> QED
    BY <2>1, <2>2
<1> HIDE DEF S
<1>6. \A d \in Nat : d \in S
  BY <1>4, <1>5, NaturalInduction
<1>7. ASSUME NEW k \in 1 .. Count + 1 PROVE Used(k) \in Nat
  <2>1. k - 1 \in S /\ k - 1 + 1 = k
    BY <1>1, <1>6
  <2> QED
    BY <2>1 DEF S
<1> QED
  BY <1>2, <1>3, <1>7

LEMMA WalkGoesOn ==
    ASSUME image.extents \in Extents, NEW from \in 1 .. Count + 1
    PROVE  \A k \in from .. Count + 1 : Walk(from, Used(from), k) = Used(k)
<1>0. Count \in Nat /\ from \in Nat
  BY ExtentTyped
<1>1. PICK o \in Nat : o = Used(from)
  BY UsedTurn
<1>2. /\ Walk(from, o, from) = o
      /\ \A k \in from + 1 .. Count + 1 :
             Walk(from, o, k) = Walk(from, o, k - 1) + Size(k - 1)
  BY WalkTurn
<1> DEFINE S == {d \in Nat : from + d \in 1 .. Count + 1 =>
                                 Walk(from, o, from + d) = Used(from + d)}
<1>3. 0 \in S
  BY <1>0, <1>1, <1>2
<1>4. ASSUME NEW d \in Nat, d \in S PROVE d + 1 \in S
  <2> DEFINE k == from + d
  <2>1. from + (d + 1) = k + 1 /\ k + 1 - 1 = k /\ k \in Nat /\ k >= from
    BY <1>0
  <2>2. CASE k \in 1 .. Count
    <3>1. Walk(from, o, k) = Used(k)
      BY <1>0, <1>4, <2>2
    <3>2. k + 1 \in from + 1 .. Count + 1
      BY <1>0, <2>1, <2>2
    <3>3. Walk(from, o, k + 1) = Walk(from, o, k) + Size(k)
      BY <1>2, <2>1, <3>2
    <3>4. Used(k + 1) = Used(k) + Size(k)
      BY <2>2, UsedTurn
    <3> QED
      BY <2>1, <3>1, <3>3, <3>4
  <2>3. CASE k \notin 1 .. Count
    BY <1>0, <2>1, <2>3
  <2> QED
    BY <2>2, <2>3
<1> HIDE DEF S
<1>5. \A d \in Nat : d \in S
  BY <1>3, <1>4, NaturalInduction
<1>6. ASSUME NEW k \in from .. Count + 1 PROVE Walk(from, o, k) = Used(k)
  <2>1. k - from \in S /\ from + (k - from) = k /\ k \in 1 .. Count + 1
    BY <1>0, <1>5
  <2> QED
    BY <2>1 DEF S
<1> QED
  BY <1>1, <1>6

-----------------------------------------------------------------------------
(* A valid image.                                                          *)

\* What zinstall_image_valid has found out about the extents.
Sound ==
    /\ Count \in Nat
    /\ \A i \in 1 .. Count :
           /\ Lba(i) \in Nat /\ Size(i) \in Nat \ {0}
           /\ Lba(i) + Size(i) <= Sectors
           /\ Used(i) \in Nat /\ Used(i) + Size(i) <= image.payload
           /\ Used(i + 1) = Used(i) + Size(i)
    /\ \A i, j \in 1 .. Count : i < j => Lba(i) + Size(i) <= Lba(j)

\* A valid image has its extents in order, on the disk and in the payload.
LEMMA ValidIsSound ==
    ASSUME image \in Images, zinstall_image_valid
    PROVE  Sound /\ image.payload \in Nat
<1>1. image.extents \in Extents /\ image.payload \in Nat /\ Sectors \in Nat
  BY InstallerAssumption DEF Extents
<1>2. Count \in Nat /\ \A i \in 1 .. Count : Lba(i) \in Nat /\ Size(i) \in Nat
  BY <1>1, ExtentTyped
<1>3. \A i \in 1 .. Count : CheckExtent(i)
  BY DEF zinstall_image_valid, Count
<1>4. \A i \in 1 .. Count : Used(i) \in Nat /\ Used(i + 1) = Used(i) + Size(i)
  BY <1>1, <1>2, UsedTurn
<1>5. ASSUME NEW i \in 1 .. Count
      PROVE  /\ Size(i) > 0 /\ Lba(i) + Size(i) <= Sectors
             /\ Used(i) + Size(i) <= image.payload
             /\ i > 1 => Lba(i - 1) + Size(i - 1) <= Lba(i)
  <2>1. /\ Size(i) > 0 /\ Lba(i) >= PreviousEnd(i)
        /\ Size(i) <= Sectors - Lba(i) /\ Size(i) <= image.payload - Used(i)
    BY <1>3 DEF CheckExtent, Size, Lba
  <2>2. Lba(i) \in Nat /\ Size(i) \in Nat /\ Used(i) \in Nat
    BY <1>2, <1>4
  <2>3. i > 1 => PreviousEnd(i) = Lba(i - 1) + Size(i - 1)
    BY DEF PreviousEnd, Lba, Size
  <2>4. i > 1 => i - 1 \in 1 .. Count
    BY <1>2
  <2>5. i > 1 => Lba(i - 1) + Size(i - 1) \in Nat
    BY <1>2, <2>4
  <2> QED
    BY <1>1, <2>1, <2>2, <2>3, <2>5
<1>6. ASSUME NEW i \in 1 .. Count
      PROVE  \A j \in 1 .. Count : i < j => Lba(i) + Size(i) <= Lba(j)
  <2> DEFINE S == {d \in Nat : i + d + 1 \in 1 .. Count =>
                                   Lba(i) + Size(i) <= Lba(i + d + 1)}
  <2>1. 0 \in S
    <3>1. CASE i + 0 + 1 \in 1 .. Count
      <4>1. i + 0 + 1 > 1 /\ i + 0 + 1 - 1 = i
        BY <1>2
      <4> QED
        BY <1>5, <3>1, <4>1
    <3> QED
      BY <3>1
  <2>2. ASSUME NEW d \in Nat, d \in S PROVE d + 1 \in S
    <3> DEFINE k == i + d + 1
    <3>1. k \in Nat /\ i + (d + 1) + 1 = k + 1 /\ k + 1 > 1 /\ k + 1 - 1 = k /\ k >= 1
      BY <1>2
    <3>2. CASE k + 1 \in 1 .. Count
      <4>1. k \in 1 .. Count
        BY <1>2, <3>1, <3>2
      <4>2. Lba(i) + Size(i) <= Lba(k)
        BY <2>2, <4>1
      <4>3. Lba(k) + Size(k) <= Lba(k + 1)
        BY <1>5, <3>1, <3>2
      <4>4. /\ Lba(k) \in Nat /\ Size(k) \in Nat /\ Lba(k + 1) \in Nat
            /\ Lba(i) \in Nat /\ Size(i) \in Nat
        BY <1>2, <3>2, <4>1
      <4>5. Lba(i) + Size(i) <= Lba(k + 1)
        BY <4>2, <4>3, <4>4
      <4> QED
        BY <3>1, <4>5
    <3> QED
      BY <3>1, <3>2
  <2> HIDE DEF S
  <2>3. \A d \in Nat : d \in S
    BY <2>1, <2>2, NaturalInduction
  <2>4. ASSUME NEW j \in 1 .. Count, i < j PROVE Lba(i) + Size(i) <= Lba(j)
    <3>1. j - i - 1 \in Nat /\ i + (j - i - 1) + 1 = j
      BY <1>2, <2>4
    <3> QED
      BY <2>3, <3>1 DEF S
  <2> QED
    BY <2>4
<1> QED
  BY <1>1, <1>2, <1>4, <1>5, <1>6 DEF Sound

\* A sector has at most one extent.
LEMMA CoversOne ==
    ASSUME Sound, NEW i \in 1 .. Count, NEW j \in 1 .. Count, NEW s \in Nat,
           Covers(i, s), Covers(j, s)
    PROVE  i = j
<1>1. i < j \/ j < i \/ i = j
  BY DEF Sound
<1>2. /\ Lba(i) \in Nat /\ Size(i) \in Nat /\ Lba(j) \in Nat /\ Size(j) \in Nat
  BY DEF Sound
<1>3. ~(i < j)
  <2>1. i < j => Lba(i) + Size(i) <= Lba(j)
    BY DEF Sound
  <2> QED
    BY <1>2, <2>1 DEF Covers
<1>4. ~(j < i)
  <2>1. j < i => Lba(j) + Size(j) <= Lba(i)
    BY DEF Sound
  <2> QED
    BY <1>2, <2>1 DEF Covers
<1> QED
  BY <1>1, <1>3, <1>4

\* What matches the image is what ImageAt says.
LEMMA MatchesImage ==
    ASSUME Sound, image \in Images, NEW m, NEW s \in LBAs, Matches(m, s)
    PROVE  ImageAt(s) = {m[s]} /\ m[s] \in 0 .. image.payload
<1>0. s \in Nat /\ Sectors \in Nat /\ image.payload \in Nat
  BY InstallerAssumption DEF LBAs
<1>domain. DOMAIN image.extents = 1 .. Count
  <2>1. image.extents \in Seq([lba : Nat, n : Nat])
    BY InstallerAssumption
  <2> QED
    BY <2>1 DEF Count
<1> DEFINE holding == {i \in DOMAIN image.extents :
               s \in image.extents[i].lba .. image.extents[i].lba
                                             + image.extents[i].n - 1}
<1>1. holding = {i \in 1 .. Count : Covers(i, s)}
  <2> SUFFICES ASSUME NEW i \in 1 .. Count
               PROVE  s \in Lba(i) .. Lba(i) + Size(i) - 1 <=> Covers(i, s)
    BY <1>domain DEF Lba, Size
  <2>1. Lba(i) \in Nat /\ Size(i) \in Nat
    BY DEF Sound
  <2> QED
    BY <1>0, <2>1 DEF Covers
<1>2. ImageAt(s) = IF holding = {} THEN {0}
                   ELSE {Used(i) + (s - Lba(i)) + 1 : i \in holding}
  BY DEF ImageAt, Used, Lba
<1>3. CASE \A i \in 1 .. Count : ~Covers(i, s)
  <2>1. holding = {} /\ m[s] = 0
    BY <1>1, <1>3 DEF Matches
  <2> HIDE DEF holding
  <2> QED
    BY <1>0, <1>2, <2>1
<1>4. ASSUME NEW c \in 1 .. Count, Covers(c, s)
      PROVE  ImageAt(s) = {m[s]} /\ m[s] \in 0 .. image.payload
  <2> HIDE DEF holding
  <2>2. c \in holding /\ \A i \in holding : Used(i) + (s - Lba(i)) + 1 = m[s]
    BY <1>1, <1>4 DEF Matches, Holds
  <2>3. ImageAt(s) = {m[s]}
    BY <1>2, <2>2
  <2>4. m[s] = Used(c) + (s - Lba(c)) + 1
    BY <2>2
  <2>5. /\ Used(c) \in Nat /\ Lba(c) \in Nat /\ Size(c) \in Nat
        /\ Used(c) + Size(c) <= image.payload
    BY DEF Sound
  <2> QED
    BY <1>0, <1>4, <2>3, <2>4, <2>5 DEF Covers
<1> QED
  BY <1>3, <1>4

-----------------------------------------------------------------------------
(* Reading back.                                                           *)

\* Advance finds the first extent that ends behind s.
LEMMA AdvanceIs ==
    ASSUME Sound, extent \in 1 .. Count + 1, NEW s \in Nat
    PROVE  /\ Advance(s) \in extent .. Count + 1
           /\ \A i \in extent .. Advance(s) - 1 : Lba(i) + Size(i) <= s
           /\ Advance(s) <= Count => s < Lba(Advance(s)) + Size(Advance(s))
<1>1. Count \in Nat /\ extent \in Nat
  BY DEF Sound
<1> DEFINE left == {i \in extent .. Count : s < Lba(i) + Size(i)}
<1>2. Advance(s) = IF left = {} THEN Count + 1 ELSE Min(left)
  BY DEF Advance, Count, Lba, Size
<1>3. \A i \in extent .. Count : Lba(i) + Size(i) \in Nat
  BY <1>1 DEF Sound
<1>4. \A i \in extent .. Count : i \notin left => Lba(i) + Size(i) <= s
  BY <1>1, <1>3
<1>5. CASE left = {}
  BY <1>1, <1>2, <1>4, <1>5
<1>6. CASE left # {}
  <2>1. left \subseteq Nat
    BY <1>1
  <2>2. left \subseteq extent .. Count /\ \A i \in left : s < Lba(i) + Size(i)
    OBVIOUS
  <2> HIDE DEF left
  <2>3. PICK a : a = Min(left)
    OBVIOUS
  <2>4. a \in left /\ \A i \in left : a <= i
    BY <1>6, <2>1, <2>3, MinIsLeast
  <2>5. a \in extent .. Count /\ s < Lba(a) + Size(a) /\ Advance(s) = a
    BY <1>2, <1>6, <2>2, <2>3, <2>4
  <2>6. \A i \in extent .. a - 1 : Lba(i) + Size(i) <= s
    <3> SUFFICES ASSUME NEW i \in extent .. a - 1 PROVE Lba(i) + Size(i) <= s
      OBVIOUS
    <3>1. i \in extent .. Count /\ i < a
      BY <1>1, <2>5
    <3>2. i \notin left
      BY <1>1, <2>4, <2>5, <3>1
    <3> QED
      BY <1>4, <3>1, <3>2
  <2> QED
    BY <1>1, <2>5, <2>6
<1> QED
  BY <1>5, <1>6

\* The comparison accepts exactly what the image says.
LEMMA CompareExact ==
    ASSUME image \in Images, Sound, extent \in 1 .. Count + 1, offset = Used(extent),
           \A i \in 1 .. extent - 1 : Lba(i) + Size(i) <= sector,
           sector \in Nat, NEW s \in Nat, sector <= s
    PROVE  SectorMatches(s) <=> Matches(now, s)
<1>1. Count \in Nat /\ extent \in Nat
  BY DEF Sound
<1>2. PICK a : a = Advance(s)
  OBVIOUS
<1>3. /\ a \in extent .. Count + 1
      /\ \A i \in extent .. a - 1 : Lba(i) + Size(i) <= s
      /\ a <= Count => s < Lba(a) + Size(a)
  BY <1>2, AdvanceIs
<1>4. \A i \in 1 .. Count : Lba(i) \in Nat /\ Size(i) \in Nat
  BY DEF Sound
<1>5. \A i \in 1 .. a - 1 : i \in 1 .. Count /\ ~Covers(i, s)
  <2> SUFFICES ASSUME NEW i \in 1 .. a - 1 PROVE i \in 1 .. Count /\ ~Covers(i, s)
    OBVIOUS
  <2>1. i \in 1 .. Count
    BY <1>1, <1>3
  <2>2. Lba(i) + Size(i) <= s
    <3>1. CASE i < extent
      <4>1. Lba(i) + Size(i) <= sector
        BY <1>1, <2>1, <3>1
      <4> QED
        BY <1>4, <2>1, <4>1
    <3>2. CASE i >= extent
      BY <1>1, <1>3, <3>2
    <3> QED
      BY <1>1, <3>1, <3>2
  <2> QED
    BY <1>4, <2>1, <2>2 DEF Covers
<1>6. OffsetAt(a) = Used(a)
  <2>1. image.extents \in Extents
    BY InstallerAssumption DEF Extents
  <2> QED
    BY <1>3, <2>1, WalkGoesOn DEF OffsetAt
<1>7. SectorMatches(s) <=>
          now[s] = IF a <= Count /\ s >= Lba(a)
                   THEN Used(a) + (s - Lba(a)) + 1 ELSE 0
  BY <1>2, <1>6 DEF SectorMatches, Count, Lba
<1>8. CASE a <= Count /\ s >= Lba(a)
  <2>1. a \in 1 .. Count /\ Covers(a, s)
    BY <1>1, <1>3, <1>8 DEF Covers
  <2>2. \A i \in 1 .. Count : Covers(i, s) => i = a
    BY <2>1, CoversOne
  <2>3. Matches(now, s) <=> Holds(now, a, s)
    BY <2>1, <2>2 DEF Matches
  <2> QED
    BY <1>7, <1>8, <2>3 DEF Holds
<1>9. CASE ~(a <= Count /\ s >= Lba(a))
  <2>1. \A i \in 1 .. Count : ~Covers(i, s)
    <3> SUFFICES ASSUME NEW i \in 1 .. Count, Covers(i, s) PROVE FALSE
      OBVIOUS
    <3>1. i >= a
      BY <1>1, <1>3, <1>5
    <3>2. a \in 1 .. Count /\ Lba(a) \in Nat /\ Size(a) \in Nat
      BY <1>1, <1>3, <1>4, <3>1
    <3>3. i # a
      BY <1>9, <3>2 DEF Covers
    <3>4. Lba(a) + Size(a) <= Lba(i)
      BY <1>1, <1>3, <3>1, <3>2, <3>3 DEF Sound
    <3>5. Lba(a) <= Lba(i) /\ Lba(i) <= s
      BY <1>4, <3>2, <3>4 DEF Covers
    <3> QED
      BY <1>4, <1>9, <3>2, <3>5
  <2>2. Matches(now, s) <=> now[s] = 0
    BY <2>1 DEF Matches
  <2> QED
    BY <1>7, <1>9, <2>2
<1> QED
  BY <1>8, <1>9

-----------------------------------------------------------------------------
(* The steps.                                                              *)

\* No step changes the image.
LEMMA SameImage ==
    ASSUME image' = image
    PROVE  /\ Count' = Count
           /\ \A i : Lba(i)' = Lba(i) /\ Size(i)' = Size(i) /\ Used(i)' = Used(i)
           /\ \A i, s : Covers(i, s)' <=> Covers(i, s)
           /\ zinstall_image_valid' <=> zinstall_image_valid
<1>1. Count' = Count
  BY DEF Count
<1>2. \A i : Lba(i)' = Lba(i) /\ Size(i)' = Size(i)
  BY DEF Lba, Size
<1>3. \A i : Used(i)' = Used(i)
  BY DEF Used, Walk
<1>4. \A i, s : Covers(i, s)' <=> Covers(i, s)
  BY <1>2 DEF Covers
<1>5. \A k : PreviousEnd(k)' = PreviousEnd(k)
  BY DEF PreviousEnd
<1>6. \A k : CheckExtent(k)' <=> CheckExtent(k)
  BY <1>3, <1>5 DEF CheckExtent
<1>7. zinstall_image_valid' <=> zinstall_image_valid
  BY <1>3, <1>6 DEF zinstall_image_valid
<1> QED
  BY <1>1, <1>2, <1>3, <1>4, <1>7

\* What a disk holds is judged by the image.
LEMMA SameMatches ==
    ASSUME image' = image
    PROVE  /\ now' = now => \A s : Matches(now, s)' <=> Matches(now, s)
           /\ stable' = now => \A s : Matches(stable, s)' <=> Matches(now, s)
<1>2. ASSUME now' = now, NEW s PROVE Matches(now, s)' <=> Matches(now, s)
  BY <1>2, SameImage DEF Matches, Holds
<1>3. ASSUME stable' = now, NEW s PROVE Matches(stable, s)' <=> Matches(now, s)
  BY <1>3, SameImage DEF Matches, Holds
<1> QED
  BY <1>2, <1>3

\* What zinstall_handle knows in every phase.
Known ==
    /\ image \in Images /\ target \in Targets /\ faults \in Nat
    /\ target.batch \in Nat /\ target.flush \in BOOLEAN /\ Sectors \in Nat \ {0}

LEMMA KnownAlways ==
    ASSUME Inv
    PROVE  Known
  BY InstallerAssumption DEF Inv, Known

\* The checks before the first write.
LEMMA StartKeeps ==
    ASSUME Inv, NEW confirmed \in BOOLEAN, zinstall_start(confirmed)
    PROVE  Inv'
<1>1. Known /\ Untouched
  BY KnownAlways DEF Inv, zinstall_start
<1>2. UNCHANGED <<image, target, now>> /\ stable' \in {stable, now} /\ faults' \in Nat
  BY <1>1 DEF zinstall_start, Flush, Known
<1>3. Untouched'
  BY <1>1, <1>2 DEF Untouched
<1>4. CASE pc' = "done" /\ message' = "refused"
  BY <1>1, <1>2, <1>3, <1>4 DEF Inv, Known, Ended
<1>5. CASE /\ zinstall_image_valid /\ target.flush /\ target.batch # 0
           /\ Phase("erase")
  <2>1. Going'
    BY <1>1, <1>2, <1>5, SameImage DEF Going, Known
  <2>2. pc' = "erase" /\ sector' = 0
    BY <1>5 DEF Phase
  <2>3. ErasePhase'
    BY <1>1, <2>2 DEF ErasePhase, Known, LBAs
  <2> QED
    BY <1>1, <1>2, <2>1, <2>2, <2>3 DEF Inv, Known
<1> QED
  BY <1>4, <1>5 DEF zinstall_start, Flush, Ends

\* A phase that fails after an error says so.
LEMMA FailureKeeps ==
    ASSUME Known, UNCHANGED <<image, target>>, faults' \in Nat, faults' > 0,
           pc' = "done", message' \in {"incomplete", "do not reboot"}
    PROVE  Inv'
  BY DEF Known, Inv, Ended

\* The batch that Batch allows.
LEMMA BatchIs ==
    ASSUME Known, target.batch # 0, NEW n \in Nat \ {0}
    PROVE  Batch(n) \in 1 .. n
  BY DEF Known, Batch, Min2

\* Zeros, batch by batch.
LEMMA EraseKeeps ==
    ASSUME Inv, zinstall_erase
    PROVE  Inv'
<1>1. Known /\ Going /\ ErasePhase /\ UNCHANGED <<image, target, stable>>
  BY KnownAlways DEF Inv, zinstall_erase
<1>2. Going'
  BY <1>1, SameImage DEF Going
<1>3. PICK batch : batch = Batch(Sectors - sector)
  OBVIOUS
<1>4. batch \in 1 .. Sectors - sector /\ sector \in Nat /\ sector < Sectors
  BY <1>1, <1>3, BatchIs DEF ErasePhase, Going, Known, zinstall_erase
<1> DEFINE zeros == [i \in 1 .. batch |-> 0]
           range == sector .. sector + batch - 1
           written == [s \in LBAs |-> IF s \in range THEN zeros[s - sector + 1]
                                      ELSE now[s]]
<1>5. Len(zeros) = batch
  BY <1>4
<1>6. \/ /\ now' = written /\ sector' = sector + batch
         /\ pc' = "erase" /\ faults' = faults
      \/ /\ faults' = faults + 1 /\ sector' = sector + batch /\ pc' = "erase"
      \/ /\ faults' = faults + 1 /\ pc' = "done" /\ message' = "incomplete"
  BY <1>3, <1>5 DEF zinstall_erase, Write
<1>7. CASE faults' = faults + 1 /\ pc' = "done" /\ message' = "incomplete"
  BY <1>1, <1>7, FailureKeeps DEF Known
<1>8. CASE faults' = faults + 1 /\ sector' = sector + batch /\ pc' = "erase"
  <2>1. ErasePhase'
    BY <1>1, <1>4, <1>8 DEF ErasePhase, Known
  <2> QED
    BY <1>1, <1>2, <1>8, <2>1 DEF Inv, Known
<1>9. CASE /\ now' = written /\ sector' = sector + batch
           /\ pc' = "erase" /\ faults' = faults
  <2>1. ASSUME faults = 0, NEW s \in LBAs, s < sector + batch PROVE now'[s] = 0
    <3>1. s \in Nat
      BY <1>1 DEF LBAs, Known
    <3>2. now'[s] = IF s \in range THEN zeros[s - sector + 1] ELSE now[s]
      BY <1>9
    <3>3. CASE s \in range
      <4>1. s - sector + 1 \in 1 .. batch
        BY <1>4, <3>1, <3>3
      <4> QED
        BY <3>2, <3>3, <4>1
    <3>4. CASE s \notin range
      <4>1. s < sector
        BY <1>4, <2>1, <3>1, <3>4
      <4> QED
        BY <1>1, <2>1, <3>2, <3>4, <4>1 DEF ErasePhase
    <3> QED
      BY <3>3, <3>4
  <2>2. ErasePhase'
    BY <1>1, <1>4, <1>9, <2>1 DEF ErasePhase, Known
  <2> QED
    BY <1>1, <1>2, <1>9, <2>2 DEF Inv, Known
<1> QED
  BY <1>6, <1>7, <1>8, <1>9

\* The erased disk is flushed, and the first extent begins.
LEMMA ErasedKeeps ==
    ASSUME Inv, zinstall_erased
    PROVE  Inv'
<1>1. Known /\ Going /\ ErasePhase /\ sector = Sectors
  BY KnownAlways DEF Inv, zinstall_erased
<1>2. UNCHANGED <<image, target, now>>
  BY DEF zinstall_erased, Flush
<1>3. CASE faults' = faults + 1 /\ pc' = "done" /\ message' = "incomplete"
  BY <1>1, <1>2, <1>3, FailureKeeps DEF Known
<1>4. CASE faults' = faults /\ Phase("write")
  <2>1. pc' = "write" /\ extent' = 1 /\ done' = 0 /\ offset' = 0
    BY <1>4 DEF Phase
  <2>2. Sound
    BY <1>1, ValidIsSound DEF Known, Going
  <2>3. image.extents \in Extents
    BY <1>1, InstallerAssumption DEF Known, Extents
  <2>4. Count \in Nat /\ Used(1) = 0 /\ (1 <= Count => 0 < Size(1))
    BY <2>2, <2>3, UsedTurn DEF Sound
  <2>5. ASSUME faults' = 0, NEW s \in LBAs PROVE Written(s)'
    <3>1. s < sector /\ s \in Nat
      BY <1>1 DEF LBAs, Known
    <3>2. now'[s] = 0
      BY <1>1, <1>2, <1>4, <2>5, <3>1 DEF ErasePhase
    <3>3. ASSUME NEW i \in 1 .. Count, Covers(i, s)
          PROVE  ~Reached(i, s)'
      <4>1. Lba(i) \in Nat /\ Lba(i) <= s /\ Lba(i)' = Lba(i)
        BY <1>2, <2>2, <3>3, SameImage DEF Sound, Covers
      <4> QED
        BY <2>1, <2>4, <3>1, <4>1 DEF Reached
    <3> QED
      BY <1>2, <3>2, <3>3, SameImage DEF Written
  <2>6. WritePhase'
    BY <1>2, <2>1, <2>4, <2>5, SameImage DEF WritePhase
  <2>7. Going'
    BY <1>1, <1>2, SameImage DEF Going
  <2> QED
    BY <1>1, <1>2, <1>4, <2>1, <2>6, <2>7 DEF Inv, Known
<1> QED
  BY <1>1, <1>3, <1>4 DEF zinstall_erased, Flush, Going

\* Where the writing stands after a batch.
NextDone(batch) ==
    IF done + batch < Size(extent)
    THEN done' = done + batch /\ extent' = extent /\ offset' = offset
    ELSE done' = 0 /\ extent' = extent + 1 /\ offset' = offset + Size(extent)

\* A batch moves on inside its extent or to the next one.
LEMMA ProgressKeeps ==
    ASSUME Known, Going, WritePhase, extent <= Count, image' = image,
           NEW batch \in 1 .. Size(extent) - done, NextDone(batch)
    PROVE  /\ extent' \in 1 .. Count' + 1 /\ offset' = Used(extent')
           /\ done' \in Nat /\ (extent' <= Count' => done' < Size(extent'))
           /\ \A i \in 1 .. Count : \A s \in Nat : Covers(i, s) =>
                (Reached(i, s)' <=>
                    Reached(i, s) \/ (i = extent /\ s < Lba(i) + done + batch))
<1>1. Sound
  BY ValidIsSound DEF Known, Going
<1>2. /\ Count \in Nat /\ extent \in 1 .. Count /\ done \in Nat
      /\ Size(extent) \in Nat /\ done < Size(extent) /\ batch \in Nat
      /\ done + batch <= Size(extent)
  BY <1>1 DEF Sound, WritePhase
<1>3. Used(extent + 1) = Used(extent) + Size(extent) /\ offset = Used(extent)
  BY <1>1, <1>2 DEF Sound, WritePhase
<1>4. extent + 1 <= Count => 0 < Size(extent + 1)
  BY <1>1, <1>2 DEF Sound
<1>5. Count' = Count /\ \A i : Lba(i)' = Lba(i) /\ Size(i)' = Size(i) /\ Used(i)' = Used(i)
  BY SameImage
<1>6. CASE done + batch < Size(extent)
  <2>1. done' = done + batch /\ extent' = extent /\ offset' = offset
    BY <1>6 DEF NextDone
  <2>2. ASSUME NEW i \in 1 .. Count, NEW s \in Nat
        PROVE  Reached(i, s)' <=>
                   Reached(i, s) \/ (i = extent /\ s < Lba(i) + done + batch)
    <3>1. Lba(i) \in Nat
      BY <1>1 DEF Sound
    <3> QED
      BY <1>2, <1>5, <2>1, <3>1 DEF Reached
  <2> QED
    BY <1>2, <1>3, <1>5, <1>6, <2>1, <2>2
<1>7. CASE ~(done + batch < Size(extent))
  <2>1. /\ done' = 0 /\ extent' = extent + 1 /\ offset' = offset + Size(extent)
        /\ done + batch = Size(extent)
    BY <1>2, <1>7 DEF NextDone
  <2>2. ASSUME NEW i \in 1 .. Count, NEW s \in Nat, Covers(i, s)
        PROVE  Reached(i, s)' <=>
                   Reached(i, s) \/ (i = extent /\ s < Lba(i) + done + batch)
    <3>1. Lba(i) \in Nat /\ Size(i) \in Nat /\ Lba(i) <= s /\ s < Lba(i) + Size(i)
      BY <1>1, <2>2 DEF Sound, Covers
    <3>2. Reached(i, s)' <=> i < extent + 1
      BY <1>2, <1>5, <2>1, <3>1 DEF Reached
    <3>3. i = extent => s < Lba(i) + done + batch
      BY <1>2, <2>1, <3>1
    <3> QED
      BY <1>2, <3>2, <3>3 DEF Reached
  <2> QED
    BY <1>2, <1>3, <1>4, <1>5, <2>1, <2>2
<1> QED
  BY <1>6, <1>7

\* The payload, batch by batch.
LEMMA WriteKeeps ==
    ASSUME Inv, zinstall_write
    PROVE  Inv'
<1>1. /\ Known /\ Going /\ WritePhase /\ extent <= Count
      /\ UNCHANGED <<image, target, stable>>
  BY KnownAlways DEF Inv, zinstall_write, Count
<1>2. Going'
  BY <1>1, SameImage DEF Going
<1>3. Sound
  BY <1>1, ValidIsSound DEF Known, Going
<1>4. /\ Count \in Nat /\ extent \in 1 .. Count /\ done \in Nat
      /\ Size(extent) \in Nat /\ done < Size(extent) /\ offset = Used(extent)
      /\ Lba(extent) \in Nat /\ Used(extent) \in Nat
  BY <1>1, <1>3 DEF Sound, WritePhase
<1>5. PICK batch : batch = Batch(Size(extent) - done)
  OBVIOUS
<1>6. batch \in 1 .. Size(extent) - done /\ batch \in Nat
  BY <1>1, <1>4, <1>5, BatchIs DEF Going
<1>7. PICK first : first = Lba(extent) + done
  OBVIOUS
<1> DEFINE contents == [i \in 1 .. batch |-> offset + done + i]
           range == first .. first + batch - 1
           written == [s \in LBAs |-> IF s \in range THEN contents[s - first + 1]
                                      ELSE now[s]]
<1>8. Len(contents) = batch
  BY <1>6
<1>9. \/ now' = written /\ NextDone(batch) /\ pc' = "write" /\ faults' = faults
      \/ faults' = faults + 1 /\ NextDone(batch) /\ pc' = "write"
      \/ faults' = faults + 1 /\ pc' = "done" /\ message' = "incomplete"
  BY <1>5, <1>7, <1>8 DEF zinstall_write, Write, NextDone, Size, Lba
<1>10. CASE faults' = faults + 1 /\ pc' = "done" /\ message' = "incomplete"
  BY <1>1, <1>10, FailureKeeps DEF Known
<1>11. ASSUME NextDone(batch)
       PROVE  /\ extent' \in 1 .. Count' + 1 /\ offset' = Used(extent')
              /\ done' \in Nat /\ (extent' <= Count' => done' < Size(extent'))
              /\ \A i \in 1 .. Count : \A s \in Nat : Covers(i, s) =>
                   (Reached(i, s)' <=>
                       Reached(i, s) \/ (i = extent /\ s < Lba(i) + done + batch))
  BY <1>1, <1>6, <1>11, ProgressKeeps
<1>12. Used(extent)' = Used(extent') /\ Size(extent)' = Size(extent')
  BY <1>1 DEF Used, Walk, Size
<1>13. CASE faults' = faults + 1 /\ NextDone(batch) /\ pc' = "write"
  <2>1. WritePhase'
    BY <1>1, <1>11, <1>12, <1>13 DEF WritePhase, Known
  <2> QED
    BY <1>1, <1>2, <1>13, <2>1 DEF Inv, Known
<1>14. CASE now' = written /\ NextDone(batch) /\ pc' = "write" /\ faults' = faults
  <2>1. ASSUME faults = 0, NEW s \in LBAs PROVE Written(s)'
    <3>1. s \in Nat /\ Written(s)
      BY <1>1, <2>1 DEF LBAs, Known, WritePhase
    <3>2. now'[s] = IF s \in range THEN contents[s - first + 1] ELSE now[s]
      BY <1>14
    <3>3. s \in range => now'[s] = Used(extent) + (s - Lba(extent)) + 1
      <4> SUFFICES ASSUME s \in range
                   PROVE  now'[s] = Used(extent) + (s - Lba(extent)) + 1
        OBVIOUS
      <4>1. s - first + 1 \in 1 .. batch /\ first \in Nat
        BY <1>4, <1>6, <1>7, <3>1
      <4>2. now'[s] = offset + done + (s - first + 1)
        BY <3>2, <4>1
      <4> QED
        BY <1>4, <1>7, <3>1, <4>1, <4>2
    <3>4. s \in range => Covers(extent, s)
      BY <1>4, <1>6, <1>7, <3>1 DEF Covers
    <3>5. s \notin range => now'[s] = now[s]
      BY <3>2
    <3> HIDE DEF range, contents, written
    <3>6. ASSUME NEW i \in 1 .. Count, Covers(i, s)
          PROVE  IF Reached(i, s)' THEN now'[s] = Used(i) + (s - Lba(i)) + 1
                 ELSE now'[s] = 0
      <4>1. Reached(i, s)' <=>
                Reached(i, s) \/ (i = extent /\ s < Lba(i) + done + batch)
        BY <1>11, <1>14, <3>1, <3>6
      <4>2. IF Reached(i, s) THEN now[s] = Used(i) + (s - Lba(i)) + 1 ELSE now[s] = 0
        BY <3>1, <3>6 DEF Written, Holds
      <4>3. CASE s \in range
        <5>1. i = extent
          BY <1>3, <1>4, <3>1, <3>4, <3>6, <4>3, CoversOne
        <5>2. s < Lba(i) + done + batch
          BY <1>4, <1>6, <1>7, <3>1, <4>3, <5>1 DEF range
        <5> QED
          BY <3>3, <4>1, <4>3, <5>1, <5>2
      <4>4. CASE s \notin range
        <5>1. i = extent /\ s < Lba(i) + done + batch => Reached(i, s)
          BY <1>4, <1>6, <1>7, <3>1, <4>4 DEF range, Reached
        <5> QED
          BY <3>5, <4>1, <4>2, <4>4, <5>1
      <4> QED
        BY <4>3, <4>4
    <3>7. (\A i \in 1 .. Count : ~Covers(i, s)) => now'[s] = 0
      BY <1>4, <3>1, <3>4, <3>5 DEF Written
    <3>8. /\ Count' = Count
          /\ \A i : Lba(i)' = Lba(i) /\ Used(i)' = Used(i)
          /\ \A i : Covers(i, s)' <=> Covers(i, s)
      BY <1>1, SameImage
    <3> QED
      BY <3>6, <3>7, <3>8 DEF Written, Holds
  <2>2. WritePhase'
    BY <1>1, <1>11, <1>12, <1>14, <2>1 DEF WritePhase
  <2> QED
    BY <1>1, <1>2, <1>14, <2>2 DEF Inv, Known
<1> QED
  BY <1>9, <1>10, <1>13, <1>14

\* The image is flushed, and the reading back begins.
LEMMA WrittenKeeps ==
    ASSUME Inv, zinstall_written
    PROVE  Inv'
<1>1. Known /\ Going /\ WritePhase /\ extent > Count
  BY KnownAlways DEF Inv, zinstall_written, Count
<1>2. UNCHANGED <<image, target, now>>
  BY DEF zinstall_written, Flush
<1>3. CASE faults' = faults + 1 /\ pc' = "done" /\ message' = "do not reboot"
  <2>1. faults' = faults + 1
    BY <1>3, Zenon
  <2>2. faults' \in Nat /\ faults' > 0
    BY <1>1, <2>1 DEF Known
  <2> QED
    BY <1>1, <1>2, <1>3, <2>2, FailureKeeps, Zenon
<1>4. CASE faults' = faults /\ Phase("verify")
  <2>1. pc' = "verify" /\ sector' = 0 /\ extent' = 1 /\ offset' = 0
    BY <1>4 DEF Phase
  <2>2. image.extents \in Extents
    BY <1>1, InstallerAssumption DEF Known, Extents
  <2>3. Count \in Nat /\ Used(1) = 0
    BY <2>2, UsedTurn, ExtentTyped
  <2>4. ASSUME faults = 0, NEW s \in LBAs PROVE Matches(now, s)
    <3>1. Written(s) /\ \A i \in 1 .. Count : Reached(i, s)
      BY <1>1, <2>3, <2>4 DEF WritePhase, Reached
    <3> QED
      BY <3>1 DEF Written, Matches
  <2>5. \A s \in LBAs : ~(s < 0)
    BY <1>1 DEF LBAs, Known
  <2>6. VerifyPhase'
    BY <1>1, <1>2, <1>4, <2>1, <2>3, <2>4, <2>5, SameImage, SameMatches
    DEF VerifyPhase, Known
  <2>7. Going'
    BY <1>1, <1>2, SameImage DEF Going
  <2> QED
    BY <1>1, <1>2, <1>4, <2>1, <2>6, <2>7 DEF Inv, Known
<1> QED
  BY <1>1, <1>3, <1>4 DEF zinstall_written, Flush, Going

\* A batch is compared: what is accepted is what the image says, and only an
\* error of the device makes the disk differ.
LEMMA VerifyKeeps ==
    ASSUME Inv, zinstall_verify
    PROVE  Inv'
<1>1. /\ Known /\ Going /\ VerifyPhase /\ sector < Sectors
      /\ UNCHANGED <<image, target, now, stable>>
  BY KnownAlways DEF Inv, zinstall_verify
<1>2. Going'
  BY <1>1, SameImage DEF Going
<1>3. Sound
  BY <1>1, ValidIsSound DEF Known, Going
<1>4. /\ sector \in Nat /\ Count \in Nat /\ extent \in 1 .. Count + 1
      /\ offset = Used(extent)
      /\ \A i \in 1 .. extent - 1 : Lba(i) + Size(i) <= sector
  BY <1>1, <1>3 DEF VerifyPhase, Sound
<1>5. PICK batch : batch = Batch(Sectors - sector)
  OBVIOUS
<1>6. batch \in 1 .. Sectors - sector /\ batch \in Nat
  BY <1>1, <1>4, <1>5, BatchIs DEF Going, Known
<1>7. PICK last \in Nat : last = sector + batch - 1
  BY <1>4, <1>6
<1>8. last + 1 = sector + batch /\ sector <= last /\ last < Sectors
  BY <1>1, <1>4, <1>6, <1>7 DEF Known
<1>9. \A s \in sector .. last : s \in Nat /\ s \in LBAs /\ sector <= s
  BY <1>1, <1>4, <1>8 DEF LBAs, Known
<1>10. \A s \in sector .. last : SectorMatches(s) <=> Matches(now, s)
  BY <1>1, <1>3, <1>4, <1>9, CompareExact DEF Known
<1>11. \/ /\ \A s \in sector .. last : SectorMatches(s)
          /\ sector' = sector + batch /\ extent' = Advance(last)
          /\ offset' = OffsetAt(Advance(last))
          /\ pc' = "verify" /\ faults' = faults
       \/ /\ \E s \in sector .. last : ~SectorMatches(s)
          /\ pc' = "done" /\ message' = "incomplete" /\ faults' = faults
       \/ /\ faults' = faults + 1
          /\ pc' = "done" /\ message' = "incomplete"
  BY <1>5, <1>7 DEF zinstall_verify, Ends
<1>12. CASE faults' = faults + 1 /\ pc' = "done" /\ message' = "incomplete"
  BY <1>1, <1>12, FailureKeeps DEF Known
<1>13. CASE /\ \E s \in sector .. last : ~SectorMatches(s)
            /\ pc' = "done" /\ message' = "incomplete" /\ faults' = faults
  <2>1. faults # 0
    BY <1>1, <1>9, <1>10, <1>13 DEF VerifyPhase
  <2> QED
    BY <1>1, <1>13, <2>1, FailureKeeps DEF Known
<1>14. CASE /\ \A s \in sector .. last : SectorMatches(s)
            /\ sector' = sector + batch /\ extent' = Advance(last)
            /\ offset' = OffsetAt(Advance(last))
            /\ pc' = "verify" /\ faults' = faults
  <2>1. PICK a : a = Advance(last)
    OBVIOUS
  <2>2. /\ a \in extent .. Count + 1
        /\ \A i \in extent .. a - 1 : Lba(i) + Size(i) <= last
    BY <1>3, <1>4, <2>1, AdvanceIs
  <2>3. OffsetAt(a) = Used(a)
    <3>1. image.extents \in Extents
      BY <1>1, InstallerAssumption DEF Extents, Known
    <3> QED
      BY <1>4, <2>2, <3>1, WalkGoesOn DEF OffsetAt
  <2>4. ASSUME NEW i \in 1 .. a - 1 PROVE Lba(i) + Size(i) <= sector + batch
    <3>1. i \in 1 .. Count
      BY <1>4, <2>2
    <3>2. Lba(i) + Size(i) \in Nat
      BY <1>3, <3>1 DEF Sound
    <3>3. CASE i < extent
      <4>1. Lba(i) + Size(i) <= sector
        BY <1>4, <3>1, <3>3
      <4> QED
        BY <1>4, <1>6, <3>2, <4>1
    <3>4. CASE i >= extent
      <4>1. Lba(i) + Size(i) <= last
        BY <1>4, <2>2, <3>1, <3>4
      <4> QED
        BY <1>8, <3>2, <4>1
    <3> QED
      BY <1>4, <3>3, <3>4
  <2>5. ASSUME NEW s \in LBAs, s < sector + batch PROVE Matches(now, s)
    <3>1. s \in Nat
      BY <1>1 DEF LBAs, Known
    <3>2. CASE s < sector
      BY <1>1, <3>2 DEF VerifyPhase
    <3>3. CASE s >= sector
      <4>1. s \in sector .. last
        BY <1>4, <1>8, <2>5, <3>1, <3>3
      <4> QED
        BY <1>10, <1>14, <4>1
    <3> QED
      BY <1>4, <3>1, <3>2, <3>3
  <2>6. /\ sector + batch \in 0 .. Sectors /\ a \in 1 .. Count + 1
        /\ sector' = sector + batch /\ extent' = a /\ offset' = Used(a)
    BY <1>1, <1>4, <1>6, <1>14, <2>1, <2>2, <2>3 DEF Known
  <2>7. Used(extent)' = Used(a)
    BY <1>1, <2>6 DEF Used, Walk
  <2>8. /\ Count' = Count
        /\ \A i : Lba(i)' = Lba(i) /\ Size(i)' = Size(i)
        /\ \A s : Matches(now, s)' <=> Matches(now, s)
    BY <1>1, SameImage, SameMatches
  <2>9. faults' = 0 => \A s \in LBAs : Matches(now, s)
    BY <1>1, <1>14 DEF VerifyPhase
  <2>10. VerifyPhase'
    BY <2>4, <2>5, <2>6, <2>7, <2>8, <2>9 DEF VerifyPhase
  <2> QED
    BY <1>1, <1>2, <1>14, <2>10 DEF Inv, Known
<1> QED
  BY <1>11, <1>12, <1>13, <1>14

\* What has been compared is flushed.
LEMMA VerifiedKeeps ==
    ASSUME Inv, zinstall_verified
    PROVE  Inv'
<1>1. Known /\ Going /\ VerifyPhase /\ sector = Sectors
  BY KnownAlways DEF Inv, zinstall_verified
<1>2. UNCHANGED <<image, target, now>>
  BY DEF zinstall_verified, Flush
<1>3. CASE faults' = faults + 1 /\ pc' = "done" /\ message' = "do not reboot"
  <2>1. faults' = faults + 1
    BY <1>3, Zenon
  <2>2. faults' \in Nat /\ faults' > 0
    BY <1>1, <2>1 DEF Known
  <2> QED
    BY <1>1, <1>2, <1>3, <2>2, FailureKeeps, Zenon
<1>4. CASE /\ faults' = faults /\ stable' = now
           /\ pc' = "done" /\ message' = "installed"
  <2>1. ASSUME NEW s \in LBAs PROVE Matches(stable, s)'
    <3>1. s < sector
      BY <1>1 DEF LBAs, Known
    <3> QED
      BY <1>1, <1>2, <1>4, <3>1, SameMatches DEF VerifyPhase
  <2>2. zinstall_image_valid'
    BY <1>1, <1>2, SameImage DEF Going
  <2> QED
    BY <1>1, <1>2, <1>4, <2>1, <2>2 DEF Inv, Known, Ended
<1> QED
  BY <1>1, <1>3, <1>4 DEF zinstall_verified, Flush, Ends, Going

-----------------------------------------------------------------------------
(* The results.                                                            *)

\* A step that changes nothing.
LEMMA StutterKeeps ==
    ASSUME Inv, UNCHANGED vars
    PROVE  Inv'
<1>1. image' = image /\ now' = now /\ stable' = stable
  BY DEF vars
<1>2. Untouched => Untouched'
  BY <1>1 DEF Untouched
<1>3. Going => Going'
  BY SameImage DEF Going, vars
<1>4. ErasePhase => ErasePhase'
  BY DEF ErasePhase, vars
<1>5. Used(extent)' = Used(extent) /\ Size(extent)' = Size(extent)
  BY DEF Used, Walk, Size, vars
<1>6. WritePhase => WritePhase'
  <2>1. \A s : Written(s)' <=> Written(s)
    BY <1>1, SameImage DEF Written, Reached, Holds, vars
  <2> QED
    BY <1>1, <1>5, <2>1, SameImage DEF WritePhase, vars
<1>7. VerifyPhase => VerifyPhase'
  BY <1>1, <1>5, SameImage, SameMatches DEF VerifyPhase, vars
<1>8. Ended => Ended'
  <2>1. \A s : Matches(stable, s)' <=> Matches(stable, s)
    BY <1>1, SameImage DEF Matches, Holds
  <2> QED
    BY <1>1, <1>2, <2>1, SameImage DEF Ended, vars
<1> QED
  BY <1>2, <1>3, <1>4, <1>6, <1>7, <1>8 DEF Inv, vars

\* The inductive invariant: in every phase the walk over the extents stands
\* where the sectors already written or compared say, and as long as there was
\* no error, the disk holds what the phases so far have put there.
THEOREM InstallInvariant == Spec => []Inv
<1>1. Init => Inv
  BY InstallerAssumption DEF Init, Inv, Untouched
<1>2. Inv /\ [Next]_vars => Inv'
  BY StartKeeps, EraseKeeps, ErasedKeeps, WriteKeeps, WrittenKeeps, VerifyKeeps,
     VerifiedKeeps, StutterKeeps
  DEF Next, zinstall_handle
<1> QED
  BY <1>1, <1>2, PTL DEF Spec

\* The final message of zinstall_handle is true, for every image, disk,
\* transfer window and number of errors: "installed" means that each sector
\* durably holds what the image says, "refused" that the disk is untouched,
\* and a warning that the device had an error.
THEOREM MessageHolds == Spec => []MessagesTrue
<1>1. Inv => MessagesTrue
  <2> SUFFICES ASSUME Inv, pc = "done" PROVE MessagesTrue
    BY DEF MessagesTrue
  <2>1. Ended /\ Known
    BY KnownAlways DEF Inv
  <2>2. ASSUME message = "installed", NEW s \in LBAs
        PROVE  ImageAt(s) = {stable[s]} /\ stable[s] \in 0 .. image.payload
    <3>1. Sound /\ Matches(stable, s) /\ image \in Images
      BY <2>1, <2>2, ValidIsSound DEF Ended, Known
    <3> QED
      BY <3>1, MatchesImage
  <2> QED
    BY <2>1, <2>2 DEF Ended, Untouched, MessagesTrue
<1> QED
  BY <1>1, InstallInvariant, PTL
=============================================================================
