------------------------- MODULE SerialUpload_proofs --------------------------
(***************************************************************************)
(* Proofs about SourceFiles and SerialUpload for any names, files, legacy  *)
(* root and archive, partitions of any number of records and any number of *)
(* device errors, damaged lines and uploads: what was last answered about  *)
(* a name is what the guest reads and lists, and what the host is told of  *)
(* its first upload is true.                                               *)
(***************************************************************************)
EXTENDS SerialUpload, Induction, SequenceTheorems, FunctionTheorems

\* Lines on their way to the guest.
Line ==
    [line : {"zrecv"}, name : Names, length : Lengths, crc : Files]
    \union [line : {"chunk"}, chunk : Chunks] \union {Junk}

FilesTyped ==
    /\ part \in BOOLEAN
    /\ log \in Seq(Record)
    /\ legacy \in [RootNames -> Files \union {Absent}]
    /\ acked \in [Names -> Files \union {Absent, Deleted, Unknown}]
    /\ faults \in Nat

\* The editor and zrecv only work on a partition, and know what they save.
EditTyped ==
    /\ edit.active \in BOOLEAN
    /\ edit.active =>
         /\ part
         /\ edit \in [active : BOOLEAN, name : Names, dirty : BOOLEAN,
                      existed : BOOLEAN, text : Files \union {<<>>}]

LineTyped ==
    /\ {"file", "sent"} \subseteq DOMAIN host
    /\ {"name", "crc"} \subseteq DOMAIN recv
    /\ host.file \in Files /\ host.sent \in Nat
    /\ toGuest \in Seq(Line)
    /\ recv.pc \in {"chunk", "finish"} =>
           part /\ recv.name \in Names /\ recv.crc \in Files

\* What the last answer about n means for its records and its legacy copy.
Promised(n) ==
    IF part
    THEN /\ acked[n] \in Files =>
              \/ zss_find(n) = acked[n]
              \/ zss_find(n) = Absent /\ legacy_of(n) = acked[n]
         /\ acked[n] \in {Deleted, Absent} => zss_find(n) = acked[n]
    ELSE /\ log = <<>>
         /\ acked[n] \in Files => legacy_of(n) = acked[n]
         /\ acked[n] # Deleted

Inv == FilesTyped /\ EditTyped /\ LineTyped /\ \A n \in Names : Promised(n)

-----------------------------------------------------------------------------
(* The latest record of a name.                                            *)

FindIn(l, n) ==
    LET mine == {i \in DOMAIN l : l[i].name = n}
    IN  IF mine = {} THEN Absent ELSE l[Max(mine)].x

\* The record of n at i is the last one of its name.
LastAt(l, n, i) ==
    /\ i \in 1 .. Len(l)
    /\ l[i].name = n
    /\ \A j \in 1 .. Len(l) : l[j].name = n => j <= i

\* The last record of a name is the one that zss_find finds.
LEMMA FindsLast ==
    ASSUME NEW l \in Seq(Record), NEW n, NEW i, LastAt(l, n, i)
    PROVE  FindIn(l, n) = l[i].x
<1> DEFINE mine == {k \in DOMAIN l : l[k].name = n}
<1>1. DOMAIN l = 1 .. Len(l) /\ Len(l) \in Nat
  OBVIOUS
<1>2. mine \subseteq Nat /\ mine # {} /\ i \in mine /\ \A k \in mine : k <= i
  BY <1>1 DEF LastAt
<1>3. i \in Nat
  BY <1>1 DEF LastAt
<1> HIDE DEF mine
<1>4. Max(mine) \in mine /\ \A k \in mine : k <= Max(mine)
  BY <1>2, <1>3, MaxIsGreatest
<1>5. Max(mine) = i
  <2>1. PICK g : g = Max(mine)
    OBVIOUS
  <2>2. g \in Nat /\ g <= i /\ i <= g
    BY <1>2, <1>3, <1>4, <2>1
  <2> QED
    BY <1>3, <2>1, <2>2
<1> QED
  BY <1>2, <1>5 DEF FindIn, mine

\* A name without a record is absent.
LEMMA FindsNone ==
    ASSUME NEW l \in Seq(Record), NEW n, \A i \in 1 .. Len(l) : l[i].name # n
    PROVE  FindIn(l, n) = Absent
  BY DEF FindIn

\* An empty log has no name.
LEMMA EmptyHasNone ==
    ASSUME log = <<>>, NEW n
    PROVE  zss_find(n) = Absent
  BY DEF zss_find

\* A name has no record or a last one.
LEMMA LastExists ==
    ASSUME NEW l \in Seq(Record), NEW n
    PROVE  \/ \A i \in 1 .. Len(l) : l[i].name # n
           \/ \E i \in 1 .. Len(l) : LastAt(l, n, i)
<1> DEFINE mine == {k \in 1 .. Len(l) : l[k].name = n}
<1>1. Len(l) \in Nat /\ mine \subseteq Nat /\ \A k \in mine : k <= Len(l)
  OBVIOUS
<1>2. CASE mine = {}
  BY <1>2
<1>3. CASE mine # {}
  <2> HIDE DEF mine
  <2>1. Max(mine) \in mine /\ \A k \in mine : k <= Max(mine)
    BY <1>1, <1>3, MaxIsGreatest
  <2>2. LastAt(l, n, Max(mine)) /\ Max(mine) \in 1 .. Len(l)
    BY <2>1 DEF mine, LastAt
  <2> QED
    BY <2>2
<1> QED
  BY <1>2, <1>3

\* A lookup yields a file, a tombstone or nothing.
LEMMA FindTyped ==
    ASSUME NEW l \in Seq(Record), NEW n
    PROVE  FindIn(l, n) \in Files \union {Deleted, Absent}
<1>1. CASE \A i \in 1 .. Len(l) : l[i].name # n
  BY <1>1, FindsNone
<1>2. ASSUME NEW i \in 1 .. Len(l), LastAt(l, n, i)
      PROVE  FindIn(l, n) \in Files \union {Deleted, Absent}
  <2>1. l[i] \in Record
    OBVIOUS
  <2> QED
    BY <1>2, <2>1, FindsLast DEF Record
<1> QED
  BY <1>1, <1>2, LastExists

\* An appended record counts for its name and changes no other.
LEMMA FindAppended ==
    ASSUME NEW l \in Seq(Record), NEW r \in Record, NEW n
    PROVE  FindIn(Append(l, r), n) = IF n = r.name THEN r.x ELSE FindIn(l, n)
<1> DEFINE k == Append(l, r)
<1>1. /\ k \in Seq(Record) /\ Len(k) = Len(l) + 1 /\ Len(l) \in Nat
      /\ k[Len(l) + 1] = r /\ \A i \in 1 .. Len(l) : k[i] = l[i]
  OBVIOUS
<1> HIDE DEF k
<1>2. CASE n = r.name
  <2>1. LastAt(k, n, Len(l) + 1)
    BY <1>1, <1>2 DEF LastAt
  <2>2. FindIn(k, n) = k[Len(l) + 1].x
    BY <1>1, <2>1, FindsLast
  <2> QED
    BY <1>1, <1>2, <2>2 DEF k
<1>3. CASE n # r.name
  <2>1. CASE \A i \in 1 .. Len(l) : l[i].name # n
    <3>1. \A i \in 1 .. Len(k) : k[i].name # n
      BY <1>1, <1>3, <2>1
    <3> QED
      BY <1>1, <1>3, <2>1, <3>1, FindsNone, ZenonT(60) DEF k
  <2>2. ASSUME NEW i \in 1 .. Len(l), LastAt(l, n, i)
        PROVE  FindIn(k, n) = FindIn(l, n)
    <3>1. LastAt(k, n, i)
      BY <1>1, <1>3, <2>2 DEF LastAt
    <3> QED
      BY <1>1, <2>2, <3>1, FindsLast
  <2> QED
    BY <1>3, <2>1, <2>2, LastExists DEF k
<1> QED
  BY <1>2, <1>3

\* A function on an initial interval is a sequence.
LEMMA FunctionIsSeq ==
    ASSUME NEW S, NEW m \in Nat, NEW k \in [1 .. m -> S]
    PROVE  k \in Seq(S) /\ Len(k) = m
<1>1. k \in Seq(S)
  BY SeqDef
<1>2. Len(k) \in Nat /\ 1 .. Len(k) = 1 .. m
  BY <1>1, LenProperties
<1> QED
  BY <1>1, <1>2

\* What a compaction keeps.
LatestIn(l) == {i \in DOMAIN l : \A j \in i + 1 .. Len(l) : l[j].name # l[i].name}

\* The last record of every name, in the order of the records, is the same
\* volume.
LEMMA FindKept ==
    ASSUME NEW l \in Seq(Record), NEW m \in 0 .. Len(l),
           NEW kept \in [1 .. m -> LatestIn(l)],
           \A a, b \in 1 .. m : a < b => kept[a] < kept[b],
           LatestIn(l) = {kept[a] : a \in 1 .. m},
           NEW k, k = [a \in 1 .. m |-> l[kept[a]]], NEW n
    PROVE  k \in Seq(Record) /\ FindIn(k, n) = FindIn(l, n)
<1>1. Len(l) \in Nat /\ DOMAIN l = 1 .. Len(l) /\ m \in Nat
  OBVIOUS
<1>2. \A a \in 1 .. m : kept[a] \in 1 .. Len(l) /\ kept[a] \in LatestIn(l)
  BY <1>1 DEF LatestIn
<1>3. k \in Seq(Record) /\ Len(k) = m /\ \A a \in 1 .. m : k[a] = l[kept[a]]
  <2>1. \A a \in 1 .. m : l[kept[a]] \in Record
    BY <1>2, ElementOfSeq
  <2>2. k \in [1 .. m -> Record]
    BY <2>1
  <2>3. k \in Seq(Record) /\ Len(k) = m
    BY <1>1, <2>2, FunctionIsSeq
  <2>4. \A a \in 1 .. m : k[a] = l[kept[a]]
    OBVIOUS
  <2> QED
    BY <2>3, <2>4
<1>4. CASE \A i \in 1 .. Len(l) : l[i].name # n
  <2>1. \A a \in 1 .. Len(k) : k[a].name # n
    BY <1>2, <1>3, <1>4
  <2> QED
    BY <1>3, <1>4, <2>1, FindsNone
<1>5. ASSUME NEW i \in 1 .. Len(l), LastAt(l, n, i)
      PROVE  FindIn(k, n) = FindIn(l, n)
  <2>1. i \in LatestIn(l)
    BY <1>1, <1>5 DEF LastAt, LatestIn
  <2>2. PICK a \in 1 .. m : kept[a] = i
    BY <2>1
  <2>3. \A b \in 1 .. m : k[b].name = n => b <= a
    <3> SUFFICES ASSUME NEW b \in 1 .. m, k[b].name = n, a < b
                 PROVE  FALSE
      BY <1>1, SMTT(60)
    <3>1. kept[b] <= i
      BY <1>2, <1>3, <1>5 DEF LastAt
    <3>2. i < kept[b]
      BY <2>2
    <3> QED
      BY <1>2, <3>1, <3>2
  <2>4. LastAt(k, n, a)
    BY <1>3, <1>5, <2>2, <2>3 DEF LastAt
  <2> QED
    BY <1>3, <1>5, <2>2, <2>4, FindsLast, SMTT(60)
<1> QED
  BY <1>3, <1>4, <1>5, LastExists

-----------------------------------------------------------------------------
(* The catalog and the file list.                                          *)

\* The greatest position of a name is that of its last record.
LEMMA MaxIsLast ==
    ASSUME NEW l \in Seq(Record), NEW n, NEW i, LastAt(l, n, i)
    PROVE  Max({k \in DOMAIN l : l[k].name = n}) = i
<1> DEFINE mine == {k \in DOMAIN l : l[k].name = n}
<1>1. DOMAIN l = 1 .. Len(l) /\ Len(l) \in Nat
  OBVIOUS
<1>2. mine \subseteq Nat /\ mine # {} /\ i \in mine /\ \A k \in mine : k <= i
  BY <1>1 DEF LastAt
<1>3. i \in Nat
  BY <1>1 DEF LastAt
<1> HIDE DEF mine
<1>4. Max(mine) \in mine /\ \A k \in mine : k <= Max(mine)
  BY <1>2, <1>3, MaxIsGreatest
<1>5. PICK g : g = Max(mine)
  OBVIOUS
<1>6. g \in Nat /\ g <= i /\ i <= g
  BY <1>2, <1>3, <1>4, <1>5
<1>7. Max(mine) = i
  BY <1>3, <1>5, <1>6
<1> QED
  BY <1>7 DEF mine

\* c has one entry for each name of l: its last record.
Describes(c, l) ==
    /\ c \in Seq(Record)
    /\ \A j, k \in DOMAIN c : c[j].name = c[k].name => j = k
    /\ \A k \in DOMAIN c : c[k].x = FindIn(l, c[k].name)
    /\ \A n \in Names :
           (\A k \in DOMAIN c : c[k].name # n) => FindIn(l, n) = Absent

\* A log that is read to its end yields such a catalog.
LEMMA CatalogDescribes ==
    ASSUME NEW l \in Seq(Record)
    PROVE  Describes(CatalogOf(l), l)
<1> DEFINE N == 1 .. Len(l)
           ix == [i \in DOMAIN l |-> i]
           S == {i \in DOMAIN l : FirstOf(l, i)}
           z == Only(ix, S)
           Mine(n) == {i \in DOMAIN l : l[i].name = n}
           c == [k \in DOMAIN z |-> l[Max(Mine(l[z[k]].name))]]
<1>1. DOMAIN l = N /\ Len(l) \in Nat /\ N \subseteq Nat
  OBVIOUS
<1>2. CatalogOf(l) = c
  BY DEF CatalogOf
<1>3. ix \in Seq(N) /\ DOMAIN ix = N
  <2>1. ix \in [1 .. Len(l) -> N]
    BY <1>1
  <2> QED
    BY <1>1, <2>1, FunctionIsSeq
<1>4. \A i \in N : ix[i] = i
  BY <1>1
<1>5. S \subseteq N
  BY <1>1
<1> HIDE DEF ix, S
<1>6. z \in Seq(N) /\ \E h : Picks(h, z, ix, S)
  BY <1>3, OnlyPicks
<1>7. PICK h : Picks(h, z, ix, S)
  BY <1>6
<1> HIDE DEF z
<1>8. /\ DOMAIN z = 1 .. Len(z) /\ Len(z) \in Nat
      /\ \A k \in DOMAIN z : z[k] \in N /\ z[k] = h[k] /\ z[k] \in S
      /\ \A j, k \in DOMAIN z : j < k => z[j] < z[k]
      /\ \A i \in S : \E k \in DOMAIN z : z[k] = i
  <2>1. DOMAIN z = 1 .. Len(z) /\ Len(z) \in Nat
    BY <1>6
  <2>2. ASSUME NEW k \in DOMAIN z
        PROVE  z[k] \in N /\ z[k] = h[k] /\ z[k] \in S
    <3>1. h[k] \in N /\ z[k] = ix[h[k]] /\ z[k] \in S
      BY <1>3, <1>7 DEF Picks
    <3> QED
      BY <1>4, <3>1
  <2>3. \A j, k \in DOMAIN z : j < k => z[j] < z[k]
    BY <1>7, <2>2 DEF Picks
  <2>4. ASSUME NEW i \in S PROVE \E k \in DOMAIN z : z[k] = i
    <3>1. i \in DOMAIN ix /\ ix[i] \in S
      BY <1>3, <1>4, <1>5
    <3>2. PICK k \in DOMAIN z : h[k] = i
      BY <1>7, <3>1 DEF Picks
    <3> QED
      BY <2>2, <3>2
  <2> QED
    BY <2>1, <2>2, <2>3, <2>4
<1>9. ASSUME NEW k \in DOMAIN z
      PROVE  /\ c[k] \in Record /\ c[k].name = l[z[k]].name
             /\ c[k].x = FindIn(l, c[k].name)
  <2>1. PICK n : n = l[z[k]].name
    OBVIOUS
  <2>2. z[k] \in 1 .. Len(l) /\ l[z[k]].name = n
    BY <1>8, <2>1
  <2>3. PICK g \in 1 .. Len(l) : LastAt(l, n, g)
    BY <2>2, LastExists
  <2>4. Max(Mine(n)) = g
    BY <2>3, MaxIsLast
  <2>5. c[k] = l[g]
    BY <2>1, <2>4
  <2>6. l[g] \in Record /\ l[g].name = n /\ l[g].x = FindIn(l, n)
    BY <2>3, FindsLast DEF LastAt
  <2> QED
    BY <2>1, <2>5, <2>6
<1>10. DOMAIN c = DOMAIN z
  OBVIOUS
<1> HIDE DEF c
<1>11. c \in Seq(Record)
  <2>1. c \in [1 .. Len(z) -> Record]
    <3>1. c = [k \in 1 .. Len(z) |-> c[k]]
      BY <1>8 DEF c
    <3> QED
      BY <1>8, <1>9, <3>1
  <2> QED
    BY <1>8, <2>1, FunctionIsSeq
<1>12. ASSUME NEW j \in DOMAIN z, NEW k \in DOMAIN z, c[j].name = c[k].name
       PROVE  j = k
  <2>1. l[z[j]].name = l[z[k]].name
    BY <1>9, <1>12
  <2>2. /\ z[j] \in N /\ z[k] \in N
        /\ FirstOf(l, z[j]) /\ FirstOf(l, z[k])
    BY <1>8 DEF S
  <2>3. ~(z[j] < z[k]) /\ ~(z[k] < z[j])
    BY <1>1, <2>1, <2>2 DEF FirstOf
  <2>4. j \in Nat /\ k \in Nat
    BY <1>8
  <2>5. ~(j < k) /\ ~(k < j)
    BY <1>8, <2>3
  <2> QED
    BY <2>4, <2>5
<1>13. ASSUME NEW n \in Names, \A k \in DOMAIN c : c[k].name # n
       PROVE  FindIn(l, n) = Absent
  <2>1. ASSUME NEW i \in N, l[i].name = n PROVE FALSE
    <3> DEFINE T == {q \in N : l[q].name = n}
    <3>1. T \subseteq Nat /\ T # {}
      BY <1>1, <2>1
    <3>2. PICK q \in T : \A y \in T : q <= y
      <4> HIDE DEF T
      <4> QED
        BY <3>1, LeastNumber
    <3>3. q \in N /\ l[q].name = n
      OBVIOUS
    <3>4. FirstOf(l, q)
      <4> SUFFICES ASSUME NEW j \in 1 .. q - 1, l[j].name = l[q].name
                   PROVE  FALSE
        BY DEF FirstOf
      <4>1. j \in T
        BY <1>1, <3>3
      <4>2. q <= j /\ q \in Nat
        BY <1>1, <3>2, <3>3, <4>1
      <4> QED
        BY <4>2
    <3>5. q \in S
      BY <1>1, <3>3, <3>4 DEF S
    <3>6. PICK k \in DOMAIN z : z[k] = q
      BY <1>8, <3>5
    <3> QED
      BY <1>9, <1>10, <1>13, <3>3, <3>6
  <2> QED
    BY <2>1, FindsNone
<1> QED
  BY <1>2, <1>9, <1>10, <1>11, <1>12, <1>13 DEF Describes

\* A catalog depends only on what is found.
LEMMA DescribesFound ==
    ASSUME NEW c, NEW l, NEW m, Describes(c, l),
           \A n : FindIn(m, n) = FindIn(l, n)
    PROVE  Describes(c, m)
  BY DEF Describes

\* An empty catalog describes an empty log.
LEMMA DescribesNothing ==
    Describes(<<>>, <<>>)
<1>1. \A n : FindIn(<<>>, n) = Absent
  BY DEF FindIn
<1> QED
  BY <1>1 DEF Describes

\* The archive's order has each of its files once.
LEMMA ArchiveOnce ==
    /\ ArchiveOrder \in Seq({n \in Names : Bundled[n] # Absent})
    /\ \A i, j \in DOMAIN ArchiveOrder : ArchiveOrder[i] = ArchiveOrder[j] => i = j
    /\ \A n \in Names :
           Bundled[n] # Absent => \E i \in DOMAIN ArchiveOrder : ArchiveOrder[i] = n
<1> DEFINE S == {n \in Names : Bundled[n] # Absent}
           a == SetToSeq(S)
           m == Cardinality(S)
<1>1. IsFiniteSet(S) /\ ArchiveOrder = a
  BY FilesAssumption DEF ArchiveOrder
<1> HIDE DEF S
<1>2. m \in Nat /\ ExistsBijection(1 .. m, S)
  BY <1>1, FS_CardinalityType
<1>3. \E f \in [1 .. m -> S] : IsInjective(f)
  BY <1>2 DEF ExistsBijection, Bijection, Injection
<1>4. a \in [1 .. m -> S] /\ IsInjective(a)
  BY <1>3 DEF SetToSeq
<1> HIDE DEF a
<1>5. a \in Injection(1 .. m, S)
  BY <1>4 DEF Injection
<1>6. Cardinality(1 .. m) = m
  BY <1>2, FS_Interval
<1>7. a \in Surjection(1 .. m, S)
  BY <1>1, <1>5, <1>6, FS_Injection
<1> HIDE DEF m
<1>8. a \in Seq(S) /\ DOMAIN a = 1 .. m
  BY <1>2, <1>4, FunctionIsSeq
<1>9. \A i, j \in DOMAIN a : a[i] = a[j] => i = j
  BY <1>4 DEF IsInjective
<1>10. \A n \in S : \E i \in DOMAIN a : a[i] = n
  BY <1>7, <1>8 DEF Surjection
<1> QED
  BY <1>1, <1>8, <1>9, <1>10 DEF S

\* Where the elements of two lists are when one follows the other.
LEMMA Joined ==
    ASSUME NEW S, NEW s \in Seq(S), NEW t \in Seq(S), NEW l, l = s \o t
    PROVE  /\ l \in Seq(S) /\ Len(l) = Len(s) + Len(t)
           /\ \A i \in 1 .. Len(s) + Len(t) :
                  l[i] = IF i <= Len(s) THEN s[i] ELSE t[i - Len(s)]
  BY ConcatProperties

\* What is listed of a name: the record of the catalog, or the archive's file
\* when the catalog has none.
Listed(c, n, e) ==
    \/ \E k \in DOMAIN c : /\ c[k].name = n /\ c[k].x # Deleted
                           /\ e = [name |-> n, size |-> Len(c[k].x)]
    \/ /\ \A k \in DOMAIN c : c[k].name # n
       /\ Bundled[n] # Absent
       /\ e = [name |-> n, size |-> Len(Bundled[n])]

\* source_list_cache_build puts down each name once, and just these.
LEMMA ListLists ==
    ASSUME NEW c \in Seq(Record),
           \A j, k \in DOMAIN c : c[j].name = c[k].name => j = k
    PROVE  /\ \A i, j \in DOMAIN ListOf(c) :
                  ListOf(c)[i].name = ListOf(c)[j].name => i = j
           /\ \A e : e \in ToSet(ListOf(c)) <=> \E n \in Names : Listed(c, n, e)
<1> DEFINE Over(n) == {r \in ToSet(c) : r.name = n}
           Hidden(n) == \E r \in Over(n) : r.x = Deleted
           Entry(n) == [name |-> n,
                        size |-> IF Over(n) = {} THEN Len(Bundled[n])
                                 ELSE Len((CHOOSE r \in Over(n) : TRUE).x)]
           P == {n \in Names : ~Hidden(n)}
           Q == {r \in ToSet(c) : r.x # Deleted /\ Bundled[r.name] = Absent}
           archive == Only(ArchiveOrder, P)
           added == Only(c, Q)
           A == [i \in DOMAIN archive |-> Entry(archive[i])]
           B == [i \in DOMAIN added |-> Entry(added[i].name)]
           B0 == {n \in Names : Bundled[n] # Absent}
           E == {Entry(n) : n \in Names}
<1>1. ListOf(c) = A \o B
  BY DEF ListOf
<1>2. \A k \in DOMAIN c : c[k] \in Record /\ c[k].name \in Names
  <2> SUFFICES ASSUME NEW k \in DOMAIN c
               PROVE  c[k] \in Record /\ c[k].name \in Names
    OBVIOUS
  <2>1. k \in 1 .. Len(c)
    OBVIOUS
  <2>2. c[k] \in Record
    BY <2>1, ElementOfSeq
  <2> QED
    BY <2>2 DEF Record
<1>3. ToSet(c) = {c[k] : k \in DOMAIN c}
  BY DEF ToSet
<1>4. ASSUME NEW k \in DOMAIN c
      PROVE  /\ Over(c[k].name) = {c[k]}
             /\ Entry(c[k].name) = [name |-> c[k].name, size |-> Len(c[k].x)]
             /\ Hidden(c[k].name) <=> c[k].x = Deleted
  <2>1. Over(c[k].name) = {c[k]}
    BY <1>3
  <2>2. (CHOOSE r \in {c[k]} : TRUE) = c[k]
    OBVIOUS
  <2> HIDE DEF Over
  <2> QED
    BY <2>1, <2>2
<1>5. ASSUME NEW n \in Names, \A k \in DOMAIN c : c[k].name # n
      PROVE  /\ Entry(n) = [name |-> n, size |-> Len(Bundled[n])]
             /\ ~Hidden(n)
  <2>1. Over(n) = {}
    BY <1>3, <1>5
  <2> HIDE DEF Over
  <2> QED
    BY <2>1
<1>6. \A n : Entry(n).name = n
  OBVIOUS
<1>7. /\ archive \in Seq(B0)
      /\ \E h : Picks(h, archive, ArchiveOrder, P)
  BY ArchiveOnce, OnlyPicks
<1>8. added \in Seq(Record) /\ \E h : Picks(h, added, c, Q)
  BY OnlyPicks
<1>9. \A n \in Names : n \in P <=> ~Hidden(n)
  OBVIOUS
<1>10. \A r : r \in Q <=> /\ \E k \in DOMAIN c : r = c[k]
                          /\ r.x # Deleted /\ Bundled[r.name] = Absent
  BY <1>3
<1>11. \A n : n \in B0 <=> n \in Names /\ Bundled[n] # Absent
  OBVIOUS
<1> HIDE DEF Over, Hidden, P, Q, archive, added, Entry, B0
<1>12. /\ \A i, j \in DOMAIN archive : archive[i] = archive[j] => i = j
       /\ \A i \in DOMAIN archive :
              /\ archive[i] \in Names /\ Bundled[archive[i]] # Absent
              /\ ~Hidden(archive[i])
       /\ \A n \in Names : Bundled[n] # Absent /\ ~Hidden(n) =>
              \E i \in DOMAIN archive : archive[i] = n
  <2>1. PICK h : Picks(h, archive, ArchiveOrder, P)
    BY <1>7
  <2>0. DOMAIN archive \subseteq Nat
    BY <1>7
  <2>2. ASSUME NEW i \in DOMAIN archive, NEW j \in DOMAIN archive,
               archive[i] = archive[j]
        PROVE  i = j
    <3>1. h[i] \in DOMAIN ArchiveOrder /\ h[j] \in DOMAIN ArchiveOrder
      BY <2>1 DEF Picks
    <3>2. ArchiveOrder[h[i]] = ArchiveOrder[h[j]]
      BY <2>1, <2>2 DEF Picks
    <3>3. h[i] = h[j]
      BY <3>1, <3>2, ArchiveOnce
    <3>4. DOMAIN ArchiveOrder \subseteq Nat
      BY ArchiveOnce
    <3>5. ~(i < j) /\ ~(j < i)
      BY <2>1, <3>1, <3>3, <3>4 DEF Picks
    <3>6. i \in Nat /\ j \in Nat
      BY <2>0
    <3> QED
      BY <3>5, <3>6
  <2>3. ASSUME NEW i \in DOMAIN archive
        PROVE  /\ archive[i] \in Names /\ Bundled[archive[i]] # Absent
               /\ ~Hidden(archive[i])
    <3>1. archive[i] \in B0 /\ archive[i] \in P
      BY <1>7, <2>1 DEF Picks
    <3> QED
      BY <1>9, <1>11, <3>1
  <2>4. ASSUME NEW n \in Names, Bundled[n] # Absent, ~Hidden(n)
        PROVE  \E i \in DOMAIN archive : archive[i] = n
    <3>1. PICK q \in DOMAIN ArchiveOrder : ArchiveOrder[q] = n
      BY <2>4, ArchiveOnce
    <3>2. ArchiveOrder[q] \in P
      BY <1>9, <2>4, <3>1
    <3>3. PICK k \in DOMAIN archive : h[k] = q
      BY <2>1, <3>2 DEF Picks
    <3>4. archive[k] = n
      BY <2>1, <3>1, <3>3 DEF Picks
    <3> QED
      BY <3>4
  <2> QED
    BY <2>2, <2>3, <2>4
<1>13. /\ \A i, j \in DOMAIN added : added[i].name = added[j].name => i = j
       /\ \A i \in DOMAIN added : \E k \in DOMAIN c :
              added[i] = c[k] /\ c[k].x # Deleted /\ Bundled[c[k].name] = Absent
       /\ \A k \in DOMAIN c : c[k].x # Deleted /\ Bundled[c[k].name] = Absent =>
              \E i \in DOMAIN added : added[i] = c[k]
  <2>1. PICK h : Picks(h, added, c, Q)
    BY <1>8
  <2>0. DOMAIN added \subseteq Nat /\ DOMAIN c \subseteq Nat
    BY <1>8
  <2>2. ASSUME NEW i \in DOMAIN added, NEW j \in DOMAIN added,
               added[i].name = added[j].name
        PROVE  i = j
    <3>1. h[i] \in DOMAIN c /\ h[j] \in DOMAIN c
      BY <2>1 DEF Picks
    <3>2. c[h[i]].name = c[h[j]].name
      BY <2>1, <2>2 DEF Picks
    <3>3. h[i] = h[j]
      BY <3>1, <3>2
    <3>5. ~(i < j) /\ ~(j < i)
      BY <2>0, <2>1, <3>1, <3>3 DEF Picks
    <3>6. i \in Nat /\ j \in Nat
      BY <2>0
    <3> QED
      BY <3>5, <3>6
  <2>3. ASSUME NEW i \in DOMAIN added
        PROVE  \E k \in DOMAIN c :
              added[i] = c[k] /\ c[k].x # Deleted /\ Bundled[c[k].name] = Absent
    <3>1. added[i] \in Q
      BY <2>1 DEF Picks
    <3> QED
      BY <1>10, <3>1
  <2>4. ASSUME NEW k \in DOMAIN c, c[k].x # Deleted, Bundled[c[k].name] = Absent
        PROVE  \E i \in DOMAIN added : added[i] = c[k]
    <3>1. c[k] \in Q
      BY <1>10, <2>4
    <3>2. PICK i \in DOMAIN added : h[i] = k
      BY <2>1, <3>1 DEF Picks
    <3>3. added[i] = c[k]
      BY <2>1, <3>2 DEF Picks
    <3> QED
      BY <3>3
  <2> QED
    BY <2>2, <2>3, <2>4
<1>14. A \in Seq(E) /\ B \in Seq(E) /\ DOMAIN A = DOMAIN archive
       /\ DOMAIN B = DOMAIN added /\ Len(A) = Len(archive) /\ Len(B) = Len(added)
  <2>1. /\ Len(archive) \in Nat /\ DOMAIN archive = 1 .. Len(archive)
        /\ Len(added) \in Nat /\ DOMAIN added = 1 .. Len(added)
    BY <1>7, <1>8
  <2>2. A \in [1 .. Len(archive) -> E]
    BY <1>12, <2>1
  <2>3. \A i \in DOMAIN added : added[i].name \in Names
    BY <1>2, <1>13
  <2>4. B \in [1 .. Len(added) -> E]
    BY <2>1, <2>3
  <2> QED
    BY <2>1, <2>2, <2>4, FunctionIsSeq
<1>15. /\ \A i \in DOMAIN archive : A[i] = Entry(archive[i])
       /\ \A i \in DOMAIN added : B[i] = Entry(added[i].name)
  OBVIOUS
<1> HIDE DEF A, B, E
<1> DEFINE L == A \o B
<1>16. /\ L \in Seq(E) /\ Len(L) = Len(A) + Len(B)
       /\ Len(A) \in Nat /\ Len(B) \in Nat
       /\ DOMAIN A = 1 .. Len(A) /\ DOMAIN B = 1 .. Len(B)
       /\ DOMAIN L = 1 .. Len(A) + Len(B)
       /\ \A i \in 1 .. Len(A) + Len(B) :
              L[i] = IF i <= Len(A) THEN A[i] ELSE B[i - Len(A)]
  <2>1. /\ Len(A) \in Nat /\ DOMAIN A = 1 .. Len(A)
        /\ Len(B) \in Nat /\ DOMAIN B = 1 .. Len(B)
    BY <1>14, LenProperties
  <2>2. /\ L \in Seq(E) /\ Len(L) = Len(A) + Len(B)
        /\ \A i \in 1 .. Len(A) + Len(B) :
               L[i] = IF i <= Len(A) THEN A[i] ELSE B[i - Len(A)]
    <3>1. A \in Seq(E) /\ B \in Seq(E) /\ L = A \o B
      BY <1>14
    <3> HIDE DEF L
    <3> QED
      BY <3>1, Joined
  <2> HIDE DEF L
  <2>3. DOMAIN L = 1 .. Len(A) + Len(B)
    BY <2>2, LenProperties
  <2> QED
    BY <2>1, <2>2, <2>3
<1> HIDE DEF L
<1>17. ASSUME NEW i \in DOMAIN L
       PROVE  \/ i \in DOMAIN archive /\ L[i] = Entry(archive[i])
              \/ /\ i - Len(A) \in DOMAIN added
                 /\ L[i] = Entry(added[i - Len(A)].name)
                 /\ i > Len(A)
  BY <1>14, <1>15, <1>16
<1>18. ASSUME NEW i \in DOMAIN L, NEW j \in DOMAIN L, L[i].name = L[j].name
       PROVE  i = j
  <2>1. ASSUME NEW p \in DOMAIN archive, NEW q \in DOMAIN added
        PROVE  archive[p] # added[q].name
    BY <1>12, <1>13
  <2>2. i \in Int /\ j \in Int /\ Len(A) \in Int
    BY <1>16
  <2>3. CASE i \in DOMAIN archive /\ L[i] = Entry(archive[i])
    <3>1. L[i].name = archive[i]
      BY <1>6, <2>3
    <3>2. CASE j \in DOMAIN archive /\ L[j] = Entry(archive[j])
      BY <1>6, <1>12, <1>18, <2>3, <3>1, <3>2
    <3>3. CASE /\ j - Len(A) \in DOMAIN added
               /\ L[j] = Entry(added[j - Len(A)].name)
      BY <1>6, <1>18, <2>1, <2>3, <3>1, <3>3
    <3> QED
      BY <1>17, <3>2, <3>3
  <2>4. CASE /\ i - Len(A) \in DOMAIN added
             /\ L[i] = Entry(added[i - Len(A)].name)
    <3>1. L[i].name = added[i - Len(A)].name
      BY <1>6, <2>4
    <3>2. CASE j \in DOMAIN archive /\ L[j] = Entry(archive[j])
      BY <1>6, <1>18, <2>1, <2>4, <3>1, <3>2
    <3>3. CASE /\ j - Len(A) \in DOMAIN added
               /\ L[j] = Entry(added[j - Len(A)].name)
      <4>1. i - Len(A) = j - Len(A)
        BY <1>6, <1>13, <1>18, <2>4, <3>1, <3>3
      <4> QED
        BY <2>2, <4>1
    <3> QED
      BY <1>17, <3>2, <3>3
  <2> QED
    BY <1>17, <2>3, <2>4
<1>19. ASSUME NEW e, e \in ToSet(L)
       PROVE  \E n \in Names : Listed(c, n, e)
  <2>1. PICK i \in DOMAIN L : e = L[i]
    BY <1>19 DEF ToSet
  <2>2. CASE i \in DOMAIN archive /\ L[i] = Entry(archive[i])
    <3>1. PICK n \in Names : n = archive[i] /\ Bundled[n] # Absent /\ ~Hidden(n)
      BY <1>12, <2>2
    <3>2. CASE \A k \in DOMAIN c : c[k].name # n
      BY <1>5, <2>1, <2>2, <3>1, <3>2 DEF Listed
    <3>3. ASSUME NEW k \in DOMAIN c, c[k].name = n PROVE Listed(c, n, e)
      <4>1. c[k].x # Deleted /\ e = [name |-> n, size |-> Len(c[k].x)]
        BY <1>4, <2>1, <2>2, <3>1, <3>3
      <4> QED
        BY <3>3, <4>1 DEF Listed
    <3> QED
      BY <3>2, <3>3
  <2>3. CASE /\ i - Len(A) \in DOMAIN added
             /\ L[i] = Entry(added[i - Len(A)].name)
    <3>1. PICK k \in DOMAIN c : /\ added[i - Len(A)] = c[k]
                                /\ c[k].x # Deleted
      BY <1>13, <2>3
    <3>2. Listed(c, c[k].name, e)
      BY <1>4, <2>1, <2>3, <3>1 DEF Listed
    <3> QED
      BY <1>2, <3>2
  <2> QED
    BY <1>17, <2>2, <2>3
<1>20. ASSUME NEW e, NEW n \in Names, Listed(c, n, e)
       PROVE  e \in ToSet(L)
  <2>0. \A i \in DOMAIN archive : Entry(archive[i]) \in ToSet(L)
    <3> SUFFICES ASSUME NEW i \in DOMAIN archive
                 PROVE  Entry(archive[i]) \in ToSet(L)
      OBVIOUS
    <3>1. i \in DOMAIN L /\ L[i] = A[i]
      BY <1>14, <1>16
    <3> QED
      BY <1>15, <3>1 DEF ToSet
  <2>00. \A i \in DOMAIN added : Entry(added[i].name) \in ToSet(L)
    <3> SUFFICES ASSUME NEW i \in DOMAIN added
                 PROVE  Entry(added[i].name) \in ToSet(L)
      OBVIOUS
    <3>1. i + Len(A) \in DOMAIN L /\ i + Len(A) > Len(A) /\ i + Len(A) - Len(A) = i
      BY <1>14, <1>16
    <3>2. L[i + Len(A)] = B[i]
      <4>1. PICK q : q = i + Len(A)
        OBVIOUS
      <4>2. q \in 1 .. Len(A) + Len(B) /\ ~(q <= Len(A)) /\ q - Len(A) = i
        BY <1>14, <1>16, <3>1, <4>1
      <4>3. L[q] = B[q - Len(A)]
        BY <1>16, <4>2
      <4> QED
        BY <4>1, <4>2, <4>3
    <3> QED
      BY <1>15, <3>1, <3>2 DEF ToSet
  <2>1. ASSUME NEW k \in DOMAIN c, c[k].name = n, c[k].x # Deleted,
               e = [name |-> n, size |-> Len(c[k].x)]
        PROVE  e \in ToSet(L)
    <3>1. e = Entry(n) /\ ~Hidden(n)
      BY <1>4, <2>1
    <3>2. CASE Bundled[n] = Absent
      <4>1. PICK i \in DOMAIN added : added[i] = c[k]
        BY <1>13, <2>1, <3>2
      <4> QED
        BY <2>00, <2>1, <3>1, <4>1
    <3>3. CASE Bundled[n] # Absent
      <4>1. PICK i \in DOMAIN archive : archive[i] = n
        BY <1>12, <3>1, <3>3
      <4> QED
        BY <2>0, <3>1, <4>1
    <3> QED
      BY <3>2, <3>3
  <2>2. ASSUME \A k \in DOMAIN c : c[k].name # n, Bundled[n] # Absent,
               e = [name |-> n, size |-> Len(Bundled[n])]
        PROVE  e \in ToSet(L)
    <3>1. e = Entry(n) /\ ~Hidden(n)
      BY <1>5, <2>2
    <3>2. PICK i \in DOMAIN archive : archive[i] = n
      BY <1>12, <2>2, <3>1
    <3> QED
      BY <2>0, <3>1, <3>2
  <2> QED
    BY <1>20, <2>1, <2>2 DEF Listed
<1> QED
  BY <1>1, <1>18, <1>19, <1>20 DEF L

-----------------------------------------------------------------------------
(* The steps. What is appended is the last answer or not promised.         *)

Promises == \A n \in Names : Promised(n)

\* zss_find looks at the log only.
LEMMA FindIsFindIn ==
    ASSUME NEW n
    PROVE  zss_find(n) = FindIn(log, n) /\ zss_find(n)' = FindIn(log', n)
  BY DEF zss_find, FindIn

\* A step that leaves the partition, the legacy root and the answers alone.
LEMMA Untouched ==
    ASSUME FilesTyped, Promises, faults' \in Nat,
           UNCHANGED <<part, log, legacy, acked>>
    PROVE  FilesTyped' /\ Promises'
<1>1. FilesTyped'
  BY DEF FilesTyped
<1>2. ASSUME NEW n \in Names PROVE Promised(n)'
  BY FindIsFindIn DEF Promises, Promised, legacy_of
<1> QED
  BY <1>1, <1>2 DEF Promises

\* zss_put, zss_delete and zss_stream_finish.
LEMMA AppendKeeps ==
    ASSUME FilesTyped, Promises, part, NEW n \in Names,
           NEW x \in Files \union {Deleted}, NEW ending \in Endings,
           append(n, x, ending), UNCHANGED <<part, legacy>>
    PROVE  FilesTyped' /\ Promises'
<1> DEFINE r == [name |-> n, x |-> x]
<1>1. r \in Record /\ r.name = n /\ r.x = x
  BY DEF Record
<1> HIDE DEF r
<1>2. log' = log \/ log' = Append(log, r)
  BY DEF append, r
<1>3. log' \in Seq(Record)
  BY <1>1, <1>2, AppendProperties DEF FilesTyped
<1>4. faults' \in Nat
  BY DEF append, FilesTyped, FaultsOf
<1>5. PICK a \in Files \union {Absent, Deleted, Unknown} :
          /\ acked' = [acked EXCEPT ![n] = a]
          /\ \/ ending = "saved" /\ a = x
             \/ ending = "failed" /\ a = acked[n]
             \/ ending \in {"unflushed", "landed"} /\ a = Unknown
  BY DEF append, Endings, FilesTyped
<1>6. FilesTyped'
  BY <1>3, <1>4, <1>5 DEF FilesTyped
<1>7. ASSUME NEW m \in Names PROVE Promised(m)'
  <2>1. legacy_of(m)' = legacy_of(m) /\ part'
    BY DEF legacy_of
  <2>2. CASE ending = "failed"
    <3>1. log' = log /\ acked' = acked
      BY <1>5, <2>2 DEF append, FilesTyped
    <3> QED
      BY <2>1, <3>1, FindIsFindIn DEF Promises, Promised
  <2>3. CASE ending # "failed"
    <3>1. log' = Append(log, r)
      BY <2>3 DEF append, r
    <3>2. zss_find(m)' = IF m = n THEN x ELSE zss_find(m)
      BY <1>1, <3>1, FindIsFindIn, FindAppended DEF FilesTyped
    <3>3. CASE m = n
      <4>1. acked'[m] = a /\ (a = x \/ a = Unknown)
        BY <1>5, <2>3, <3>3 DEF FilesTyped
      <4> QED
        BY <2>1, <3>2, <3>3, <4>1, FilesAssumption DEF Promised
    <3>4. CASE m # n
      <4>1. acked'[m] = acked[m]
        BY <1>5, <3>4 DEF FilesTyped
      <4> QED
        BY <2>1, <3>2, <3>4, <4>1 DEF Promises, Promised
    <3> QED
      BY <3>3, <3>4
  <2> QED
    BY <2>2, <2>3
<1> QED
  BY <1>6, <1>7 DEF Promises

\* zc_write_source into the legacy root.
LEMMA LegacyKeeps ==
    ASSUME FilesTyped, Promises, NEW n \in Names, NEW f \in Files,
           FileWriteLegacy(n, f)
    PROVE  FilesTyped' /\ Promises'
<1>1. n \in RootNames /\ RootNames \subseteq Names
  BY FilesAssumption DEF FileWriteLegacy
<1>2. PICK a \in {f, Unknown} :
          /\ acked' = [acked EXCEPT ![n] = a]
          /\ a = f => ~part \/ zss_find(n) = Absent
  BY FilesAssumption DEF FileWriteLegacy
<1>3. /\ legacy' = [legacy EXCEPT ![n] = f] /\ faults' \in Nat
      /\ UNCHANGED <<part, log>>
  BY DEF FileWriteLegacy, FilesTyped
<1>4. FilesTyped'
  BY <1>1, <1>2, <1>3 DEF FilesTyped
<1>5. ASSUME NEW m \in Names PROVE Promised(m)'
  <2>1. zss_find(m)' = zss_find(m)
    BY <1>3, FindIsFindIn
  <2>2. CASE m = n
    <3>1. legacy_of(m)' = f /\ acked'[m] = a
      BY <1>1, <1>2, <1>3, <2>2 DEF legacy_of, FilesTyped
    <3>2. ~part => log' = <<>>
      BY <1>3 DEF Promises, Promised
    <3> QED
      BY <1>2, <1>3, <2>1, <2>2, <3>1, <3>2, FilesAssumption DEF Promised
  <2>3. CASE m # n
    <3>1. legacy_of(m)' = legacy_of(m) /\ acked'[m] = acked[m]
      BY <1>1, <1>2, <1>3, <2>3 DEF legacy_of, FilesTyped
    <3> QED
      BY <1>3, <2>1, <3>1 DEF Promises, Promised
  <2> QED
    BY <2>2, <2>3
<1> QED
  BY <1>4, <1>5 DEF Promises

\* zgc: what is compacted away is found by nobody.
LEMMA ZgcFinds ==
    ASSUME FilesTyped, Zgc
    PROVE  /\ log' \in Seq(Record)
           /\ \A n : FindIn(log', n) = FindIn(log, n)
<1>1. PICK m \in 0 .. Len(log) : \E kept \in [1 .. m -> LatestIn(log)] :
          /\ \A k, l \in 1 .. m : k < l => kept[k] < kept[l]
          /\ LatestIn(log) = {kept[k] : k \in 1 .. m}
          /\ log' = [k \in 1 .. m |-> log[kept[k]]]
  BY DEF Zgc, LatestIn
<1>2. PICK kept \in [1 .. m -> LatestIn(log)] :
          /\ \A k, l \in 1 .. m : k < l => kept[k] < kept[l]
          /\ LatestIn(log) = {kept[k] : k \in 1 .. m}
          /\ log' = [k \in 1 .. m |-> log[kept[k]]]
  BY <1>1
<1>3. log \in Seq(Record) /\ part /\ UNCHANGED <<part, legacy, faults, acked>>
  BY DEF Zgc, FilesTyped
<1>4. \A n : log' \in Seq(Record) /\ FindIn(log', n) = FindIn(log, n)
  <2> SUFFICES ASSUME NEW n
               PROVE  log' \in Seq(Record) /\ FindIn(log', n) = FindIn(log, n)
    OBVIOUS
  <2>1. PICK k : k = log'
    OBVIOUS
  <2>2. k = [i \in 1 .. m |-> log[kept[i]]]
    BY <1>2, <2>1
  <2>3. k \in Seq(Record) /\ FindIn(k, n) = FindIn(log, n)
    BY <1>2, <1>3, <2>2, FindKept, ZenonT(60)
  <2> QED
    BY <2>1, <2>3
<1> QED
  BY <1>4

\* zgc keeps every answer.
LEMMA ZgcKeeps ==
    ASSUME FilesTyped, Promises, Zgc
    PROVE  FilesTyped' /\ Promises'
<1>3. log \in Seq(Record) /\ part /\ UNCHANGED <<part, legacy, faults, acked>>
  BY DEF Zgc, FilesTyped
<1>4. log' \in Seq(Record) /\ \A n : FindIn(log', n) = FindIn(log, n)
  BY ZgcFinds
<1>5. FilesTyped'
  BY <1>3, <1>4 DEF FilesTyped
<1>6. ASSUME NEW n \in Names PROVE Promised(n)'
  <2>1. zss_find(n)' = zss_find(n) /\ legacy_of(n)' = legacy_of(n)
    BY <1>3, <1>4, FindIsFindIn DEF legacy_of
  <2> QED
    BY <1>3, <2>1 DEF Promises, Promised
<1> QED
  BY <1>5, <1>6 DEF Promises

-----------------------------------------------------------------------------
(* The calls of the tasks and the commands of the shell.                   *)

Opened == [active : BOOLEAN, name : Names, dirty : BOOLEAN,
           existed : BOOLEAN, text : Files \union {<<>>}]

\* The line editor saves what it holds, and holds what it found.
LEMMA EditorKeeps ==
    ASSUME FilesTyped, EditTyped, Promises,
           \/ \E n \in Names : zedit_start(n)
           \/ zedit_change
           \/ \E b \in BOOLEAN : zedit_save(b) \/ zedit_quit(b)
    PROVE  FilesTyped' /\ EditTyped' /\ Promises'
<1>1. ASSUME NEW n \in Names, zedit_start(n)
      PROVE  FilesTyped' /\ EditTyped' /\ Promises'
  <2> DEFINE Opens(t, b) == [active |-> TRUE, name |-> n, dirty |-> FALSE,
                              text |-> t, existed |-> b]
  <2>1. \E t \in Files \union {<<>>} : \E b \in BOOLEAN : edit' = Opens(t, b)
    <3>1. CASE zss_find(n) \in Files
      <4>1. edit' = Opens(zss_find(n), TRUE)
        BY <1>1, <3>1 DEF zedit_start
      <4> QED
        BY <3>1, <4>1
    <3>2. CASE zss_find(n) \notin Files
      <4>0. (zss_find(n) \in Files) = FALSE
        BY <3>2
      <4>1. edit' = Opens(<<>>, FALSE)
        BY <1>1, <3>2, <4>0, Zenon DEF zedit_start
      <4> QED
        BY <4>1
    <3> QED
      BY <3>1, <3>2
  <2>2. part' /\ UNCHANGED <<part, log, legacy, acked>> /\ faults' \in Nat
    BY <1>1 DEF zedit_start, FilesTyped
  <2>3. edit' \in Opened /\ edit'.active \in BOOLEAN
    BY <2>1 DEF Opened
  <2>4. EditTyped'
    BY <2>2, <2>3 DEF EditTyped, Opened
  <2> QED
    BY <2>2, <2>4, Untouched
<1>2. ASSUME zedit_change
      PROVE  FilesTyped' /\ EditTyped' /\ Promises'
  <2>1. PICK t \in Files \union {<<>>} :
            edit' = [edit EXCEPT !.text = t, !.dirty = TRUE]
    BY <1>2 DEF zedit_change
  <2>2. part /\ edit \in Opened
    BY <1>2 DEF zedit_change, EditTyped, Opened
  <2>3. edit' \in Opened /\ edit'.active \in BOOLEAN
    BY <2>1, <2>2 DEF Opened
  <2>4. UNCHANGED <<part, log, legacy, acked>> /\ faults' \in Nat
    BY <1>2 DEF zedit_change, FilesTyped
  <2>5. EditTyped'
    BY <2>2, <2>3, <2>4 DEF EditTyped, Opened
  <2> QED
    BY <2>4, <2>5, Untouched
<1>3. edit' = Closed => EditTyped'
  BY DEF EditTyped, Closed
<1>4. ASSUME NEW b \in BOOLEAN, zedit_quit(b)
      PROVE  FilesTyped' /\ EditTyped' /\ Promises'
  <2>1. UNCHANGED <<part, log, legacy, acked>> /\ faults' \in Nat /\ edit' = Closed
    BY <1>4 DEF zedit_quit, FilesTyped
  <2> QED
    BY <1>3, <2>1, Untouched
<1>5. ASSUME NEW b \in BOOLEAN, zedit_save(b)
      PROVE  FilesTyped' /\ EditTyped' /\ Promises'
  <2>1. part /\ edit \in Opened /\ UNCHANGED <<part, legacy>>
    BY <1>5 DEF zedit_save, EditTyped, Opened
  <2>2. CASE /\ edit' = Closed
             /\ UNCHANGED <<log, revision, catalog, faults, acked, landed>>
    <3>1. faults' \in Nat
      BY <2>2 DEF FilesTyped
    <3> QED
      BY <1>3, <2>1, <2>2, <3>1, Untouched
  <2>3. ASSUME NEW ending \in Endings, edit.text # <<>>,
               append(edit.name, edit.text, ending),
               \/ edit' = edit
               \/ edit' = Closed
               \/ edit' = [edit EXCEPT !.dirty = FALSE, !.existed = TRUE]
        PROVE  FilesTyped' /\ EditTyped' /\ Promises'
    <3>1. edit.name \in Names /\ edit.text \in Files \union {Deleted}
      BY <2>1, <2>3 DEF Opened
    <3>2. FilesTyped' /\ Promises'
      BY <2>1, <2>3, <3>1, AppendKeeps
    <3>3. edit' = Closed \/ edit' \in Opened
      BY <2>1, <2>3 DEF Opened
    <3>4. edit' \in Opened => EditTyped'
      BY <2>1 DEF EditTyped, Opened
    <3> QED
      BY <1>3, <3>2, <3>3, <3>4
  <2> QED
    BY <1>5, <2>2, <2>3 DEF zedit_save
<1> QED
  BY <1>1, <1>2, <1>4, <1>5

\* Whatever a task or the shell calls, the answers stay true.
LEMMA OthersKeep ==
    ASSUME Inv, Others
    PROVE  Inv'
<1>1. FilesTyped /\ EditTyped /\ LineTyped /\ Promises
  BY DEF Inv, Promises
<1>2. UNCHANGED <<host, recv, toGuest>> /\ recv.pc = "shell"
  BY DEF Others, uploadVars
<1>3. LineTyped'
  BY <1>1, <1>2 DEF LineTyped
<1>4. EditTyped /\ UNCHANGED <<edit, part>> => EditTyped'
  BY DEF EditTyped
<1>5. CASE FilesFind \/ DirExists
  <2>1. /\ UNCHANGED <<part, log, legacy, acked, edit>>
        /\ \E cut \in 0 .. MaxRecords : source_list_cache_build(cut)
    BY <1>5 DEF FilesFind, DirExists
  <2>2. faults' \in Nat
    BY <1>1, <2>1 DEF source_list_cache_build, FilesTyped
  <2> QED
    BY <1>1, <1>3, <1>4, <2>1, <2>2, Untouched DEF Inv, Promises
<1>6. ASSUME NEW n \in Names, NEW f \in Files, FileWrite(n, f)
      PROVE  Inv'
  <2>1. PICK ending \in Endings : append(n, f, ending)
    BY <1>6 DEF FileWrite
  <2>2. part /\ UNCHANGED <<part, legacy, edit>>
    BY <1>6 DEF FileWrite
  <2> QED
    BY <1>1, <1>3, <1>4, <2>1, <2>2, AppendKeeps DEF Inv, Promises
<1>7. ASSUME NEW n \in Names, NEW f \in Files, FileWriteLegacy(n, f)
      PROVE  Inv'
  <2>1. UNCHANGED <<part, edit>>
    BY <1>7 DEF FileWriteLegacy
  <2> QED
    BY <1>1, <1>3, <1>4, <1>7, <2>1, LegacyKeeps DEF Inv, Promises
<1>8. ASSUME NEW n \in Names, Zrm(n)
      PROVE  Inv'
  <2>1. PICK ending \in Endings : append(n, Deleted, ending)
    BY <1>8 DEF Zrm
  <2>2. part /\ UNCHANGED <<part, legacy, edit>>
    BY <1>8 DEF Zrm
  <2> QED
    BY <1>1, <1>3, <1>4, <2>1, <2>2, AppendKeeps DEF Inv, Promises
<1>9. CASE Zgc
  <2>1. UNCHANGED <<part, edit>>
    BY <1>9 DEF Zgc
  <2> QED
    BY <1>1, <1>3, <1>4, <1>9, <2>1, ZgcKeeps DEF Inv, Promises
<1>10. CASE \/ \E n \in Names : zedit_start(n)
            \/ zedit_change
            \/ \E b \in BOOLEAN : zedit_save(b) \/ zedit_quit(b)
  BY <1>1, <1>3, <1>10, EditorKeeps DEF Inv, Promises
<1> QED
  BY <1>5, <1>6, <1>7, <1>8, <1>9, <1>10 DEF Others, TaskCall, ShellCommand

-----------------------------------------------------------------------------
(* The serial line.                                                        *)

\* Whatever is left of a damaged line is a line.
LEMMA DamagedIsLine ==
    ASSUME NEW l \in Line, NEW d \in Damaged(l)
    PROVE  d \in Seq(Line)
<1>1. <<>> \in Seq(Line) /\ <<Junk>> \in Seq(Line)
  <2>1. Junk \in Line
    BY DEF Line
  <2> QED
    BY <2>1
<1> DEFINE Single(e) == <<e>>
<1>0. \A e \in Line : Single(e) \in Seq(Line)
  OBVIOUS
<1>2. CASE l.line = "zrecv"
  <2>1. l \in [line : {"zrecv"}, name : Names, length : Lengths, crc : Files]
    BY <1>2 DEF Line, Junk
  <2>2. \A n \in Names : [l EXCEPT !.name = n] \in Line
    BY <2>1 DEF Line
  <2>3. \A len \in Lengths : [l EXCEPT !.length = len] \in Line
    BY <2>1 DEF Line
  <2>4. \/ d = <<>> \/ d = <<Junk>>
        \/ \E n \in Names : d = Single([l EXCEPT !.name = n])
        \/ \E len \in Lengths : d = Single([l EXCEPT !.length = len])
    BY <1>2 DEF Damaged
  <2> HIDE DEF Single
  <2> QED
    BY <1>0, <1>1, <2>2, <2>3, <2>4
<1>3. CASE l.line # "zrecv"
  <2>1. Noise \subseteq Chunks
    BY DEF Chunks
  <2>2. \A c \in Noise : ChunkLine(c) \in Line
    BY <2>1 DEF Line, ChunkLine
  <2>3. d = <<>> \/ d = <<Junk>> \/ \E c \in Noise : d = Single(ChunkLine(c))
    BY <1>3 DEF Damaged
  <2> HIDE DEF Single
  <2> QED
    BY <1>0, <1>1, <2>2, <2>3
<1> QED
  BY <1>2, <1>3

\* What is sent arrives as lines.
LEMMA SendKeeps ==
    ASSUME FilesTyped, LineTyped, NEW l \in Line, send(l)
    PROVE  toGuest' \in Seq(Line) /\ faults' \in Nat
<1>1. CASE toGuest' = Append(toGuest, l) /\ UNCHANGED faults
  BY <1>1, AppendProperties DEF LineTyped, FilesTyped
<1>2. ASSUME NEW d \in Damaged(l), toGuest' = toGuest \o d, faults' = faults + 1
      PROVE  toGuest' \in Seq(Line) /\ faults' \in Nat
  BY <1>2, DamagedIsLine, ConcatProperties DEF LineTyped, FilesTyped
<1> QED
  BY <1>1, <1>2 DEF send

\* The next chunk of the host's file.
LEMMA NextIsLine ==
    ASSUME LineTyped, host.sent < Len(host.file)
    PROVE  ChunkLine(host.file[host.sent + 1]) \in Line
<1>1. PICK f \in Files : f = host.file
  BY DEF LineTyped
<1>2. PICK k \in Nat : k = host.sent
  BY DEF LineTyped
<1>3. f \in Seq(ToSet(f)) /\ k < Len(f)
  BY <1>1, <1>2, FilesAssumption
<1>4. f[k + 1] \in ToSet(f)
  BY <1>3, ElementOfSeq
<1>5. f[k + 1] \in Chunks
  BY <1>4 DEF Chunks
<1>6. host.file[host.sent + 1] \in Chunks
  BY <1>1, <1>2, <1>5
<1> QED
  BY <1>6 DEF ChunkLine, Line

\* A step of the upload that touches no file.
LEMMA LineOnly ==
    ASSUME Inv, UNCHANGED <<part, log, legacy, acked, edit>>, faults' \in Nat,
           LineTyped'
    PROVE  Inv'
<1>1. FilesTyped' /\ Promises'
  BY Untouched DEF Inv, Promises
<1>2. EditTyped'
  BY DEF Inv, EditTyped
<1> QED
  BY <1>1, <1>2 DEF Inv, Promises

\* send-zc.py sends a command with a name, a length and a checksum, and the
\* chunks of its file.
LEMMA HostKeeps ==
    ASSUME Inv, Host \/ \E n \in Names, f \in Files : HostStarts(n, f)
    PROVE  Inv'
<1>1. FilesTyped /\ LineTyped
  BY DEF Inv
<1>2. ASSUME NEW n \in Names, NEW f \in Files, HostStarts(n, f)
      PROVE  Inv'
  <2>1. /\ UNCHANGED <<part, log, legacy, acked, edit, recv>>
        /\ host'.file = f /\ host'.sent = 0 /\ send(Command(n, f))
        /\ {"file", "sent"} \subseteq DOMAIN host'
    BY <1>2 DEF HostStarts
  <2>2. Command(n, f) \in Line
    <3>1. Length(f) \in Lengths
      BY DEF Lengths
    <3> QED
      BY <3>1 DEF Command, Line
  <2>3. toGuest' \in Seq(Line) /\ faults' \in Nat
    BY <1>1, <2>1, <2>2, SendKeeps
  <2>4. LineTyped'
    BY <1>1, <2>1, <2>3 DEF LineTyped
  <2> QED
    BY <2>1, <2>3, <2>4, LineOnly
<1>3. CASE HostReads \/ HostGivesUp
  <2>1. UNCHANGED <<part, log, legacy, acked, edit, recv, faults, toGuest>>
    BY <1>3 DEF HostReads, HostGivesUp, fileVars
  <2>2. /\ host'.file = host.file /\ host'.sent = host.sent
        /\ DOMAIN host' = DOMAIN host
    BY <1>1, <1>3 DEF HostReads, HostGivesUp, LineTyped
  <2>3. LineTyped' /\ faults' \in Nat
    BY <1>1, <2>1, <2>2 DEF LineTyped, FilesTyped
  <2> QED
    BY <2>1, <2>3, LineOnly
<1>4. CASE HostGoesOn
  <2>1. UNCHANGED <<part, log, legacy, acked, edit, recv>>
    BY <1>4 DEF HostGoesOn
  <2>2. CASE /\ UNCHANGED <<toGuest, faults>>
             /\ host'.file = host.file /\ host'.sent = host.sent
             /\ DOMAIN host' = DOMAIN host
    <3>1. LineTyped' /\ faults' \in Nat
      BY <1>1, <2>1, <2>2 DEF LineTyped, FilesTyped
    <3> QED
      BY <2>1, <3>1, LineOnly
  <2>3. CASE /\ host.sent < Len(host.file)
             /\ host'.file = host.file /\ host'.sent = host.sent + 1
             /\ DOMAIN host' = DOMAIN host
             /\ send(ChunkLine(host.file[host.sent + 1]))
    <3>3. ChunkLine(host.file[host.sent + 1]) \in Line
      BY <1>1, <2>3, NextIsLine
    <3>4. toGuest' \in Seq(Line) /\ faults' \in Nat
      BY <1>1, <2>3, <3>3, SendKeeps
    <3>5. LineTyped'
      BY <1>1, <2>1, <2>3, <3>4 DEF LineTyped
    <3> QED
      BY <2>1, <3>4, <3>5, LineOnly
  <2>4. ASSUME NEW x,
               \/ host' = [host EXCEPT !.pc = "idle", !.told = TRUE, !.pending = x]
               \/ host' = [host EXCEPT !.last = TRUE, !.pending = x]
        PROVE  /\ host'.file = host.file /\ host'.sent = host.sent
               /\ DOMAIN host' = DOMAIN host
    BY <1>1, <2>4 DEF LineTyped
  <2>5. ASSUME NEW x, host' = [host EXCEPT !.sent = @ + 1, !.pending = x]
        PROVE  /\ host'.file = host.file /\ host'.sent = host.sent + 1
               /\ DOMAIN host' = DOMAIN host
    BY <1>1, <2>5 DEF LineTyped
  <2>6. \/ /\ UNCHANGED <<toGuest, faults>>
           /\ \E x : \/ host' = [host EXCEPT !.pc = "idle", !.told = TRUE, !.pending = x]
                     \/ host' = [host EXCEPT !.last = TRUE, !.pending = x]
        \/ /\ host.sent < Len(host.file)
           /\ send(ChunkLine(host.file[host.sent + 1]))
           /\ \E x : host' = [host EXCEPT !.sent = @ + 1, !.pending = x]
    BY <1>4, Zenon DEF HostGoesOn
  <2> QED
    BY <2>2, <2>3, <2>4, <2>5, <2>6
<1> QED
  BY <1>2, <1>3, <1>4 DEF Host

\* zrecv_serial stores what has the announced checksum, under the announced
\* name.
LEMMA RecvKeeps ==
    ASSUME Inv, zrecv_serial
    PROVE  Inv'
<1>1. FilesTyped /\ LineTyped /\ EditTyped /\ Promises
  BY DEF Inv, Promises
<1>2. NoUpload.pc = "shell" /\ {"name", "crc"} \subseteq DOMAIN NoUpload
  BY DEF NoUpload
<1>3. toGuest # <<>> => Head(toGuest) \in Line /\ Tail(toGuest) \in Seq(Line)
  BY <1>1, HeadTailProperties DEF LineTyped
<1>4. CASE zrecv_begin
  <2>1. /\ UNCHANGED <<part, log, legacy, acked, edit, host>> /\ faults' \in Nat
        /\ toGuest' = Tail(toGuest) /\ toGuest # <<>>
    BY <1>1, <1>4 DEF zrecv_begin, FilesTyped
  <2>2. Head(toGuest).name \in Names /\ Head(toGuest).crc \in Files
    BY <1>3, <1>4 DEF zrecv_begin, Line, Junk
  <2>3. \/ /\ part /\ recv'.name = Head(toGuest).name /\ recv'.crc = Head(toGuest).crc
           /\ {"name", "crc"} \subseteq DOMAIN recv'
        \/ UNCHANGED recv
    BY <1>4 DEF zrecv_begin
  <2>4. LineTyped'
    BY <1>1, <1>3, <2>1, <2>2, <2>3 DEF LineTyped
  <2> QED
    BY <2>1, <2>4, LineOnly
<1>5. CASE ShellIgnores
  <2>1. /\ UNCHANGED <<part, log, legacy, acked, edit, host, recv, faults>>
        /\ toGuest' = Tail(toGuest) /\ toGuest # <<>>
    BY <1>5 DEF ShellIgnores, fileVars
  <2>2. LineTyped' /\ faults' \in Nat
    BY <1>1, <1>3, <2>1 DEF LineTyped, FilesTyped
  <2> QED
    BY <2>1, <2>2, LineOnly
<1>6. CASE zrecv_chunk
  <2>1. /\ UNCHANGED <<part, log, legacy, acked, edit, host>> /\ faults' \in Nat
        /\ toGuest' = Tail(toGuest) /\ toGuest # <<>> /\ recv.pc = "chunk"
    BY <1>1, <1>6 DEF zrecv_chunk, FilesTyped
  <2>2. \/ recv' = NoUpload
        \/ /\ recv'.name = recv.name /\ recv'.crc = recv.crc
           /\ DOMAIN recv' = DOMAIN recv
    BY <1>1, <1>6 DEF zrecv_chunk, LineTyped
  <2>3. LineTyped'
    BY <1>1, <1>2, <1>3, <2>1, <2>2 DEF LineTyped
  <2> QED
    BY <2>1, <2>3, LineOnly
<1>7. CASE zrecv_malformed \/ zrecv_timeout
  <2>1. /\ UNCHANGED <<part, log, legacy, acked, edit, host, faults>>
        /\ toGuest' = toGuest \/ (toGuest # <<>> /\ toGuest' = Tail(toGuest))
        /\ recv' = NoUpload
    BY <1>7 DEF zrecv_malformed, zrecv_timeout, fileVars
  <2>2. LineTyped' /\ faults' \in Nat
    BY <1>1, <1>2, <1>3, <2>1 DEF LineTyped, FilesTyped
  <2> QED
    BY <2>1, <2>2, LineOnly
<1>8. CASE zrecv_finish
  <2>1. /\ UNCHANGED <<part, legacy, edit, host, toGuest>> /\ recv' = NoUpload
        /\ recv.pc = "finish"
    BY <1>8 DEF zrecv_finish
  <2>2. LineTyped'
    BY <1>1, <1>2, <2>1 DEF LineTyped
  <2>3. CASE UNCHANGED <<log, faults, acked>>
    <3>1. faults' \in Nat
      BY <1>1, <2>3 DEF FilesTyped
    <3> QED
      BY <2>1, <2>2, <2>3, <3>1, LineOnly
  <2>4. ASSUME NEW ending \in Endings, recv.got = recv.crc,
               append(recv.name, recv.got, ending)
        PROVE  Inv'
    <3>1. part /\ recv.name \in Names /\ recv.got \in Files
      BY <1>1, <2>1, <2>4 DEF LineTyped
    <3>2. FilesTyped' /\ Promises'
      BY <1>1, <2>1, <2>4, <3>1, AppendKeeps
    <3>3. EditTyped'
      BY <1>1, <2>1 DEF EditTyped
    <3> QED
      BY <2>2, <3>2, <3>3 DEF Inv, Promises
  <2> QED
    BY <1>8, <2>3, <2>4 DEF zrecv_finish
<1> QED
  BY <1>4, <1>5, <1>6, <1>7, <1>8 DEF zrecv_serial

-----------------------------------------------------------------------------
(* The results.                                                            *)

\* A system without files of its own starts in Inv.
LEMMA InitKeeps ==
    ASSUME Init
    PROVE  Inv
<1>1. FilesTyped
  BY FilesAssumption DEF Init, FilesInit, FilesTyped
<1>2. EditTyped
  BY DEF Init, FilesInit, EditTyped, Closed
<1>3. LineTyped
  BY FilesAssumption DEF Init, LineTyped, NoUpload
<1>4. ASSUME NEW n \in Names PROVE Promised(n)
  <2>1. zss_find(n) = Absent
    BY EmptyHasNone DEF Init, FilesInit
  <2> QED
    BY <2>1, FilesAssumption DEF Init, FilesInit, Promised
<1> QED
  BY <1>1, <1>2, <1>3, <1>4 DEF Inv

\* A step that changes nothing.
LEMMA StutterKeeps ==
    ASSUME Inv, UNCHANGED vars
    PROVE  Inv'
<1>1. UNCHANGED <<part, log, legacy, acked, edit, host, recv, toGuest, faults>>
  BY DEF vars, fileVars, uploadVars
<1>2. LineTyped' /\ faults' \in Nat
  BY <1>1 DEF Inv, LineTyped, FilesTyped
<1> QED
  BY <1>1, <1>2, LineOnly

\* What the root has when the partition is not asked.
FromRoot(n) == IF legacy_of(n) = Absent THEN <<"missing", Absent>>
               ELSE <<"ok", legacy_of(n)>>

\* What a lookup yields with each error, and what a read finds without one.
LEMMA ReadYields ==
    ASSUME FilesTyped, NEW n \in Names
    PROVE  /\ zss_find(n) \in Files \union {Deleted, Absent} /\ part \in BOOLEAN
           /\ legacy_of(n) \in Files \union {Absent}
           /\ zc_read_redsea(n, "super") = FromRoot(n)
           /\ zc_read_redsea(n, "log") =
                  IF part THEN <<"missing", Absent>> ELSE FromRoot(n)
           /\ zc_read_redsea(n, "none") =
                  IF ~part \/ zss_find(n) = Absent THEN FromRoot(n)
                  ELSE IF zss_find(n) = Deleted THEN <<"deleted", Absent>>
                  ELSE <<"ok", zss_find(n)>>
           /\ FileRead(n) =
                  IF ~part \/ zss_find(n) = Absent
                  THEN IF legacy_of(n) = Absent THEN Bundled[n] ELSE legacy_of(n)
                  ELSE IF zss_find(n) = Deleted THEN Absent
                  ELSE zss_find(n)
<1>1. zss_find(n) \in Files \union {Deleted, Absent} /\ part \in BOOLEAN
  BY FindTyped, FindIsFindIn DEF FilesTyped
<1>2. legacy_of(n) \in Files \union {Absent}
  BY DEF FilesTyped, legacy_of
<1>3. /\ zc_read_redsea(n, "super") = FromRoot(n)
      /\ zc_read_redsea(n, "log") = IF part THEN <<"missing", Absent>> ELSE FromRoot(n)
      /\ zc_read_redsea(n, "none") =
             IF ~part \/ zss_find(n) = Absent THEN FromRoot(n)
             ELSE IF zss_find(n) = Deleted THEN <<"deleted", Absent>>
             ELSE <<"ok", zss_find(n)>>
  <2>1. zc_read_redsea(n, "super") = FromRoot(n)
    BY DEF zc_read_redsea, FromRoot
  <2>2. zc_read_redsea(n, "log") = IF part THEN <<"missing", Absent>> ELSE FromRoot(n)
    BY <1>1 DEF zc_read_redsea, FromRoot
  <2>3. zc_read_redsea(n, "none") =
            IF ~part \/ zss_find(n) = Absent THEN FromRoot(n)
            ELSE IF zss_find(n) = Deleted THEN <<"deleted", Absent>>
            ELSE <<"ok", zss_find(n)>>
    BY <1>1, FilesAssumption DEF zc_read_redsea, FromRoot
  <2> QED
    BY <2>1, <2>2, <2>3
<1>4. FileRead(n) =
          IF ~part \/ zss_find(n) = Absent
          THEN IF legacy_of(n) = Absent THEN Bundled[n] ELSE legacy_of(n)
          ELSE IF zss_find(n) = Deleted THEN Absent
          ELSE zss_find(n)
  BY <1>1, <1>2, <1>3 DEF FileRead, source_file_find, disk_copy, FromRoot
<1> QED
  BY <1>1, <1>2, <1>3, <1>4

\* The answers that Inv promises are what reads find.
LEMMA PromisedIsRead ==
    ASSUME Inv
    PROVE  ReadsLatest
<1> SUFFICES ASSUME NEW n \in Names
             PROVE  /\ \A e1, e2 \in {"none", "super", "log"} :
                           source_file_find(n, e1, e2)
                               \in {FileRead(n), legacy_of(n), Bundled[n], Absent}
                    /\ acked[n] \in Files => FileRead(n) = acked[n]
                    /\ acked[n] = Deleted => FileRead(n) = Absent
                    /\ acked[n] = Absent => FileRead(n) \in {legacy_of(n), Bundled[n]}
  BY DEF ReadsLatest
<1>0. FilesTyped
  BY DEF Inv
<1>1. zss_find(n) \in Files \union {Deleted, Absent} /\ part \in BOOLEAN
  BY <1>0, ReadYields
<1>2. legacy_of(n) \in Files \union {Absent}
  BY <1>0, ReadYields
<1>3. /\ zc_read_redsea(n, "super") = FromRoot(n)
      /\ zc_read_redsea(n, "log") =
             IF part THEN <<"missing", Absent>> ELSE FromRoot(n)
      /\ zc_read_redsea(n, "none") =
             IF ~part \/ zss_find(n) = Absent THEN FromRoot(n)
             ELSE IF zss_find(n) = Deleted THEN <<"deleted", Absent>>
             ELSE <<"ok", zss_find(n)>>
  BY <1>0, ReadYields
<1>4. FileRead(n) =
          IF ~part \/ zss_find(n) = Absent
          THEN IF legacy_of(n) = Absent THEN Bundled[n] ELSE legacy_of(n)
          ELSE IF zss_find(n) = Deleted THEN Absent
          ELSE zss_find(n)
  BY <1>0, ReadYields
<1>5. \A e1, e2 \in {"none", "super", "log"} :
          source_file_find(n, e1, e2)
              \in {FileRead(n), legacy_of(n), Bundled[n], Absent}
  <2> SUFFICES ASSUME NEW e1 \in {"none", "super", "log"},
                      NEW e2 \in {"none", "super", "log"}
               PROVE  source_file_find(n, e1, e2)
                          \in {FileRead(n), legacy_of(n), Bundled[n], Absent}
    OBVIOUS
  <2>1. \/ disk_copy(n, e1, e2) = zc_read_redsea(n, e1) /\ zc_read_redsea(n, e1)[1] # "ok"
        \/ disk_copy(n, e1, e2) = zc_read_redsea(n, e2) /\ zc_read_redsea(n, e2)[1] = "ok"
        \/ disk_copy(n, e1, e2) = <<"missing", Absent>>
    BY DEF disk_copy
  <2>2. \A e \in {"none", "super", "log"} :
            \/ zc_read_redsea(n, e) \in {<<"missing", Absent>>, <<"deleted", Absent>>,
                                         <<"ok", legacy_of(n)>>}
            \/ zc_read_redsea(n, e) = <<"ok", FileRead(n)>>
    BY <1>1, <1>3, <1>4 DEF FromRoot
  <2>3. \/ disk_copy(n, e1, e2) \in {<<"missing", Absent>>, <<"deleted", Absent>>,
                                     <<"ok", legacy_of(n)>>}
        \/ disk_copy(n, e1, e2) = <<"ok", FileRead(n)>>
    BY <2>1, <2>2
  <2> QED
    BY <2>3 DEF source_file_find
<1>6. /\ acked[n] \in Files => FileRead(n) = acked[n]
      /\ acked[n] = Deleted => FileRead(n) = Absent
      /\ acked[n] = Absent => FileRead(n) \in {legacy_of(n), Bundled[n]}
  <2>1. Promised(n)
    BY DEF Inv
  <2>2. ~part => zss_find(n) = Absent
    BY <2>1, EmptyHasNone DEF Promised
  <2> QED
    BY <1>1, <1>2, <1>4, <2>1, <2>2, FilesAssumption DEF Promised
<1> QED
  BY <1>5, <1>6

\* The inductive invariant: an answer is the last record of its name, or its
\* file of the legacy root when the partition has no record of it; the editor
\* and zrecv work on a partition only, and zrecv knows name and checksum of
\* what it receives.
THEOREM AnswersKept ==
    Spec => []Inv
<1>1. Init => Inv
  BY InitKeeps
<1>2. Inv /\ [Next]_vars => Inv'
  BY OthersKeep, RecvKeeps, HostKeeps, StutterKeeps DEF Next
<1> QED
  BY <1>1, <1>2, PTL DEF Spec

\* What was last answered about a name is what the guest's reads find,
\* however it was written, hidden, compacted or left in the legacy root, and
\* an error shows an older copy or none: for any partition, names, files and
\* number of saves, uploads and errors.
THEOREM ReadsAnswer ==
    Spec => []ReadsLatest
<1>1. Inv => ReadsLatest
  BY PromisedIsRead
<1>2. Spec => []Inv
  BY AnswersKept
<1> QED
  BY <1>1, <1>2, PTL

-----------------------------------------------------------------------------
(* The list that is kept.                                                  *)

\* The caches are not newer than the partition. A catalog that is valid, and a
\* list of the current revision that no error cut, are of the present log; of
\* an older list nothing is said, nor of either once a record has landed that
\* the driver does not know of.
ListInv ==
    /\ revision \in Nat /\ landed \in BOOLEAN
    /\ "valid" \in DOMAIN catalog
    /\ cache.revision \in Nat /\ cache.revision <= revision
    /\ ~part => log = <<>>
    /\ catalog.valid /\ ~landed => Describes(catalog.items, log)
    /\ cache.ready /\ cache.revision = revision /\ cache.whole /\ ~landed =>
           \E c : Describes(c, log) /\ cache.list = ListOf(c)

\* A step that saves nothing and builds no list.
LEMMA ListUntouched ==
    ASSUME ListInv, UNCHANGED <<part, revision, landed, catalog, cache>>,
           \A n : FindIn(log', n) = FindIn(log, n), part \/ log' = log
    PROVE  ListInv'
<1>1. \A c : Describes(c, log) => Describes(c, log')
  BY DescribesFound
<1>2. catalog.valid /\ ~landed => Describes(catalog.items, log')
  BY <1>1 DEF ListInv
<1>3. cache.ready /\ cache.revision = revision /\ cache.whole /\ ~landed =>
          \E c : Describes(c, log') /\ cache.list = ListOf(c)
  BY <1>1 DEF ListInv
<1> QED
  BY <1>2, <1>3 DEF ListInv

\* A save that is answered makes both caches old, one that failed leaves the
\* log alone, and one that landed is what "landed" is for.
LEMMA ListAppended ==
    ASSUME ListInv, part, NEW n, NEW x, NEW ending \in Endings,
           append(n, x, ending), UNCHANGED <<part, cache>>
    PROVE  ListInv'
<1>1. CASE ending \in {"saved", "unflushed"}
  <2>1. /\ revision' = revision + 1 /\ landed' = FALSE
        /\ catalog' = [catalog EXCEPT !.valid = FALSE]
    BY <1>1 DEF append
  <2>2. "valid" \in DOMAIN catalog' /\ catalog'.valid = FALSE
    BY <2>1 DEF ListInv
  <2>3. cache'.revision \in Nat /\ cache'.revision < revision' /\ revision' \in Nat
    BY <2>1 DEF ListInv
  <2>4. part' /\ landed' \in BOOLEAN
    BY <2>1, Zenon
  <2>7. cache'.revision <= revision'
    BY <2>3
  <2>5. ~(catalog'.valid /\ ~landed')
    BY <2>2
  <2>6. ~(cache'.ready /\ cache'.revision = revision' /\ cache'.whole /\ ~landed')
    BY <2>3
  <2> QED
    BY <2>2, <2>3, <2>4, <2>5, <2>6, <2>7, Zenon DEF ListInv
<1>2. CASE ending = "failed"
  <2>1. UNCHANGED <<part, revision, landed, catalog, cache>> /\ log' = log
    BY <1>2 DEF append, ListInv
  <2> QED
    BY <2>1, ListUntouched
<1>3. CASE ending = "landed"
  <2>1. UNCHANGED <<part, revision, catalog, cache>> /\ landed' = TRUE
    BY <1>3 DEF append, ListInv
  <2> QED
    BY <2>1 DEF ListInv
<1> QED
  BY <1>1, <1>2, <1>3 DEF Endings

\* A list that is built whole is of the present log.
LEMMA ListBuilt ==
    ASSUME FilesTyped, ListInv, NEW cut \in Nat, source_list_cache_build(cut),
           UNCHANGED <<part, log, revision, landed>>
    PROVE  ListInv'
<1> DEFINE items == IF ~part THEN <<>>
                    ELSE IF catalog.valid THEN catalog.items ELSE CatalogOf(log)
<1>1. ~landed => Describes(items, log)
  <2>1. Describes(CatalogOf(log), log)
    BY CatalogDescribes DEF FilesTyped
  <2> QED
    BY <2>1, DescribesNothing DEF ListInv
<1>2. /\ catalog' = catalog
         \/ (part /\ catalog' = [valid |-> TRUE, items |-> items])
      /\ cache' = [ready |-> TRUE, revision |-> revision,
                   list |-> ListOf(SubSeq(items, 1, cut)),
                   whole |-> cut = Len(items)]
  BY DEF source_list_cache_build
<1> HIDE DEF items
<1>3. /\ "valid" \in DOMAIN catalog'
      /\ catalog'.valid /\ ~landed => Describes(catalog'.items, log)
  <2>1. CASE catalog' = catalog
    BY <2>1 DEF ListInv
  <2>2. CASE catalog' = [valid |-> TRUE, items |-> items]
    BY <1>1, <2>2
  <2> QED
    BY <1>2, <2>1, <2>2
<1>4. /\ cache'.revision = revision
      /\ cache'.list = ListOf(SubSeq(items, 1, cut))
      /\ cache'.whole = (cut = Len(items))
  BY <1>2
<1>5. cache'.whole /\ ~landed => Describes(items, log) /\ cache'.list = ListOf(items)
  <2> SUFFICES ASSUME cut = Len(items), ~landed
               PROVE  Describes(items, log) /\ cache'.list = ListOf(items)
    BY <1>4
  <2>1. items \in Seq(Record)
    BY <1>1 DEF Describes
  <2>2. SubSeq(items, 1, cut) = items
    BY <2>1, SubSeqFull
  <2> QED
    BY <1>1, <1>4, <2>2
<1> QED
  BY <1>3, <1>4, <1>5 DEF ListInv

\* No step of the system makes the list wrong.
LEMMA StepKeepsList ==
    ASSUME Inv, ListInv, [Next]_vars
    PROVE  ListInv'
<1>1. FilesTyped /\ EditTyped /\ LineTyped
  BY DEF Inv
<1>2. CASE UNCHANGED <<part, log, revision, landed, catalog, cache>>
  BY <1>2, ListUntouched
<1>3. ASSUME NEW n, NEW x, NEW ending \in Endings, append(n, x, ending),
             part, UNCHANGED <<part, cache>>
      PROVE  ListInv'
  BY <1>3, ListAppended
<1>4. CASE Others
  <2>1. CASE FilesFind \/ DirExists
    <3>1. /\ UNCHANGED <<part, log, revision, landed>>
          /\ \E cut \in 0 .. MaxRecords : source_list_cache_build(cut)
      BY <2>1 DEF FilesFind, DirExists
    <3>2. PICK cut \in 0 .. MaxRecords : source_list_cache_build(cut)
      BY <3>1
    <3>3. cut \in Nat
      BY FilesAssumption
    <3> QED
      BY <1>1, <3>1, <3>2, <3>3, ListBuilt
  <2>2. ASSUME NEW n \in Names, NEW f \in Files, FileWrite(n, f)
        PROVE  ListInv'
    <3>1. PICK ending \in Endings : append(n, f, ending)
      BY <2>2 DEF FileWrite
    <3>2. part /\ UNCHANGED <<part, cache>>
      BY <2>2 DEF FileWrite
    <3> QED
      BY <1>3, <3>1, <3>2
  <2>3. ASSUME NEW n \in Names, NEW f \in Files, FileWriteLegacy(n, f)
        PROVE  ListInv'
    BY <1>2, <2>3 DEF FileWriteLegacy
  <2>4. ASSUME NEW n \in Names, Zrm(n)
        PROVE  ListInv'
    <3>1. PICK ending \in Endings : append(n, Deleted, ending)
      BY <2>4 DEF Zrm
    <3>2. part /\ UNCHANGED <<part, cache>>
      BY <2>4 DEF Zrm
    <3> QED
      BY <1>3, <3>1, <3>2
  <2>5. CASE Zgc
    <3>1. \A n : FindIn(log', n) = FindIn(log, n)
      BY <1>1, <2>5, ZgcFinds
    <3>2. part /\ UNCHANGED <<part, revision, landed, catalog, cache>>
      BY <2>5 DEF Zgc
    <3> QED
      BY <3>1, <3>2, ListUntouched
  <2>6. ASSUME NEW n \in Names, zedit_start(n)
        PROVE  ListInv'
    BY <1>2, <2>6 DEF zedit_start
  <2>7. CASE zedit_change
    BY <1>2, <2>7 DEF zedit_change
  <2>8. ASSUME NEW b \in BOOLEAN, zedit_quit(b)
        PROVE  ListInv'
    BY <1>2, <2>8 DEF zedit_quit
  <2>9. ASSUME NEW b \in BOOLEAN, zedit_save(b)
        PROVE  ListInv'
    <3>1. part /\ UNCHANGED <<part, cache>>
      BY <1>1, <2>9 DEF zedit_save, EditTyped
    <3>2. \/ UNCHANGED <<log, revision, catalog, landed>>
          \/ \E ending \in Endings : append(edit.name, edit.text, ending)
      BY <2>9 DEF zedit_save
    <3> QED
      BY <1>2, <1>3, <3>1, <3>2
  <2> QED
    BY <1>4, <2>1, <2>2, <2>3, <2>4, <2>5, <2>6, <2>7, <2>8, <2>9
       DEF Others, TaskCall, ShellCommand
<1>5. CASE zrecv_serial
  <2>1. CASE zrecv_finish
    <3>1. part /\ UNCHANGED <<part, cache>>
      BY <1>1, <2>1 DEF zrecv_finish, LineTyped
    <3>2. \/ UNCHANGED <<log, revision, catalog, landed>>
          \/ \E ending \in Endings : append(recv.name, recv.got, ending)
      BY <2>1 DEF zrecv_finish
    <3> QED
      BY <1>2, <1>3, <3>1, <3>2
  <2>2. CASE \/ zrecv_begin \/ ShellIgnores \/ zrecv_chunk \/ zrecv_malformed
             \/ zrecv_timeout
    BY <1>2, <2>2 DEF zrecv_begin, ShellIgnores, zrecv_chunk, zrecv_malformed,
                      zrecv_timeout, fileVars
  <2> QED
    BY <1>5, <2>1, <2>2 DEF zrecv_serial
<1>6. CASE Host \/ \E n \in Names, f \in Files : HostStarts(n, f)
  BY <1>2, <1>6 DEF Host, HostReads, HostGoesOn, HostGivesUp, HostStarts, fileVars
<1>7. CASE UNCHANGED vars
  BY <1>2, <1>7 DEF vars, fileVars
<1> QED
  BY <1>4, <1>5, <1>6, <1>7 DEF Next

\* A list of the present log shows what reads find.
LEMMA ListIsRead ==
    ASSUME Inv, ListInv
    PROVE  ListAgrees
<1> SUFFICES ASSUME cache.ready, cache.revision = revision, cache.whole, ~landed
             PROVE  /\ \A i, j \in DOMAIN cache.list :
                           cache.list[i].name = cache.list[j].name => i = j
                    /\ \A n \in Names : ~Shadowed(n) =>
                           View(n) = IF FileRead(n) = Absent THEN {}
                                     ELSE {Len(FileRead(n))}
  BY DEF ListAgrees
<1>1. PICK c : Describes(c, log) /\ cache.list = ListOf(c)
  BY DEF ListInv
<1>2. /\ c \in Seq(Record)
      /\ \A j, k \in DOMAIN c : c[j].name = c[k].name => j = k
      /\ \A k \in DOMAIN c : c[k].x = FindIn(log, c[k].name)
      /\ \A n \in Names :
             (\A k \in DOMAIN c : c[k].name # n) => FindIn(log, n) = Absent
  BY <1>1 DEF Describes
<1>3. /\ \A i, j \in DOMAIN cache.list :
             cache.list[i].name = cache.list[j].name => i = j
      /\ \A e : e \in ToSet(cache.list) <=> \E n \in Names : Listed(c, n, e)
  BY <1>1, <1>2, ListLists
<1>4. ASSUME NEW n \in Names, ~Shadowed(n)
      PROVE  View(n) = IF FileRead(n) = Absent THEN {} ELSE {Len(FileRead(n))}
  <2> DEFINE listed == {e \in ToSet(cache.list) : e.name = n}
             found == zss_find(n)
  <2>1. /\ found \in Files \union {Deleted, Absent} /\ part \in BOOLEAN
        /\ legacy_of(n) \in Files \union {Absent}
        /\ FileRead(n) =
               IF ~part \/ found = Absent
               THEN IF legacy_of(n) = Absent THEN Bundled[n] ELSE legacy_of(n)
               ELSE IF found = Deleted THEN Absent
               ELSE found
    BY ReadYields DEF Inv
  <2>2. found = FindIn(log, n)
    BY FindIsFindIn
  <2>3. ~part => found = Absent
    BY EmptyHasNone DEF ListInv
  <2>4. \A e : e \in listed <=> Listed(c, n, e)
    <3>1. \A m, e : Listed(c, m, e) => e.name = m
      BY DEF Listed
    <3> QED
      BY <1>3, <3>1
  <2>5. /\ Bundled[n] \in Files \union {Absent} /\ Absent \notin Files
        /\ Deleted \notin Files /\ Absent # Deleted
    BY FilesAssumption
  <2>6. View(n) = IF listed # {} THEN {e.size : e \in listed}
                  ELSE IF legacy_of(n) # Absent /\ ~(part /\ found = Deleted)
                  THEN {Len(legacy_of(n))}
                  ELSE {}
    BY DEF View
  <2> HIDE DEF listed, found
  <2>7. CASE found = Absent
    <3>1. \A k \in DOMAIN c : c[k].name # n
      <4> SUFFICES ASSUME NEW k \in DOMAIN c, c[k].name = n PROVE FALSE
        OBVIOUS
      <4>1. c[k] \in Record
        BY <1>2
      <4>2. c[k].x \in Files \union {Deleted}
        BY <4>1 DEF Record
      <4>3. c[k].x = Absent
        BY <1>2, <2>2, <2>7
      <4> QED
        BY <2>5, <4>2, <4>3
    <3>2. CASE Bundled[n] = Absent
      <4>1. listed = {}
        BY <2>4, <3>1, <3>2 DEF Listed
      <4> QED
        BY <2>1, <2>5, <2>6, <2>7, <3>2, <4>1
    <3>3. CASE Bundled[n] # Absent
      <4>1. legacy_of(n) = Absent
        BY <1>4, <2>7, <3>3 DEF Shadowed, found
      <4> DEFINE e0 == [name |-> n, size |-> Len(Bundled[n])]
      <4>2. \A e : e \in listed <=> e = e0
        BY <2>4, <3>1, <3>3 DEF Listed
      <4>3. e0.size = Len(Bundled[n])
        OBVIOUS
      <4> HIDE DEF e0
      <4>5. listed = {e0} /\ {e.size : e \in {e0}} = {e0.size}
        BY <4>2
      <4>4. listed # {} /\ {e.size : e \in listed} = {Len(Bundled[n])}
        BY <4>3, <4>5
      <4> QED
        BY <2>1, <2>6, <2>7, <3>3, <4>1, <4>4
    <3> QED
      BY <3>2, <3>3
  <2>8. CASE found # Absent
    <3>1. PICK k \in DOMAIN c : c[k].name = n
      BY <1>2, <2>2, <2>8
    <3>2. c[k].x = found /\ \A j \in DOMAIN c : c[j].name = n => j = k
      BY <1>2, <2>2, <3>1
    <3>3. CASE found = Deleted
      <4>1. listed = {}
        BY <2>4, <3>1, <3>2, <3>3 DEF Listed
      <4> QED
        BY <2>1, <2>3, <2>6, <2>8, <3>3, <4>1
    <3>4. CASE found # Deleted
      <4> DEFINE e0 == [name |-> n, size |-> Len(found)]
      <4>2. \A e : e \in listed <=> e = e0
        BY <2>4, <3>1, <3>2, <3>4 DEF Listed
      <4>3. e0.size = Len(found)
        OBVIOUS
      <4> HIDE DEF e0
      <4>5. listed = {e0} /\ {e.size : e \in {e0}} = {e0.size}
        BY <4>2
      <4>4. listed # {} /\ {e.size : e \in listed} = {Len(found)}
        BY <4>3, <4>5
      <4> QED
        BY <2>1, <2>3, <2>6, <2>8, <3>4, <4>4
    <3> QED
      BY <3>3, <3>4
  <2> QED
    BY <2>7, <2>8
<1> QED
  BY <1>3, <1>4

\* There is neither a catalog nor a list at the start.
LEMMA ListStarts ==
    Init => ListInv
<1> SUFFICES ASSUME Init PROVE ListInv
  OBVIOUS
<1>1. /\ revision = 0 /\ landed = FALSE /\ log = <<>>
      /\ catalog = [valid |-> FALSE, items |-> <<>>]
      /\ cache = [ready |-> FALSE, revision |-> 0, list |-> <<>>, whole |-> TRUE]
  BY DEF Init, FilesInit
<1>2. /\ "valid" \in DOMAIN catalog /\ catalog.valid = FALSE
      /\ cache.revision = 0 /\ cache.ready = FALSE
  BY <1>1
<1>3. revision \in Nat /\ cache.revision \in Nat /\ cache.revision <= revision
  BY <1>1, <1>2
<1> QED
  BY <1>1, <1>2, <1>3, Zenon DEF ListInv

\* The list that FilesFind and directory tests use agrees with what reads
\* find, each file once and with its size, for any partition, archive, legacy
\* root and number of saves, deletions, compactions, uploads and errors.
THEOREM ListSafe ==
    Spec => []ListAgrees
<1>1. Init => ListInv
  BY ListStarts
<1>2. Inv /\ ListInv /\ [Next]_vars => ListInv'
  BY StepKeepsList
<1>3. Inv /\ ListInv => ListAgrees
  BY ListIsRead
<1>4. Spec => []Inv
  BY AnswersKept
<1> QED
  BY <1>1, <1>2, <1>3, <1>4, PTL DEF Spec

-----------------------------------------------------------------------------
(* What an upload stores, and what the host is told.                       *)

\* The commands that are on their way to the guest.
Commands(q) == {i \in DOMAIN q : q[i].line = "zrecv"}

\* Commands that zrecv has still to answer, the one under way included.
Outstanding == Cardinality(Commands(toGuest)) + (IF recv.pc = "shell" THEN 0 ELSE 1)

\* Every save since the start is one of the tasks and the shell, which stop at
\* the bound, or belongs to a command.
Counted ==
    /\ budget \in Budgets
    /\ uploads \in Nat /\ uploads <= budget.uploads
    /\ Outstanding <= uploads
    /\ revision + Outstanding <= budget.saves + uploads

\* zrecv never takes more chunks than were announced.
RecvTyped ==
    /\ DOMAIN recv = {"pc", "name", "length", "crc", "got"}
    /\ recv.pc \in {"shell", "chunk", "finish"}
    /\ recv.length \in Lengths
    /\ recv.got \in Seq(Chunks)
    /\ Len(recv.got) <= recv.length.chunks
    /\ recv.pc = "chunk" => Len(recv.got) < recv.length.chunks

StoreTyped ==
    /\ Len(log) <= MaxRecords
    /\ DOMAIN catalog = {"valid", "items"} /\ catalog.items \in Seq(Record)
    /\ edit.text \in Files \union {<<>>}

\* The commands of a line that is put behind others.
LEMMA CommandsSent ==
    ASSUME NEW q \in Seq(Line), NEW l \in Line
    PROVE  /\ IsFiniteSet(Commands(q)) /\ Cardinality(Commands(q)) \in Nat
           /\ Cardinality(Commands(Append(q, l))) =
                  Cardinality(Commands(q)) + IF l.line = "zrecv" THEN 1 ELSE 0
<1>1. /\ Len(q) \in Nat /\ DOMAIN q = 1 .. Len(q)
      /\ DOMAIN Append(q, l) = 1 .. Len(q) + 1
      /\ \A i \in 1 .. Len(q) : Append(q, l)[i] = q[i]
      /\ Append(q, l)[Len(q) + 1] = l
  OBVIOUS
<1>2. IsFiniteSet(Commands(q))
  <2>1. IsFiniteSet(1 .. Len(q))
    BY <1>1, FS_Interval
  <2>2. Commands(q) \subseteq 1 .. Len(q)
    BY <1>1 DEF Commands
  <2> QED
    BY <2>1, <2>2, FS_Subset
<1>3. Cardinality(Commands(q)) \in Nat
  BY <1>2, FS_CardinalityType
<1>4. Len(q) + 1 \notin Commands(q)
  BY <1>1 DEF Commands
<1>5. CASE l.line = "zrecv"
  <2>1. Commands(Append(q, l)) = Commands(q) \union {Len(q) + 1}
    BY <1>1, <1>5 DEF Commands
  <2> QED
    BY <1>2, <1>3, <1>4, <1>5, <2>1, FS_AddElement
<1>6. CASE l.line # "zrecv"
  <2>1. Commands(Append(q, l)) = Commands(q)
    BY <1>1, <1>6 DEF Commands
  <2> QED
    BY <1>2, <1>3, <1>6, <2>1
<1> QED
  BY <1>2, <1>3, <1>5, <1>6

\* The commands that are left when a line has been read.
LEMMA CommandsRead ==
    ASSUME NEW q \in Seq(Line), q # <<>>
    PROVE  Cardinality(Commands(Tail(q))) =
               Cardinality(Commands(q)) - IF Head(q).line = "zrecv" THEN 1 ELSE 0
<1>1. /\ Len(q) \in Nat /\ DOMAIN q = 1 .. Len(q) /\ Len(q) >= 1
      /\ DOMAIN Tail(q) = 1 .. Len(q) - 1
      /\ \A i \in 1 .. Len(q) - 1 : Tail(q)[i] = q[i + 1]
      /\ Head(q) = q[1]
  OBVIOUS
<1> DEFINE C == Commands(q)
           T == Commands(Tail(q))
           R == C \ {1}
           f == [i \in T |-> i + 1]
<1>2. IsFiniteSet(C) /\ Cardinality(C) \in Nat
  <2>1. IsFiniteSet(1 .. Len(q))
    BY <1>1, FS_Interval
  <2>2. C \subseteq 1 .. Len(q)
    BY <1>1 DEF Commands
  <2>3. IsFiniteSet(C)
    BY <2>1, <2>2, FS_Subset
  <2> QED
    BY <2>3, FS_CardinalityType
<1>3. \A i : i \in T <=> i \in 1 .. Len(q) - 1 /\ q[i + 1].line = "zrecv"
  BY <1>1 DEF Commands
<1>4. \A i : i \in R <=> i \in 2 .. Len(q) /\ q[i].line = "zrecv"
  BY <1>1 DEF Commands
<1> HIDE DEF T, R, C
<1>5. f \in [T -> R]
  BY <1>1, <1>3, <1>4
<1>6. \A i, j \in T : f[i] = f[j] => i = j
  BY <1>1, <1>3
<1>7. \A k \in R : \E i \in T : f[i] = k
  <2> SUFFICES ASSUME NEW k \in R PROVE \E i \in T : f[i] = k
    OBVIOUS
  <2>1. k - 1 \in T /\ k - 1 + 1 = k
    BY <1>1, <1>3, <1>4
  <2> QED
    BY <2>1
<1> HIDE DEF f
<1>8. f \in Bijection(T, R)
  BY <1>5, <1>6, <1>7, Fun_IsBij
<1>9. IsFiniteSet(R)
  <2>1. R \subseteq C
    BY DEF R
  <2> QED
    BY <1>2, <2>1, FS_Subset
<1>10. Cardinality(T) = Cardinality(R)
  <2>1. ExistsBijection(T, R)
    BY <1>8 DEF ExistsBijection
  <2>2. ExistsBijection(R, T)
    BY <2>1, Fun_ExistsBijSymmetric
  <2> QED
    BY <1>9, <2>2, FS_Bijection
<1>11. CASE q[1].line = "zrecv"
  <2>1. 1 \in C
    BY <1>1, <1>11 DEF C, Commands
  <2>2. Cardinality(R) = Cardinality(C) - 1
    BY <1>2, <2>1, FS_RemoveElement DEF R
  <2> QED
    BY <1>1, <1>10, <1>11, <2>2 DEF C, T
<1>12. CASE q[1].line # "zrecv"
  <2>1. R = C
    BY <1>12 DEF R, C, Commands
  <2> QED
    BY <1>1, <1>2, <1>10, <1>12, <2>1 DEF C, T
<1> QED
  BY <1>11, <1>12

\* A file has a length that is not 0.
LEMMA LengthCounts ==
    ASSUME NEW len \in Lengths
    PROVE  len.chunks \in Nat /\ len.chunks > 0
<1>1. PICK f \in Files : len = Length(f)
  BY DEF Lengths
<1>2. f # <<>> /\ f \in Seq(ToSet(f)) /\ len.chunks = Len(f)
  BY <1>1, FilesAssumption DEF Length
<1>3. Len(f) \in Nat /\ Len(f) # 0
  BY <1>2, EmptySeq
<1> QED
  BY <1>2, <1>3

\* There is a length to announce.
LEMMA NoUploadTyped ==
    /\ DOMAIN NoUpload = {"pc", "name", "length", "crc", "got"}
    /\ NoUpload.pc = "shell" /\ NoUpload.length \in Lengths /\ NoUpload.got = <<>>
<1>1. Lengths # {}
  BY FilesAssumption DEF Lengths
<1>2. (CHOOSE l \in Lengths : TRUE) \in Lengths
  BY <1>1
<1> QED
  BY <1>2 DEF NoUpload

\* A line that is sent, whole or damaged, is at most one line, and a command
\* only if it was one.
LEMMA CommandsGrow ==
    ASSUME FilesTyped, LineTyped, NEW l \in Line, send(l)
    PROVE  /\ Cardinality(Commands(toGuest)) \in Nat
           /\ Cardinality(Commands(toGuest')) \in Nat
           /\ Cardinality(Commands(toGuest')) <=
                  Cardinality(Commands(toGuest)) + IF l.line = "zrecv" THEN 1 ELSE 0
<1>1. toGuest \in Seq(Line) /\ toGuest' \in Seq(Line)
  BY SendKeeps DEF LineTyped
<1>2. Cardinality(Commands(toGuest)) \in Nat /\ Cardinality(Commands(toGuest')) \in Nat
  <2>1. \A q \in Seq(Line) : Cardinality(Commands(q)) \in Nat
    BY CommandsSent
  <2> QED
    BY <1>1, <2>1
<1>3. ASSUME NEW e \in Line, e.line = "zrecv" => l.line = "zrecv",
             toGuest' = Append(toGuest, e)
      PROVE  Cardinality(Commands(toGuest')) <=
                 Cardinality(Commands(toGuest)) + IF l.line = "zrecv" THEN 1 ELSE 0
  <2>1. Cardinality(Commands(Append(toGuest, e))) =
            Cardinality(Commands(toGuest)) + IF e.line = "zrecv" THEN 1 ELSE 0
    BY <1>1, CommandsSent
  <2> QED
    BY <1>2, <1>3, <2>1
<1>4. CASE toGuest' = Append(toGuest, l)
  BY <1>2, <1>3, <1>4
<1>5. ASSUME NEW d \in Damaged(l), toGuest' = toGuest \o d
      PROVE  Cardinality(Commands(toGuest')) <=
                 Cardinality(Commands(toGuest)) + IF l.line = "zrecv" THEN 1 ELSE 0
  <2>1. CASE d = <<>>
    <3>1. toGuest' = toGuest
      BY <1>1, <1>5, <2>1
    <3> QED
      BY <1>2, <3>1
  <2>2. ASSUME NEW e \in Line, e.line = "zrecv" => l.line = "zrecv", d = <<e>>
        PROVE  toGuest' = Append(toGuest, e)
    <3>1. toGuest' = toGuest \o <<e>>
      BY <1>5, <2>2
    <3> QED
      BY <1>1, <3>1, AppendIsConcat
  <2>3. \/ d = <<>>
        \/ \E e \in Line : (e.line = "zrecv" => l.line = "zrecv") /\ d = <<e>>
    <3>1. Junk \in Line /\ Junk.line # "zrecv"
      BY DEF Line, Junk
    <3>2. CASE l.line = "zrecv"
      <4>1. l \in [line : {"zrecv"}, name : Names, length : Lengths, crc : Files]
        BY <3>2 DEF Line, Junk
      <4>2. \A n \in Names : [l EXCEPT !.name = n] \in Line
        BY <4>1 DEF Line
      <4>3. \A len \in Lengths : [l EXCEPT !.length = len] \in Line
        BY <4>1 DEF Line
      <4> DEFINE Single(e) == <<e>>
      <4>4. \/ d = <<>> \/ d = Single(Junk)
            \/ \E n \in Names : d = Single([l EXCEPT !.name = n])
            \/ \E len \in Lengths : d = Single([l EXCEPT !.length = len])
        BY <3>2 DEF Damaged
      <4> HIDE DEF Single
      <4>5. d = <<>> \/ \E e \in Line : d = Single(e)
        BY <3>1, <4>2, <4>3, <4>4
      <4> QED
        BY <3>2, <4>5 DEF Single
    <3>3. CASE l.line # "zrecv"
      <4>1. \A c \in Noise : ChunkLine(c) \in Line /\ ChunkLine(c).line # "zrecv"
        BY DEF Line, ChunkLine, Chunks
      <4> DEFINE Single(e) == <<e>>
      <4>2. \/ d = <<>> \/ d = Single(Junk)
            \/ \E c \in Noise : d = Single(ChunkLine(c))
        BY <3>3 DEF Damaged
      <4> HIDE DEF Single
      <4>3. d = <<>> \/ \E e \in Line : e.line # "zrecv" /\ d = Single(e)
        BY <3>1, <4>1, <4>2
      <4> QED
        BY <4>3 DEF Single
    <3> QED
      BY <3>2, <3>3
  <2> QED
    BY <1>3, <2>1, <2>2, <2>3
<1> QED
  BY <1>2, <1>4, <1>5 DEF send

\* What zrecv holds is a beginning of what was announced.
LEMMA RecvStaysTyped ==
    ASSUME Inv, RecvTyped, [Next]_vars
    PROVE  RecvTyped'
<1>1. recv' = recv => RecvTyped'
  BY DEF RecvTyped
<1>2. recv' = NoUpload => RecvTyped'
  <2> SUFFICES ASSUME recv' = NoUpload PROVE RecvTyped'
    OBVIOUS
  <2>1. <<>> \in Seq(Chunks) /\ Len(<<>>) = 0
    OBVIOUS
  <2>2. NoUpload.length.chunks \in Nat
    BY NoUploadTyped, LengthCounts
  <2> QED
    BY <2>1, <2>2, NoUploadTyped DEF RecvTyped
<1>3. toGuest # <<>> => Head(toGuest) \in Line
  BY HeadTailProperties DEF Inv, LineTyped
<1>4. CASE zrecv_begin
  <2>1. toGuest # <<>> /\ Head(toGuest).line = "zrecv"
    BY <1>4 DEF zrecv_begin
  <2>2. Head(toGuest).length \in Lengths
    BY <1>3, <2>1 DEF Line, Junk
  <2>3. CASE recv' = [pc |-> "chunk", name |-> Head(toGuest).name,
                      length |-> Head(toGuest).length,
                      crc |-> Head(toGuest).crc, got |-> <<>>]
    <3>1. <<>> \in Seq(Chunks) /\ Len(<<>>) = 0
      OBVIOUS
    <3>2. Head(toGuest).length.chunks \in Nat /\ Head(toGuest).length.chunks > 0
      BY <2>2, LengthCounts
    <3>3. /\ DOMAIN recv' = {"pc", "name", "length", "crc", "got"}
          /\ recv'.pc = "chunk" /\ recv'.length = Head(toGuest).length
          /\ recv'.got = <<>>
      BY <2>3
    <3> QED
      BY <2>2, <3>1, <3>2, <3>3 DEF RecvTyped
  <2> QED
    BY <1>1, <1>4, <2>3 DEF zrecv_begin
<1>5. CASE zrecv_chunk
  <2>1. /\ recv.pc = "chunk" /\ toGuest # <<>> /\ IsExpected(Head(toGuest))
    BY <1>5 DEF zrecv_chunk
  <2>2. Head(toGuest).chunk \in Chunks
    BY <1>3, <2>1 DEF IsExpected, Line, Junk
  <2> DEFINE got == Append(recv.got, Head(toGuest).chunk)
  <2>3. \/ recv' = NoUpload
        \/ recv' = [recv EXCEPT !.got = got,
                                !.pc = IF Len(got) = recv.length.chunks
                                       THEN "finish" ELSE "chunk"]
    BY <1>5 DEF zrecv_chunk
  <2>4. /\ recv.got \in Seq(Chunks) /\ Len(recv.got) < recv.length.chunks
        /\ recv.length.chunks \in Nat
    BY <2>1, LengthCounts DEF RecvTyped
  <2>5. got \in Seq(Chunks) /\ Len(got) = Len(recv.got) + 1 /\ Len(recv.got) \in Nat
    BY <2>2, <2>4, AppendProperties
  <2> HIDE DEF got
  <2>6. CASE recv' = [recv EXCEPT !.got = got,
                                  !.pc = IF Len(got) = recv.length.chunks
                                         THEN "finish" ELSE "chunk"]
    <3>1. /\ DOMAIN recv' = {"pc", "name", "length", "crc", "got"}
          /\ recv'.length = recv.length /\ recv'.got = got
          /\ recv'.pc = IF Len(got) = recv.length.chunks THEN "finish" ELSE "chunk"
      BY <2>6 DEF RecvTyped
    <3>2. Len(got) <= recv.length.chunks
      BY <2>4, <2>5
    <3>3. recv'.pc \in {"shell", "chunk", "finish"}
          /\ (recv'.pc = "chunk" => Len(got) < recv.length.chunks)
      BY <2>4, <2>5, <3>1, <3>2
    <3> QED
      BY <2>5, <3>1, <3>2, <3>3 DEF RecvTyped
  <2> QED
    BY <1>2, <2>3, <2>6
<1>6. CASE zrecv_malformed \/ zrecv_timeout \/ zrecv_finish
  BY <1>2, <1>6 DEF zrecv_malformed, zrecv_timeout, zrecv_finish
<1>7. CASE \/ ShellIgnores \/ Others \/ Host \/ UNCHANGED vars
           \/ \E n \in Names, f \in Files : HostStarts(n, f)
  BY <1>1, <1>7 DEF ShellIgnores, Others, uploadVars, Host, HostReads,
                    HostGoesOn, HostGivesUp, HostStarts, vars
<1> QED
  BY <1>4, <1>5, <1>6, <1>7 DEF Next, zrecv_serial

\* The partition never holds more records than it has room for.
LEMMA StoreStaysTyped ==
    ASSUME Inv, ListInv, StoreTyped, [Next]_vars
    PROVE  StoreTyped'
<1>1. FilesTyped /\ EditTyped /\ LineTyped
  BY DEF Inv
<1>2. UNCHANGED <<log, catalog, edit>> => StoreTyped'
  BY DEF StoreTyped
<1>3. ASSUME NEW n \in Names, NEW x \in Files \union {Deleted},
             NEW ending \in Endings, append(n, x, ending)
      PROVE  /\ Len(log') <= MaxRecords /\ catalog'.items \in Seq(Record)
             /\ DOMAIN catalog' = {"valid", "items"}
  <2>1. log \in Seq(Record) /\ Len(log) < MaxRecords /\ MaxRecords \in Nat
    BY <1>1, <1>3, FilesAssumption DEF append, FilesTyped
  <2>2. log' = log \/ log' = Append(log, [name |-> n, x |-> x])
    BY <1>3 DEF append
  <2>3. Len(log') <= MaxRecords
    <3> DEFINE r == [name |-> n, x |-> x]
    <3>1. r \in Record
      BY DEF Record
    <3> HIDE DEF r
    <3>2. Len(Append(log, r)) = Len(log) + 1 /\ Len(log) \in Nat
      BY <2>1, <3>1, AppendProperties
    <3>3. log' = log \/ log' = Append(log, r)
      BY <2>2 DEF r
    <3> QED
      BY <2>1, <3>2, <3>3
  <2>4. catalog' = catalog \/ catalog' = [catalog EXCEPT !.valid = FALSE]
    BY <1>3 DEF append
  <2>5. catalog'.items = catalog.items /\ DOMAIN catalog' = {"valid", "items"}
    BY <2>4 DEF StoreTyped
  <2> QED
    BY <2>3, <2>5 DEF StoreTyped
<1>4. CASE Others
  <2>1. CASE FilesFind \/ DirExists
    <3> DEFINE items == IF ~part THEN <<>>
                        ELSE IF catalog.valid THEN catalog.items ELSE CatalogOf(log)
    <3>1. UNCHANGED <<log, edit>> /\ \E cut \in Nat : source_list_cache_build(cut)
      BY <2>1, FilesAssumption DEF FilesFind, DirExists
    <3>2. catalog' = catalog \/ catalog' = [valid |-> TRUE, items |-> items]
      BY <3>1 DEF source_list_cache_build
    <3>3. CatalogOf(log) \in Seq(Record)
      BY <1>1, CatalogDescribes DEF FilesTyped, Describes
    <3>4. items \in Seq(Record)
      BY <3>3 DEF StoreTyped
    <3> HIDE DEF items
    <3>5. DOMAIN catalog' = {"valid", "items"} /\ catalog'.items \in Seq(Record)
      BY <3>2, <3>4 DEF StoreTyped
    <3> QED
      BY <3>1, <3>5 DEF StoreTyped
  <2>2. ASSUME NEW n \in Names, NEW f \in Files, FileWrite(n, f)
        PROVE  StoreTyped'
    <3>1. edit' = edit /\ \E ending \in Endings : append(n, f, ending)
      BY <2>2 DEF FileWrite
    <3> QED
      BY <1>3, <3>1 DEF StoreTyped
  <2>3. ASSUME NEW n \in Names, NEW f \in Files, FileWriteLegacy(n, f)
        PROVE  StoreTyped'
    BY <1>2, <2>3 DEF FileWriteLegacy
  <2>4. ASSUME NEW n \in Names, Zrm(n)
        PROVE  StoreTyped'
    <3>1. edit' = edit /\ \E ending \in Endings : append(n, Deleted, ending)
      BY <2>4 DEF Zrm
    <3> QED
      BY <1>3, <3>1 DEF StoreTyped
  <2>5. CASE Zgc
    <3>1. UNCHANGED <<catalog, edit>>
      BY <2>5 DEF Zgc
    <3>2. log \in Seq(Record) /\ log' \in Seq(Record)
      BY <1>1, <2>5, ZgcFinds DEF FilesTyped
    <3>3. PICK m \in 0 .. Len(log) : DOMAIN log' = 1 .. m
      BY <2>5 DEF Zgc
    <3>4. Len(log') = m
      BY <3>2, <3>3
    <3> QED
      BY <3>1, <3>2, <3>4, FilesAssumption DEF StoreTyped
  <2>6. ASSUME NEW n \in Names, zedit_start(n)
        PROVE  StoreTyped'
    <3>1. edit'.text \in Files \union {<<>>} /\ UNCHANGED <<log, catalog>>
      BY <2>6 DEF zedit_start
    <3> QED
      BY <3>1 DEF StoreTyped
  <2>7. CASE zedit_change
    <3>1. PICK t \in Files \union {<<>>} :
              edit' = [edit EXCEPT !.text = t, !.dirty = TRUE]
      BY <2>7 DEF zedit_change
    <3>2. edit \in Opened /\ UNCHANGED <<log, catalog>>
      BY <1>1, <2>7 DEF zedit_change, EditTyped, Opened
    <3>3. edit'.text = t
      BY <3>1, <3>2 DEF Opened
    <3> QED
      BY <3>2, <3>3 DEF StoreTyped
  <2>8. Closed.text = <<>>
    BY DEF Closed
  <2>9. ASSUME NEW b \in BOOLEAN, zedit_quit(b)
        PROVE  StoreTyped'
    <3>1. edit' = Closed /\ UNCHANGED <<log, catalog>>
      BY <2>9 DEF zedit_quit
    <3> QED
      BY <2>8, <3>1 DEF StoreTyped
  <2>10. ASSUME NEW b \in BOOLEAN, zedit_save(b)
         PROVE  StoreTyped'
    <3>1. edit \in Opened
      BY <1>1, <2>10 DEF zedit_save, EditTyped, Opened
    <3>2. CASE edit' = Closed /\ UNCHANGED <<log, catalog>>
      BY <2>8, <3>2 DEF StoreTyped
    <3>3. ASSUME NEW ending \in Endings, edit.text # <<>>,
                 append(edit.name, edit.text, ending),
                 \/ edit' = edit
                 \/ edit' = Closed
                 \/ edit' = [edit EXCEPT !.dirty = FALSE, !.existed = TRUE]
          PROVE  StoreTyped'
      <4>1. edit.name \in Names /\ edit.text \in Files \union {Deleted}
        BY <3>1, <3>3 DEF Opened
      <4>2. edit'.text \in Files \union {<<>>}
        BY <2>8, <3>1, <3>3 DEF Opened
      <4> QED
        BY <1>3, <3>3, <4>1, <4>2 DEF StoreTyped
    <3> QED
      BY <2>10, <3>2, <3>3 DEF zedit_save
  <2> QED
    BY <1>4, <2>1, <2>2, <2>3, <2>4, <2>5, <2>6, <2>7, <2>9, <2>10
       DEF Others, TaskCall, ShellCommand
<1>5. CASE zrecv_finish
  <2>1. edit' = edit /\ recv.name \in Names /\ recv.crc \in Files
    BY <1>1, <1>5 DEF zrecv_finish, LineTyped
  <2>2. \/ UNCHANGED <<log, catalog>>
        \/ \E ending \in Endings :
               recv.got = recv.crc /\ append(recv.name, recv.got, ending)
    BY <1>5 DEF zrecv_finish
  <2>3. ASSUME NEW ending \in Endings, recv.got = recv.crc,
               append(recv.name, recv.got, ending)
        PROVE  StoreTyped'
    BY <1>3, <2>1, <2>3 DEF StoreTyped
  <2> QED
    BY <1>2, <2>1, <2>2, <2>3
<1>6. CASE \/ zrecv_begin \/ ShellIgnores \/ zrecv_chunk \/ zrecv_malformed
           \/ zrecv_timeout
  BY <1>2, <1>6 DEF zrecv_begin, ShellIgnores, zrecv_chunk, zrecv_malformed,
                    zrecv_timeout, fileVars
<1>7. CASE Host \/ \E n \in Names, f \in Files : HostStarts(n, f)
  BY <1>2, <1>7 DEF Host, HostReads, HostGoesOn, HostGivesUp, HostStarts, fileVars
<1>8. CASE UNCHANGED vars
  BY <1>2, <1>8 DEF vars, fileVars
<1> QED
  BY <1>4, <1>5, <1>6, <1>7, <1>8 DEF Next, zrecv_serial

\* A step of the tasks or of the shell saves only below its bound, and every
\* other save answers a command.
LEMMA CountsStay ==
    ASSUME Inv, ListInv, RecvTyped, Counted, [Next]_vars
    PROVE  Counted'
<1>1. FilesTyped /\ LineTyped
  BY DEF Inv
<1> DEFINE C == Cardinality(Commands(toGuest))
           D == Cardinality(Commands(toGuest'))
<1>2. toGuest \in Seq(Line) /\ \A q \in Seq(Line) : Cardinality(Commands(q)) \in Nat
  <2>1. Junk \in Line
    BY DEF Line
  <2>2. \A q \in Seq(Line) : Cardinality(Commands(q)) \in Nat
    BY <2>1, CommandsSent
  <2> QED
    BY <1>1, <2>2 DEF LineTyped
<1>3. C \in Nat
  BY <1>2
<1>4. /\ budget.saves \in Nat /\ budget.uploads \in Nat /\ revision \in Nat
      /\ uploads \in Nat /\ budget \in Budgets
  BY FilesAssumption DEF Counted, ListInv
<1>5. /\ Outstanding = C + (IF recv.pc = "shell" THEN 0 ELSE 1)
      /\ Outstanding' = D + (IF recv'.pc = "shell" THEN 0 ELSE 1)
  BY DEF Outstanding
<1>6. toGuest # <<>> =>
          Cardinality(Commands(Tail(toGuest))) =
              C - IF Head(toGuest).line = "zrecv" THEN 1 ELSE 0
  BY <1>2, CommandsRead
<1>7. /\ uploads <= budget.uploads /\ Outstanding <= uploads
      /\ revision + Outstanding <= budget.saves + uploads
  BY DEF Counted
<1>8. NoUpload.pc = "shell"
  BY NoUploadTyped
<1>9. \A n, x, ending : append(n, x, ending) => revision' \in {revision, revision + 1}
  BY DEF append
<1>10. toGuest' \in Seq(Line) => D \in Nat
  BY <1>2
<1> HIDE DEF C, D
<1>11. ASSUME budget' = budget, uploads' \in {uploads, uploads + 1},
              uploads' <= budget.uploads, Outstanding' <= uploads',
              revision' + Outstanding' <= budget.saves + uploads'
       PROVE  Counted'
  BY <1>4, <1>11 DEF Counted
<1>12. CASE /\ UNCHANGED <<budget, uploads, revision>> /\ D \in Nat
            /\ Outstanding' <= Outstanding
  BY <1>3, <1>4, <1>5, <1>7, <1>11, <1>12
<1>13. CASE /\ UNCHANGED <<budget, uploads, toGuest, recv>>
            /\ \/ revision' = revision
               \/ revision < budget.saves /\ revision' = revision + 1
  <2>1. Outstanding' = Outstanding
    BY <1>5, <1>13 DEF C, D
  <2> QED
    BY <1>3, <1>4, <1>5, <1>7, <1>11, <1>13, <2>1
<1>14. CASE Others
  <2>1. UNCHANGED <<uploads, toGuest, recv>>
    BY <1>14 DEF Others, uploadVars
  <2>2. budget' = budget
    BY <1>14 DEF Others, TaskCall, ShellCommand, FilesFind, DirExists, FileWrite,
           FileWriteLegacy, Zrm, zedit_start, Zgc, zedit_change, zedit_save,
           zedit_quit
  <2>3. \/ revision' = revision
        \/ revision < budget.saves /\ \E n, x, ending : append(n, x, ending)
    BY <1>14 DEF Others, TaskCall, ShellCommand, FilesFind, DirExists, FileWrite,
           FileWriteLegacy, Zrm, zedit_start, Zgc, zedit_change, zedit_save,
           zedit_quit
  <2> QED
    BY <1>9, <1>13, <2>1, <2>2, <2>3
<1>15. CASE zrecv_begin
  <2>1. /\ UNCHANGED <<budget, uploads, revision>> /\ recv.pc = "shell"
        /\ toGuest # <<>> /\ Head(toGuest).line = "zrecv" /\ toGuest' = Tail(toGuest)
    BY <1>15 DEF zrecv_begin
  <2>2. D = C - 1
    BY <1>6, <2>1 DEF D
  <2>3. D \in Nat
    BY <1>2, <1>10, <2>1, HeadTailProperties
  <2>4. Outstanding' <= Outstanding
    BY <1>3, <1>5, <2>1, <2>2, <2>3
  <2> QED
    BY <1>12, <2>1, <2>3, <2>4
<1>16. CASE ShellIgnores \/ zrecv_chunk \/ zrecv_malformed
  <2>1. /\ UNCHANGED <<budget, uploads, revision>> /\ toGuest # <<>>
        /\ toGuest' = Tail(toGuest)
        /\ recv'.pc = "shell" \/ recv.pc # "shell"
    BY <1>8, <1>16 DEF ShellIgnores, zrecv_chunk, zrecv_malformed, fileVars
  <2>2. D <= C
    BY <1>3, <1>6, <2>1 DEF D
  <2>3. D \in Nat
    BY <1>2, <1>10, <2>1, HeadTailProperties
  <2>4. Outstanding' <= Outstanding
    BY <1>3, <1>5, <2>1, <2>2, <2>3
  <2> QED
    BY <1>12, <2>1, <2>3, <2>4
<1>17. CASE zrecv_timeout
  <2>1. UNCHANGED <<budget, uploads, revision, toGuest>> /\ recv'.pc = "shell"
    BY <1>8, <1>17 DEF zrecv_timeout, fileVars
  <2>2. D = C
    BY <2>1 DEF C, D
  <2>3. Outstanding' <= Outstanding
    BY <1>3, <1>5, <2>1, <2>2
  <2> QED
    BY <1>3, <1>12, <2>1, <2>2, <2>3
<1>18. CASE zrecv_finish
  <2>1. /\ UNCHANGED <<budget, uploads, toGuest>> /\ recv'.pc = "shell"
        /\ recv.pc = "finish" /\ recv.pc # "shell"
    BY <1>8, <1>18 DEF zrecv_finish
  <2>2. D = C
    BY <2>1 DEF C, D
  <2>3. revision' = revision \/ \E n, x, ending : append(n, x, ending)
    BY <1>18 DEF zrecv_finish
  <2>4. revision' \in {revision, revision + 1}
    BY <1>9, <2>3
  <2>5. Outstanding' = Outstanding - 1 /\ Outstanding \in Nat
    BY <1>3, <1>5, <2>1, <2>2
  <2> QED
    BY <1>4, <1>7, <1>11, <2>1, <2>4, <2>5
<1>19. CASE HostReads \/ HostGivesUp \/ UNCHANGED vars
  <2>1. UNCHANGED <<budget, uploads, revision, toGuest, recv>>
    BY <1>19 DEF HostReads, HostGivesUp, vars, fileVars, uploadVars
  <2> QED
    BY <1>13, <2>1
<1>20. ASSUME NEW l \in Line, send(l)
       PROVE  D \in Nat /\ D <= C + IF l.line = "zrecv" THEN 1 ELSE 0
  BY <1>1, <1>20, CommandsGrow DEF C, D
<1>21. CASE HostGoesOn
  <2>1. UNCHANGED <<budget, uploads, revision, recv>>
    BY <1>21 DEF HostGoesOn
  <2>2. CASE toGuest' = toGuest
    BY <1>13, <2>1, <2>2
  <2>3. CASE host.sent < Len(host.file) /\ send(ChunkLine(host.file[host.sent + 1]))
    <3>1. ChunkLine(host.file[host.sent + 1]) \in Line
      BY <1>1, <2>3, NextIsLine
    <3>2. ChunkLine(host.file[host.sent + 1]).line # "zrecv"
      BY DEF ChunkLine
    <3>3. D \in Nat /\ D <= C
      BY <1>3, <1>20, <2>3, <3>1, <3>2
    <3>4. Outstanding' <= Outstanding
      BY <1>3, <1>5, <2>1, <3>3
    <3> QED
      BY <1>12, <2>1, <3>3, <3>4
  <2>4. \/ toGuest' = toGuest
        \/ host.sent < Len(host.file) /\ send(ChunkLine(host.file[host.sent + 1]))
    BY <1>21, Zenon DEF HostGoesOn
  <2> QED
    BY <2>2, <2>3, <2>4
<1>22. ASSUME NEW n \in Names, NEW f \in Files, HostStarts(n, f)
       PROVE  Counted'
  <2>1. /\ UNCHANGED <<budget, revision, recv>> /\ uploads' = uploads + 1
        /\ uploads < budget.uploads /\ send(Command(n, f))
    BY <1>22 DEF HostStarts
  <2>2. Command(n, f) \in Line
    BY DEF Command, Line, Lengths
  <2>3. D \in Nat /\ D <= C + 1
    BY <1>3, <1>20, <2>1, <2>2
  <2>4. Outstanding' <= Outstanding + 1 /\ Outstanding' \in Nat /\ Outstanding \in Nat
    BY <1>3, <1>5, <2>1, <2>3
  <2> QED
    BY <1>4, <1>7, <1>11, <2>1, <2>4
<1> QED
  BY <1>14, <1>15, <1>16, <1>17, <1>18, <1>19, <1>21, <1>22
     DEF Next, zrecv_serial, Host

\* What an announced command brought is within the bounds of the behaviour.
LEMMA CountsBound ==
    ASSUME Inv, ListInv, RecvTyped, Counted
    PROVE  revision \in 0 .. budget.saves + budget.uploads
<1>1. toGuest \in Seq(Line) /\ Junk \in Line
  BY DEF Inv, LineTyped, Line
<1>2. Cardinality(Commands(toGuest)) \in Nat
  BY <1>1, CommandsSent
<1>3. Outstanding \in Nat
  BY <1>2 DEF Outstanding
<1>4. budget.saves \in Nat /\ budget.uploads \in Nat
  BY FilesAssumption DEF Counted
<1> QED
  BY <1>3, <1>4 DEF Counted, ListInv

\* The shell, the tasks and zrecv keep the types, and the bounds of the
\* partition, of an upload and of the number of saves.
StateInv == Inv /\ ListInv /\ RecvTyped /\ StoreTyped /\ Counted

LEMMA StateStays ==
    StateInv /\ [Next]_vars => StateInv'
  BY OthersKeep, RecvKeeps, HostKeeps, StutterKeeps, StepKeepsList, RecvStaysTyped,
     StoreStaysTyped, CountsStay DEF StateInv, Next

LEMMA StateStarts ==
    Init => StateInv
<1> SUFFICES ASSUME Init PROVE StateInv
  OBVIOUS
<1>1. Inv /\ ListInv
  BY InitKeeps, ListStarts
<1>2. RecvTyped
  <2>1. recv = NoUpload /\ <<>> \in Seq(Chunks) /\ Len(<<>>) = 0
    BY DEF Init
  <2>2. NoUpload.length.chunks \in Nat
    BY NoUploadTyped, LengthCounts
  <2> QED
    BY <2>1, <2>2, NoUploadTyped DEF RecvTyped
<1>3. StoreTyped
  <2>1. /\ log = <<>> /\ catalog = [valid |-> FALSE, items |-> <<>>]
        /\ edit.text = <<>>
    BY DEF Init, FilesInit, Closed
  <2> QED
    BY <2>1, FilesAssumption DEF StoreTyped
<1>4. Counted
  <2>1. toGuest = <<>> /\ recv.pc = "shell" /\ uploads = 0 /\ revision = 0
    BY NoUploadTyped DEF Init, FilesInit
  <2>2. Commands(<<>>) = {}
    BY DEF Commands
  <2>3. Outstanding = 0
    BY <2>1, <2>2, FS_EmptySet DEF Outstanding
  <2>4. budget \in Budgets /\ budget.saves \in Nat /\ budget.uploads \in Nat
    BY FilesAssumption DEF Init, FilesInit
  <2> QED
    BY <2>1, <2>3, <2>4 DEF Counted
<1> QED
  BY <1>1, <1>2, <1>3, <1>4 DEF StateInv

\* The partition, the caches, the editor and zrecv keep their types for any
\* bounds: no more records than there is room for, no more chunks than were
\* announced, and no more saves than were asked for.
THEOREM StateTyped ==
    Spec => []TypeOK
<1>1. StateInv => TypeOK
  <2> SUFFICES ASSUME StateInv PROVE TypeOK
    OBVIOUS
  <2>1. revision \in 0 .. budget.saves + budget.uploads
    BY CountsBound DEF StateInv
  <2>2. cache.revision \in 0 .. revision
    BY DEF StateInv, ListInv
  <2> QED
    BY <2>1, <2>2 DEF StateInv, Inv, FilesTyped, RecvTyped, StoreTyped, TypeOK
<1> QED
  BY <1>1, StateStarts, StateStays, PTL DEF Spec

-----------------------------------------------------------------------------
(* The first upload.                                                       *)

\* The guest's messages.
Message ==
    [text : {"ready"}] \union [text : {"ack"}, sent : Nat, width : {"short", "full"}]
    \union [text : {"saved"}, name : Names, length : Lengths] \union {Error, Other}

\* The messages that announce no file but the host's, once it is stored, and
\* the lines that command no other.
Honest == {m \in Message : m.text = "saved" => <<m.name, host.file>> \in stored}
OfHost == {l \in Line : l.line = "zrecv" => l.crc = host.file}

\* Until the host starts again, every checksum on the way is the one of its
\* file: whatever a damaged line says, no other content is acknowledged.
FirstInv ==
    /\ DOMAIN host = {"pc", "name", "file", "sent", "last", "pending", "told"}
    /\ uploads \in Nat
    /\ uploads = 0 =>
         /\ toGuest = <<>> /\ toHost = <<>> /\ recv.pc = "shell"
         /\ host.pending = <<>> /\ host.told = FALSE
    /\ uploads <= 1 =>
         /\ toGuest \in Seq(OfHost)
         /\ recv.pc # "shell" => recv.crc = host.file
         /\ toHost \in Seq(Honest) /\ host.pending \in Seq(Honest)
         /\ host.told => <<host.name, host.file>> \in stored

\* A sequence stays one of a larger set.
LEMMA SeqOfMore ==
    ASSUME NEW S, NEW T, S \subseteq T, NEW q \in Seq(S)
    PROVE  q \in Seq(T)
<1>1. \A i \in 1 .. Len(q) : q[i] \in T
  BY ElementOfSeq
<1> QED
  BY <1>1, SeqDef

\* Damage changes neither what a command announces as its checksum, nor a
\* chunk into a command.
LEMMA SendOfHost ==
    ASSUME FilesTyped, LineTyped, NEW l \in Line, send(l), NEW S,
           toGuest \in Seq(S), l \in S, NEW F,
           l.line = "zrecv" => l.crc = F,
           S = {e \in Line : e.line = "zrecv" => e.crc = F}
    PROVE  toGuest' \in Seq(S)
<1>1. CASE toGuest' = Append(toGuest, l)
  BY <1>1, AppendProperties
<1>2. ASSUME NEW d \in Damaged(l)
      PROVE  d \in Seq(S)
  <2>1. Junk \in S
    BY DEF Line, Junk
  <2> DEFINE Single(e) == <<e>>
  <2>2. \A e \in S : Single(e) \in Seq(S)
    OBVIOUS
  <2>3. <<>> \in Seq(S)
    OBVIOUS
  <2>4. CASE l.line = "zrecv"
    <3>1. l \in [line : {"zrecv"}, name : Names, length : Lengths, crc : Files]
      BY <2>4 DEF Line, Junk
    <3>2. \A n \in Names : [l EXCEPT !.name = n] \in S
      BY <2>4, <3>1 DEF Line
    <3>3. \A len \in Lengths : [l EXCEPT !.length = len] \in S
      BY <2>4, <3>1 DEF Line
    <3>4. \/ d = <<>> \/ d = Single(Junk)
          \/ \E n \in Names : d = Single([l EXCEPT !.name = n])
          \/ \E len \in Lengths : d = Single([l EXCEPT !.length = len])
      BY <1>2, <2>4 DEF Damaged
    <3> HIDE DEF Single
    <3> QED
      BY <2>1, <2>2, <2>3, <3>2, <3>3, <3>4
  <2>5. CASE l.line # "zrecv"
    <3>1. \A c \in Noise : ChunkLine(c) \in S
      BY DEF Line, ChunkLine, Chunks
    <3>2. \/ d = <<>> \/ d = Single(Junk)
          \/ \E c \in Noise : d = Single(ChunkLine(c))
      BY <1>2, <2>5 DEF Damaged
    <3> HIDE DEF Single
    <3> QED
      BY <2>1, <2>2, <2>3, <3>1, <3>2
  <2> QED
    BY <2>4, <2>5
<1>3. ASSUME NEW d \in Damaged(l), toGuest' = toGuest \o d
      PROVE  toGuest' \in Seq(S)
  BY <1>2, <1>3, ConcatProperties
<1> QED
  BY <1>1, <1>3 DEF send

\* Where the host finds the text that it waits for.
LEMMA MarkerFound ==
    ASSUME NEW S, NEW q \in Seq(S), NEW m, m \in ToSet(q)
    PROVE  LET at == CHOOSE i \in DOMAIN q :
                         /\ q[i] = m
                         /\ \A j \in 1 .. i - 1 : q[j] # m
           IN  /\ at \in DOMAIN q
               /\ SubSeq(q, at + 1, Len(q)) \in Seq(S)
<1>1. DOMAIN q = 1 .. Len(q) /\ Len(q) \in Nat
  OBVIOUS
<1> DEFINE T == {i \in DOMAIN q : q[i] = m}
<1>2. T \subseteq Nat /\ T # {}
  BY <1>1 DEF ToSet
<1>3. PICK x \in T : \A y \in T : x <= y
  BY <1>2, LeastNumber
<1>4. q[x] = m /\ \A j \in 1 .. x - 1 : q[j] # m
  BY <1>1, <1>3
<1> DEFINE P(i) == q[i] = m /\ \A j \in 1 .. i - 1 : q[j] # m
           at == CHOOSE i \in DOMAIN q : P(i)
<1>5. x \in DOMAIN q /\ P(x)
  BY <1>3, <1>4
<1>6. at \in DOMAIN q
  <2> HIDE DEF P
  <2> QED
    BY <1>5
<1> HIDE DEF at
<1>7. \A i \in at + 1 .. Len(q) : q[i] \in S
  BY <1>1, <1>6, ElementOfSeq
<1>8. SubSeq(q, at + 1, Len(q)) \in Seq(S)
  BY <1>1, <1>6, <1>7, SubSeqProperties
<1> QED
  BY <1>6, <1>8 DEF at

\* A step of the guest or of the tasks: what it says is honest, and the lines
\* it leaves were there.
LEMMA GuestIsHonest ==
    ASSUME FirstInv, UNCHANGED <<host, uploads>>, stored \subseteq stored',
           uploads = 0 => UNCHANGED <<toGuest, toHost>> /\ recv'.pc = "shell",
           uploads <= 1 =>
               /\ toGuest' \in Seq(OfHost)
               /\ recv'.pc # "shell" => recv'.crc = host.file
               /\ \/ toHost' = toHost
                  \/ \E m \in Honest' : toHost' = Append(toHost, m)
    PROVE  FirstInv'
<1>1. Honest \subseteq Honest' /\ OfHost' = OfHost
  BY DEF Honest, OfHost
<1>2. ASSUME uploads <= 1
      PROVE  /\ toGuest' \in Seq(OfHost') /\ toHost' \in Seq(Honest')
             /\ host'.pending \in Seq(Honest')
             /\ recv'.pc # "shell" => recv'.crc = host'.file
             /\ host'.told => <<host'.name, host'.file>> \in stored'
  <2>1. toHost \in Seq(Honest') /\ host.pending \in Seq(Honest')
    BY <1>1, <1>2, SeqOfMore DEF FirstInv
  <2>2. toHost' \in Seq(Honest')
    BY <1>2, <2>1, AppendProperties
  <2>3. toGuest' \in Seq(OfHost')
    BY <1>1, <1>2
  <2> QED
    BY <1>2, <2>1, <2>2, <2>3 DEF FirstInv
<1>3. uploads' = 0 => /\ toGuest' = <<>> /\ toHost' = <<>> /\ recv'.pc = "shell"
                      /\ host'.pending = <<>> /\ host'.told = FALSE
  BY DEF FirstInv
<1> QED
  BY <1>2, <1>3 DEF FirstInv

\* zrecv acknowledges only content with the announced checksum.
LEMMA RecvIsHonest ==
    ASSUME Inv, RecvTyped, FirstInv, zrecv_serial
    PROVE  FirstInv'
<1>1. LineTyped
  BY DEF Inv
<1>2. /\ NoUpload.pc = "shell"
      /\ uploads = 0 => toGuest = <<>> /\ recv.pc = "shell"
  BY NoUploadTyped DEF FirstInv
<1>3. toGuest # <<>> /\ uploads <= 1 =>
          Head(toGuest) \in OfHost /\ Tail(toGuest) \in Seq(OfHost)
  BY HeadTailProperties DEF FirstInv
<1>4. /\ Error \in Honest' /\ Other \in Honest' /\ [text |-> "ready"] \in Honest'
      /\ \A k \in Nat, w \in {"short", "full"} :
             [text |-> "ack", sent |-> k, width |-> w] \in Honest'
  BY DEF Honest, Message, Error, Other
<1>5. CASE zrecv_begin
  <2>1. /\ UNCHANGED <<host, uploads, stored>> /\ toGuest # <<>>
        /\ toGuest' = Tail(toGuest) /\ Head(toGuest).line = "zrecv"
        /\ recv' = recv \/ recv'.crc = Head(toGuest).crc
        /\ toHost' = Append(toHost, Other) \/ toHost' = Append(toHost, [text |-> "ready"])
    BY <1>5 DEF zrecv_begin, say
  <2>2. uploads <= 1 => Head(toGuest).crc = host.file
    BY <1>3, <2>1 DEF OfHost
  <2>3. \E m \in Honest' : toHost' = Append(toHost, m)
    BY <1>4, <2>1
  <2>4. uploads <= 1 => (recv'.pc # "shell" => recv'.crc = host.file)
    BY <2>1, <2>2 DEF FirstInv
  <2> QED
    BY <1>2, <1>3, <2>1, <2>3, <2>4, GuestIsHonest
<1>6. CASE ShellIgnores
  <2>1. /\ UNCHANGED <<host, uploads, stored, recv, toHost>> /\ toGuest # <<>>
        /\ toGuest' = Tail(toGuest)
    BY <1>6 DEF ShellIgnores
  <2>2. uploads <= 1 => (recv'.pc # "shell" => recv'.crc = host.file)
    BY <2>1 DEF FirstInv
  <2> QED
    BY <1>2, <1>3, <2>1, <2>2, GuestIsHonest
<1>7. CASE zrecv_chunk
  <2> DEFINE got == Append(recv.got, Head(toGuest).chunk)
  <2>1. /\ UNCHANGED <<host, uploads, stored>> /\ toGuest # <<>>
        /\ toGuest' = Tail(toGuest) /\ recv.pc = "chunk"
        /\ IsExpected(Head(toGuest))
    BY <1>7 DEF zrecv_chunk
  <2>2. \/ /\ recv' = [recv EXCEPT !.got = got,
                                   !.pc = IF Len(got) = recv.length.chunks
                                          THEN "finish" ELSE "chunk"]
           /\ toHost' = Append(toHost, [text |-> "ack", sent |-> Len(got),
                                        width |-> NextWidth])
        \/ recv' = NoUpload /\ toHost' = Append(toHost, Error)
    BY <1>7 DEF zrecv_chunk, say
  <2>3. Len(got) \in Nat
    <3>1. Head(toGuest) \in Line
      BY <1>1, <2>1, HeadTailProperties DEF LineTyped
    <3>2. Head(toGuest).chunk \in Chunks
      BY <2>1, <3>1 DEF IsExpected, Line, Junk
    <3>3. got \in Seq(Chunks)
      BY <3>2, AppendProperties DEF RecvTyped
    <3> QED
      BY <3>3, LenProperties
  <2> HIDE DEF got
  <2>4. NextWidth \in {"short", "full"}
    <3>1. recv.length.last \in {"short", "full"}
      BY DEF RecvTyped, Lengths, Length, Width
    <3> QED
      BY <3>1 DEF NextWidth
  <2>5. \E m \in Honest' : toHost' = Append(toHost, m)
    BY <1>4, <2>2, <2>3, <2>4
  <2>6. recv'.pc = "shell" \/ recv'.crc = recv.crc
    BY <1>2, <2>2 DEF RecvTyped
  <2>7. uploads <= 1 => (recv'.pc # "shell" => recv'.crc = host.file)
    BY <2>1, <2>6 DEF FirstInv
  <2> QED
    BY <1>2, <1>3, <2>1, <2>5, <2>7, GuestIsHonest
<1>8. CASE zrecv_malformed \/ zrecv_timeout
  <2>1. /\ UNCHANGED <<host, uploads, stored>>
        /\ toGuest' = toGuest \/ (toGuest # <<>> /\ toGuest' = Tail(toGuest))
        /\ recv.pc = "chunk" /\ recv' = NoUpload /\ toHost' = Append(toHost, Error)
    BY <1>8 DEF zrecv_malformed, zrecv_timeout, say
  <2>2. uploads <= 1 => toGuest' \in Seq(OfHost)
    BY <1>3, <2>1 DEF FirstInv
  <2> QED
    BY <1>2, <1>4, <2>1, <2>2, GuestIsHonest
<1>9. CASE zrecv_finish
  <2>1. /\ UNCHANGED <<host, uploads, toGuest>> /\ recv.pc = "finish"
        /\ recv' = NoUpload
    BY <1>9 DEF zrecv_finish
  <2>2. \/ stored' = stored /\ toHost' = Append(toHost, Error)
        \/ /\ recv.got = recv.crc
           /\ stored' = stored \union {<<recv.name, recv.got>>}
           /\ toHost' = Append(toHost, [text |-> "saved", name |-> recv.name,
                                        length |-> recv.length])
    BY <1>9 DEF zrecv_finish, say
  <2>3. uploads <= 1 => recv.crc = host.file /\ toGuest' \in Seq(OfHost)
    BY <2>1 DEF FirstInv
  <2>4. CASE stored' = stored /\ toHost' = Append(toHost, Error)
    BY <1>2, <1>4, <2>1, <2>3, <2>4, GuestIsHonest
  <2>5. CASE /\ recv.got = recv.crc
             /\ stored' = stored \union {<<recv.name, recv.got>>}
             /\ toHost' = Append(toHost, [text |-> "saved", name |-> recv.name,
                                          length |-> recv.length])
    <3>1. [text |-> "saved", name |-> recv.name, length |-> recv.length] \in Message
      BY <1>1, <2>1 DEF Message, LineTyped, RecvTyped
    <3>2. uploads <= 1 => [text |-> "saved", name |-> recv.name,
                           length |-> recv.length] \in Honest'
      BY <2>1, <2>3, <2>5, <3>1 DEF Honest
    <3> QED
      BY <1>2, <2>1, <2>3, <2>5, <3>2, GuestIsHonest
  <2> QED
    BY <2>2, <2>4, <2>5
<1> QED
  BY <1>5, <1>6, <1>7, <1>8, <1>9 DEF zrecv_serial

\* The host sends the checksum of its file, and believes only the guest.
LEMMA HostIsHonest ==
    ASSUME Inv, FirstInv, Host \/ \E n \in Names, f \in Files : HostStarts(n, f)
    PROVE  FirstInv'
<1>1. FilesTyped /\ LineTyped
  BY DEF Inv
<1>2. ASSUME NEW n \in Names, NEW f \in Files, HostStarts(n, f)
      PROVE  FirstInv'
  <2>1. /\ uploads' = uploads + 1 /\ recv' = recv /\ send(Command(n, f))
        /\ toHost' \in {<<>>, toHost}
        /\ host' = [pc |-> "wait", name |-> n, file |-> f, sent |-> 0,
                    last |-> FALSE, pending |-> <<>>, told |-> FALSE]
    BY <1>2 DEF HostStarts
  <2>2. /\ DOMAIN host' = {"pc", "name", "file", "sent", "last", "pending", "told"}
        /\ host'.file = f /\ host'.pending = <<>> /\ host'.told = FALSE
    BY <2>1
  <2>3. uploads \in Nat /\ uploads' \in Nat /\ uploads' # 0
    BY <2>1 DEF FirstInv
  <2>4. ASSUME uploads' <= 1
        PROVE  /\ toGuest' \in Seq(OfHost') /\ toHost' \in Seq(Honest')
               /\ recv'.pc = "shell"
    <3>1. toGuest = <<>> /\ toHost = <<>> /\ recv.pc = "shell"
      BY <2>1, <2>3, <2>4 DEF FirstInv
    <3>2. /\ OfHost' = {e \in Line : e.line = "zrecv" => e.crc = f}
          /\ toGuest \in Seq(OfHost')
      BY <2>2, <3>1 DEF OfHost
    <3>3. /\ Command(n, f) \in Line /\ Command(n, f).crc = f
          /\ Command(n, f) \in OfHost'
      BY <3>2 DEF Command, Line, Lengths
    <3>4. toGuest' \in Seq(OfHost')
      BY <1>1, <2>1, <3>2, <3>3, SendOfHost
    <3>5. toHost' = <<>> /\ <<>> \in Seq(Honest')
      BY <2>1, <3>1
    <3> QED
      BY <2>1, <3>1, <3>4, <3>5
  <2> QED
    BY <2>2, <2>3, <2>4 DEF FirstInv
<1>3. ASSUME UNCHANGED <<uploads, recv, stored>>,
             DOMAIN host' = DOMAIN host, host'.file = host.file,
             host'.name = host.name,
             uploads = 0 => UNCHANGED <<toGuest, toHost>> /\ host'.pending = <<>>
                            /\ host'.told = FALSE,
             uploads <= 1 => /\ toGuest' \in Seq(OfHost)
                             /\ toHost' \in Seq(Honest)
                             /\ host'.pending \in Seq(Honest)
                             /\ host'.told => <<host.name, host.file>> \in stored
      PROVE  FirstInv'
  <2>1. OfHost' = OfHost /\ Honest' = Honest
    BY <1>3 DEF OfHost, Honest
  <2> QED
    BY <1>3, <2>1 DEF FirstInv
<1>4. CASE HostReads
  <2>1. PICK k \in 1 .. Len(toHost) :
            /\ host' = [host EXCEPT !.pending = @ \o SubSeq(toHost, 1, k)]
            /\ toHost' = SubSeq(toHost, k + 1, Len(toHost))
    BY <1>4 DEF HostReads
  <2>2. UNCHANGED <<uploads, recv, stored, toGuest>>
    BY <1>4 DEF HostReads
  <2>3. /\ DOMAIN host' = DOMAIN host /\ host'.file = host.file
        /\ host'.name = host.name /\ host'.told = host.told
        /\ host'.pending = host.pending \o SubSeq(toHost, 1, k)
    BY <2>1 DEF FirstInv
  <2>4. uploads # 0
    <3>1. uploads = 0 => toHost = <<>>
      BY DEF FirstInv
    <3> QED
      BY <2>1, <3>1
  <2>5. ASSUME uploads <= 1
        PROVE  toHost' \in Seq(Honest) /\ host'.pending \in Seq(Honest)
    <3>1. toHost \in Seq(Honest) /\ host.pending \in Seq(Honest)
      BY <2>5 DEF FirstInv
    <3>2. Len(toHost) \in Nat /\ \A i \in 1 .. Len(toHost) : toHost[i] \in Honest
      BY <3>1, ElementOfSeq, LenProperties
    <3>3. SubSeq(toHost, 1, k) \in Seq(Honest)
      <4>1. 1 \in Int /\ k \in Int /\ \A i \in 1 .. k : toHost[i] \in Honest
        BY <3>2
      <4> QED
        BY <4>1, SubSeqProperties
    <3>4. SubSeq(toHost, k + 1, Len(toHost)) \in Seq(Honest)
      <4>1. k + 1 \in Int /\ \A i \in k + 1 .. Len(toHost) : toHost[i] \in Honest
        BY <3>2
      <4> QED
        BY <3>2, <4>1, SubSeqProperties
    <3> QED
      BY <2>1, <2>3, <3>1, <3>3, <3>4, ConcatProperties
  <2> QED
    BY <1>3, <2>2, <2>3, <2>4, <2>5 DEF FirstInv
<1>5. CASE HostGivesUp
  <2>1. /\ UNCHANGED <<uploads, recv, stored, toGuest, toHost>>
        /\ host' = [host EXCEPT !.pc = "idle", !.pending = <<>>]
    BY <1>5 DEF HostGivesUp
  <2>2. /\ DOMAIN host' = DOMAIN host /\ host'.file = host.file
        /\ host'.name = host.name /\ host'.told = host.told
        /\ host'.pending = <<>>
    BY <2>1 DEF FirstInv
  <2>3. <<>> \in Seq(Honest)
    OBVIOUS
  <2>4. uploads <= 1 => /\ toGuest' \in Seq(OfHost) /\ toHost' \in Seq(Honest)
                        /\ host'.told => <<host.name, host.file>> \in stored
    BY <2>1, <2>2 DEF FirstInv
  <2>5. uploads = 0 => host'.told = FALSE
    BY <2>2 DEF FirstInv
  <2> QED
    BY <1>3, <2>1, <2>2, <2>3, <2>4, <2>5
<1>6. CASE HostGoesOn
  <2> DEFINE at == CHOOSE i \in DOMAIN host.pending :
                       /\ host.pending[i] = Marker
                       /\ \A j \in 1 .. i - 1 : host.pending[j] # Marker
             rest == SubSeq(host.pending, at + 1, Len(host.pending))
  <2>1. /\ UNCHANGED <<uploads, recv, stored, toHost>>
        /\ Marker \in ToSet(host.pending)
    BY <1>6 DEF HostGoesOn
  <2>2. \/ /\ Marker.text = "saved" /\ toGuest' = toGuest
           /\ host' = [host EXCEPT !.pc = "idle", !.told = TRUE, !.pending = <<>>]
        \/ /\ toGuest' = toGuest
           /\ host' = [host EXCEPT !.last = TRUE, !.pending = rest]
        \/ /\ host.sent < Len(host.file)
           /\ host' = [host EXCEPT !.sent = @ + 1, !.pending = rest]
           /\ send(ChunkLine(host.file[host.sent + 1]))
    BY <1>6, Zenon DEF HostGoesOn
  <2>3. uploads # 0
    <3>1. uploads = 0 => host.pending = <<>>
      BY DEF FirstInv
    <3>2. ToSet(<<>>) = {}
      BY DEF ToSet
    <3> QED
      BY <2>1, <3>1, <3>2
  <2>4. uploads <= 1 => rest \in Seq(Honest)
    <3> SUFFICES ASSUME uploads <= 1 PROVE rest \in Seq(Honest)
      OBVIOUS
    <3>1. host.pending \in Seq(Honest)
      BY DEF FirstInv
    <3> QED
      BY <2>1, <3>1, MarkerFound
  <2> HIDE DEF at, rest
  <2>5. CASE /\ Marker.text = "saved" /\ toGuest' = toGuest
             /\ host' = [host EXCEPT !.pc = "idle", !.told = TRUE, !.pending = <<>>]
    <3>1. /\ DOMAIN host' = DOMAIN host /\ host'.file = host.file
          /\ host'.name = host.name /\ host'.pending = <<>>
      BY <2>5 DEF FirstInv
    <3>2. Marker.name = host.name
      <4>1. CASE host.sent = 0
        BY <2>5, <4>1 DEF Marker
      <4>2. CASE ~(host.sent = 0) /\ host.sent \in 1 .. Len(host.file) /\ ~host.last
        BY <2>5, <4>2 DEF Marker
      <4>3. CASE /\ ~(host.sent = 0)
                 /\ ~(host.sent \in 1 .. Len(host.file) /\ ~host.last)
        BY <4>3 DEF Marker
      <4> QED
        BY <4>1, <4>2, <4>3
    <3>3. ASSUME uploads <= 1
          PROVE  <<host.name, host.file>> \in stored
      <4>1. host.pending \in Seq(Honest)
        BY <3>3 DEF FirstInv
      <4>2. PICK i \in DOMAIN host.pending : Marker = host.pending[i]
        BY <2>1 DEF ToSet
      <4>3. Marker \in Honest
        BY <4>1, <4>2, ElementOfSeq
      <4> QED
        BY <2>5, <3>2, <4>3 DEF Honest
    <3> QED
      BY <1>3, <2>1, <2>3, <2>5, <3>1, <3>3 DEF FirstInv
  <2>6. CASE /\ toGuest' = toGuest
             /\ host' = [host EXCEPT !.last = TRUE, !.pending = rest]
    <3>1. /\ DOMAIN host' = DOMAIN host /\ host'.file = host.file
          /\ host'.name = host.name /\ host'.told = host.told
          /\ host'.pending = rest
      BY <2>6 DEF FirstInv
    <3> QED
      BY <1>3, <2>1, <2>3, <2>4, <2>6, <3>1 DEF FirstInv
  <2>7. CASE /\ host.sent < Len(host.file)
             /\ host' = [host EXCEPT !.sent = @ + 1, !.pending = rest]
             /\ send(ChunkLine(host.file[host.sent + 1]))
    <3>1. /\ DOMAIN host' = DOMAIN host /\ host'.file = host.file
          /\ host'.name = host.name /\ host'.told = host.told
          /\ host'.pending = rest
      BY <2>7 DEF FirstInv
    <3>2. /\ ChunkLine(host.file[host.sent + 1]) \in Line
          /\ ChunkLine(host.file[host.sent + 1]).line # "zrecv"
      BY <1>1, <2>7, NextIsLine DEF ChunkLine
    <3> DEFINE c == ChunkLine(host.file[host.sent + 1])
    <3>3. c \in Line /\ c.line # "zrecv" /\ send(c)
      BY <2>7, <3>2
    <3> HIDE DEF c
    <3>4. ASSUME uploads <= 1
          PROVE  toGuest' \in Seq(OfHost)
      <4>1. toGuest \in Seq(OfHost) /\ c \in OfHost
        BY <3>3, <3>4 DEF FirstInv, OfHost
      <4>2. OfHost = {e \in Line : e.line = "zrecv" => e.crc = host.file}
        BY DEF OfHost
      <4> QED
        BY <1>1, <3>3, <4>1, <4>2, SendOfHost
    <3> QED
      BY <1>3, <2>1, <2>3, <2>4, <3>1, <3>4 DEF FirstInv
  <2> QED
    BY <2>2, <2>5, <2>6, <2>7
<1> QED
  BY <1>2, <1>4, <1>5, <1>6 DEF Host

\* Nothing has been sent at the start.
LEMMA FirstStarts ==
    Init => FirstInv
<1> SUFFICES ASSUME Init PROVE FirstInv
  OBVIOUS
<1>1. /\ toGuest = <<>> /\ toHost = <<>> /\ uploads = 0 /\ recv.pc = "shell"
      /\ host.pending = <<>> /\ host.told = FALSE
      /\ DOMAIN host = {"pc", "name", "file", "sent", "last", "pending", "told"}
  BY NoUploadTyped DEF Init
<1> QED
  BY <1>1 DEF FirstInv

LEMMA FirstStays ==
    Inv /\ RecvTyped /\ FirstInv /\ [Next]_vars => FirstInv'
<1> SUFFICES ASSUME Inv, RecvTyped, FirstInv, [Next]_vars PROVE FirstInv'
  OBVIOUS
<1>1. CASE Others \/ UNCHANGED vars
  <2>1. UNCHANGED <<host, recv, toGuest, toHost, stored, uploads>>
    BY <1>1 DEF Others, vars, uploadVars
  <2> QED
    BY <2>1, GuestIsHonest DEF FirstInv
<1> QED
  BY <1>1, RecvIsHonest, HostIsHonest DEF Next

\* As long as send-zc.py has been started once, it says that a file is saved
\* only when zrecv has stored exactly that file under that name: for any
\* files, any number of lost and damaged lines and of device errors, and
\* whoever gives up. Whole files and the types are kept by every later upload
\* too.
THEOREM FirstUploadExact ==
    Spec => [](/\ uploads <= 1 => UploadExact
               /\ \A i \in DOMAIN log : log[i].x \in Files \union {Deleted})
<1>1. StateInv /\ FirstInv /\ TypeOK =>
          /\ uploads <= 1 => UploadExact
          /\ \A i \in DOMAIN log : log[i].x \in Files \union {Deleted}
  <2> SUFFICES ASSUME StateInv, FirstInv, TypeOK
               PROVE  /\ uploads <= 1 => UploadExact
                      /\ \A i \in DOMAIN log : log[i].x \in Files \union {Deleted}
    OBVIOUS
  <2>1. \A i \in DOMAIN log : log[i].x \in Files \union {Deleted}
    <3>1. log \in Seq(Record)
      BY DEF StateInv, Inv, FilesTyped
    <3>2. \A i \in DOMAIN log : log[i] \in Record
      BY <3>1, ElementOfSeq
    <3> QED
      BY <3>2 DEF Record
  <2> QED
    BY <2>1 DEF UploadExact, FirstInv
<1>2. StateInv /\ FirstInv /\ [Next]_vars => FirstInv'
  BY FirstStays DEF StateInv
<1> QED
  BY <1>1, <1>2, FirstStarts, StateStarts, StateStays, StateTyped, PTL DEF Spec
=============================================================================
