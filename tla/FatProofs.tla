------------------------------ MODULE FatProofs ------------------------------
(***************************************************************************)
(* Proofs about reading files from the floppy, for every geometry, set of  *)
(* files, sequence of reads and size of the FAT cache: the cache never     *)
(* answers for a sector it does not hold, no chain ends early, and what is *)
(* delivered is what was asked for unless the second half of a split entry *)
(* could not be read, or the part asked for began within one cluster and   *)
(* ended in another.                                                       *)
(***************************************************************************)
EXTENDS Fat, FiniteSetTheorems, WellFoundedInduction, TLAPS

------------------------------------------------------------------------------
(* Arithmetic.                                                             *)
LEMMA Division ==
  ASSUME NEW a \in Int, NEW k \in Nat \ {0}
  PROVE  a = (a \div k) * k + (a % k) /\ a \div k \in Int /\ a % k \in 0 .. k - 1
OBVIOUS

LEMMA Distributes ==
  ASSUME NEW a \in Int, NEW b \in Int, NEW k \in Int
  PROVE  (a - b) * k = a * k - b * k /\ (a + 1) * k = a * k + k
OBVIOUS

LEMMA Monotone ==
  ASSUME NEW a \in Int, NEW b \in Int, NEW k \in Nat, a <= b
  PROVE  a * k <= b * k
<1>1. b - a \in Nat
  OBVIOUS
<1>2. (b - a) * k \in Nat
  BY <1>1
<1>3. (b - a) * k = b * k - a * k /\ a * k \in Int /\ b * k \in Int
  BY Distributes
<1> QED BY <1>2, <1>3

(* There is only one quotient. *)
LEMMA Quotient ==
  ASSUME NEW k \in Nat \ {0}, NEW q \in Int, NEW r \in 0 .. k - 1
  PROVE  (q * k + r) \div k = q /\ (q * k + r) % k = r
<1> DEFINE a == q * k + r
           d == a \div k
           s == a % k
<1>1. a \in Int /\ q * k \in Int
  OBVIOUS
<1>2. a = q * k + r
  OBVIOUS
<1> HIDE DEF a
<1>3. d \in Int /\ s \in 0 .. k - 1 /\ a = d * k + s
  BY <1>1, Division
<1> HIDE DEF d, s
<1>4. d * k \in Int
  BY <1>3
<1>5. ~ d < q
  <2> SUFFICES ASSUME d < q PROVE FALSE
    OBVIOUS
  <2>1. (d + 1) * k <= q * k /\ (d + 1) * k = d * k + k
    BY <1>3, Monotone, Distributes
  <2> QED BY <1>1, <1>2, <1>3, <1>4, <2>1
<1>6. ~ q < d
  <2> SUFFICES ASSUME q < d PROVE FALSE
    OBVIOUS
  <2>1. (q + 1) * k <= d * k /\ (q + 1) * k = q * k + k
    BY <1>3, Monotone, Distributes
  <2> QED BY <1>1, <1>2, <1>3, <1>4, <2>1
<1>7. d = q /\ s = r
  BY <1>1, <1>2, <1>3, <1>4, <1>5, <1>6
<1> QED BY <1>7 DEF d, s, a

(* The sector of an address after a sector's beginning begins there or     *)
(* later.                                                                  *)
LEMMA SectorFrom ==
  ASSUME NEW k \in Nat \ {0}, NEW b \in Nat, b % k = 0, NEW o \in Int, b <= o
  PROVE  b <= o - (o % k)
<1> DEFINE d == o \div k
           r == o % k
           e == b \div k
<1>1. d \in Int /\ r \in 0 .. k - 1 /\ o = d * k + r
  BY Division
<1>2. e \in Int /\ b = e * k
  BY Division
<1> HIDE DEF d, r, e
<1>3. d * k \in Int /\ e * k \in Int
  BY <1>1, <1>2
<1>4. ~ d < e
  <2> SUFFICES ASSUME d < e PROVE FALSE
    OBVIOUS
  <2>1. (d + 1) * k <= e * k /\ (d + 1) * k = d * k + k
    BY <1>1, <1>2, Monotone, Distributes
  <2> QED BY <1>1, <1>2, <1>3, <2>1
<1>5. e * k <= d * k
  BY <1>1, <1>2, <1>4, Monotone
<1>6. b <= o - r
  BY <1>1, <1>2, <1>3, <1>5
<1> QED BY <1>6 DEF r

(* Least elements: what the searches of the cache find.                    *)
LEMMA Least ==
  ASSUME NEW S, S \subseteq Nat, S # {}
  PROVE  \E m \in S : \A x \in S : m <= x
<1> DEFINE R == {p \in Nat \X Nat : p[1] < p[2]}
<1>1. IsWellFoundedOn(R, Nat)
  BY NatLessThanWellFounded DEF OpToRel
<1>2. \A x, m \in Nat : x < m => <<x, m>> \in R
  OBVIOUS
<1> HIDE DEF R
<1>3. PICK m \in S : \A x \in S : ~(<<x, m>> \in R)
  BY <1>1, WFMin
<1>4. \A x \in S : ~(x < m)
  BY <1>2, <1>3
<1> QED BY <1>4

LEMMA Geometry ==
  /\ SectorSize \in Nat \ {0} /\ PerCluster \in Nat \ {0} /\ CacheCnt \in Nat \ {0}
  /\ Cs \in Nat \ {0} /\ SectorSize <= Cs
  /\ PerCluster = 1 => Cs = SectorSize
  /\ PerCluster # 1 => SectorSize < Cs
  /\ FatOffset \in Nat /\ RootOffset \in Nat /\ DataOffset \in Nat
  /\ DiskSize \in Nat
  /\ FatSize \in Nat \ {0} /\ FatOffset + FatSize <= RootOffset
  /\ 0 < FatOffset /\ FatOffset < RootOffset /\ RootOffset < DataOffset
  /\ FatOffset % SectorSize = 0 /\ RootOffset % SectorSize = 0
<1>1. /\ SectorSize \in Nat \ {0} /\ PerCluster \in Nat \ {0} /\ CacheCnt \in Nat \ {0}
      /\ FatOffset \in Nat /\ RootOffset \in Nat /\ DataOffset \in Nat
      /\ DiskSize \in Nat
      /\ FatSize \in Nat \ {0} /\ FatOffset + FatSize <= RootOffset
      /\ 0 < FatOffset /\ FatOffset < RootOffset /\ RootOffset < DataOffset
      /\ FatOffset % SectorSize = 0 /\ RootOffset % SectorSize = 0
  BY FatAssumption
<1>2. 1 * SectorSize <= PerCluster * SectorSize
  BY <1>1, Monotone
<1>3. PerCluster # 1 => 2 * SectorSize <= PerCluster * SectorSize
  BY <1>1, Monotone
<1>4. Cs \in Int /\ 1 * SectorSize = SectorSize
  BY <1>1 DEF Cs
<1>5. SectorSize <= Cs /\ (PerCluster # 1 => 2 * SectorSize <= Cs)
  BY <1>2, <1>3, <1>4 DEF Cs
<1>6. PerCluster = 1 => Cs = SectorSize
  BY <1>1 DEF Cs
<1> QED BY <1>1, <1>4, <1>5, <1>6

------------------------------------------------------------------------------
CacheOK(c) ==
  /\ c \in [clust : [Lines -> Int], rank : [Lines -> Byte], buf : [Lines -> Int]]
  /\ \A i, j \in Lines : InFat(c.clust[i]) =>
       c.buf[i] = c.clust[i] /\ (c.clust[j] = c.clust[i] => i = j)

(* Place q of file f: whether there is one, and where.                     *)
HasPlace(f, q) ==
  IF f.kind = "root" THEN RootOffset + q * Cs < DataOffset ELSE q < Len(f.chain)

Place(f, q) ==
  IF f.kind = "root" THEN RootOffset + q * Cs ELSE ClusterAt(f.chain[q + 1])

(* A part of a file that begins with a cluster or lies within one. *)
Simple(r) == r.off % Cs = 0 \/ (r.off % Cs) + r.sz <= Cs

Delivered(n) == \A k \in 0 .. n - 1 : out[k] = Where(call.file, call.off + k)

(* In the middle of a call: at place q, with pos bytes done.               *)
Reached(q) ==
  /\ HasPlace(call.file, q) /\ cluster = Place(call.file, q)
  /\ q * Cs + off <= call.off + pos
  /\ Beyond => pos = 0

Copying(q) ==
  /\ pos < call.sz => q * Cs + off = call.off + pos /\ Delivered(pos)
  /\ pos >= call.sz => Delivered(call.sz)
  /\ off % Cs = 0 \/ (pos = 0 /\ (off % Cs) + call.sz <= Cs)

Running ==
  /\ ~PastEnd(call.file, call)
  /\ out \in [0 .. call.sz - 1 -> Int]
  /\ \/ failed /\ Split(call.file)
     \/ ~failed /\ \E q \in Nat : Reached(q) /\ (Simple(call) => Copying(q))

FInv ==
  /\ CacheOK(cache)
  /\ pc \in {"idle", "run", "done", "panic"}
  /\ call \in [file : Files, sz : Nat, off : Nat]
  /\ cluster \in Nat /\ off \in Nat /\ pos \in Nat
  /\ tmp \in Int /\ ret \in Int /\ failed \in BOOLEAN
  /\ pc = "run" => Running
  /\ FailsOnlyOnError
  /\ Simple(call) => ReadIsSlice

------------------------------------------------------------------------------
(* The FAT cache. *)
LEMMA LowestIsOne ==
  ASSUME NEW S, S \subseteq Lines, S # {}
  PROVE  Lowest(S) \in S
<1>1. S \subseteq Nat
  BY DEF Lines
<1>2. PICK m \in S : \A j \in S : m <= j
  BY <1>1, Least
<1> QED BY <1>2 DEF Lowest

LEMMA ByteIs ==
  ASSUME NEW x \in Byte
  PROVE  x \in Nat /\ 255 - x \in Nat
BY DEF Byte

(* Some line has the highest rank. *)
LEMMA OldestIsOne ==
  ASSUME NEW c, CacheOK(c)
  PROVE  Oldest(c) \in Lines
<1> DEFINE Old == {i \in Lines : \A j \in Lines : c.rank[j] <= c.rank[i]}
           Ages == {255 - c.rank[i] : i \in Lines}
<1>1. c.rank \in [Lines -> Byte]
  BY DEF CacheOK
<1>2. Ages \subseteq Nat /\ Ages # {}
  <2>1. 1 \in Lines
    BY Geometry DEF Lines
  <2>2. \A x \in Byte : 255 - x \in Nat
    BY ByteIs
  <2> QED BY <1>1, <2>1, <2>2
<1>3. PICK m \in Ages : \A x \in Ages : m <= x
  BY <1>2, Least
<1>4. PICK i \in Lines : m = 255 - c.rank[i]
  OBVIOUS
<1>5. \A j \in Lines : c.rank[j] <= c.rank[i]
  <2> SUFFICES ASSUME NEW j \in Lines PROVE c.rank[j] <= c.rank[i]
    OBVIOUS
  <2>1. c.rank[i] \in Byte /\ c.rank[j] \in Byte
    BY <1>1
  <2>2. PICK x \in Byte : x = c.rank[i]
    BY <2>1
  <2>3. PICK y \in Byte : y = c.rank[j]
    BY <2>1
  <2>4. 255 - c.rank[j] \in Ages
    OBVIOUS
  <2>5. 255 - x <= 255 - y
    BY <1>3, <1>4, <2>2, <2>3, <2>4
  <2>6. y <= x
    BY <2>5, ByteIs
  <2> QED BY <2>2, <2>3, <2>6
<1>6. Old \subseteq Lines /\ Old # {}
  BY <1>5
<1> QED BY <1>6, LowestIsOne DEF Oldest

LEMMA RankStays ==
  ASSUME NEW x \in Byte, NEW y \in Byte
  PROVE  (IF x < y THEN x + 1 ELSE x) \in Byte /\ 0 \in Byte
BY DEF Byte

(* Touching a line changes no address and no buffer, and keeps every rank  *)
(* a byte.                                                                 *)
LEMMA TouchedKeeps ==
  ASSUME NEW c, CacheOK(c), NEW i \in Lines
  PROVE  /\ CacheOK(Touched(c, i))
         /\ Touched(c, i).clust = c.clust /\ Touched(c, i).buf = c.buf
<1> DEFINE R == [j \in Lines |->
             IF j = i THEN 0
             ELSE IF c.rank[j] < c.rank[i] THEN c.rank[j] + 1 ELSE c.rank[j]]
<1>1. c \in [clust : [Lines -> Int], rank : [Lines -> Byte], buf : [Lines -> Int]]
  BY DEF CacheOK
<1>2. R \in [Lines -> Byte]
  <2> SUFFICES ASSUME NEW j \in Lines
               PROVE  (IF j = i THEN 0 ELSE IF c.rank[j] < c.rank[i]
                       THEN c.rank[j] + 1 ELSE c.rank[j]) \in Byte
    OBVIOUS
  <2>1. c.rank[i] \in Byte /\ c.rank[j] \in Byte
    BY <1>1
  <2>2. CASE j = i
    BY <2>1, <2>2, RankStays
  <2>3. CASE j # i
    BY <2>1, <2>3, RankStays, Zenon
  <2> QED BY <2>2, <2>3, Zenon
<1> HIDE DEF R
<1>3. Touched(c, i) = [c EXCEPT !.rank = R]
  BY DEF Touched, R
<1>4. /\ Touched(c, i).clust = c.clust /\ Touched(c, i).buf = c.buf
      /\ Touched(c, i) \in [clust : [Lines -> Int], rank : [Lines -> Byte],
                            buf : [Lines -> Int]]
  BY <1>1, <1>2, <1>3
<1> QED BY <1>4 DEF CacheOK

LEMMA AddedKeeps ==
  ASSUME NEW c, CacheOK(c), NEW a \in Int, Hits(c, a) = {}
  PROVE  CacheOK(Added(c, a))
<1> DEFINE o == Oldest(c)
           d == [c EXCEPT !.clust[o] = a, !.buf[o] = a]
<1>1. o \in Lines
  BY OldestIsOne
<1>2. c \in [clust : [Lines -> Int], rank : [Lines -> Byte], buf : [Lines -> Int]]
  BY DEF CacheOK
<1> HIDE DEF o
<1>3. /\ d \in [clust : [Lines -> Int], rank : [Lines -> Byte], buf : [Lines -> Int]]
      /\ \A i \in Lines : d.clust[i] = (IF i = o THEN a ELSE c.clust[i])
      /\ \A i \in Lines : d.buf[i] = (IF i = o THEN a ELSE c.buf[i])
  BY <1>1, <1>2
<1>4. \A i \in Lines : c.clust[i] # a
  BY DEF Hits
<1>5. \A i, j \in Lines : InFat(c.clust[i]) =>
        c.buf[i] = c.clust[i] /\ (c.clust[j] = c.clust[i] => i = j)
  BY DEF CacheOK
<1>6. Added(c, a) = Touched(d, o)
  BY DEF Added, o
<1> HIDE DEF d
<1>7. CacheOK(d)
  <2>1. ASSUME NEW i \in Lines, NEW j \in Lines, InFat(d.clust[i])
        PROVE  d.buf[i] = d.clust[i] /\ (d.clust[j] = d.clust[i] => i = j)
    <3>1. CASE i = o
      BY <1>3, <1>4, <3>1
    <3>2. CASE i # o
      <4>1. d.clust[i] = c.clust[i] /\ d.buf[i] = c.buf[i] /\ InFat(c.clust[i])
        BY <1>3, <2>1, <3>2
      <4>2. c.buf[i] = c.clust[i]
        BY <1>5, <4>1
      <4>3. CASE j = o
        BY <1>3, <1>4, <4>1, <4>2, <4>3
      <4>4. CASE j # o
        BY <1>3, <1>5, <4>1, <4>2, <4>4
      <4> QED BY <4>3, <4>4
    <3> QED BY <3>1, <3>2
  <2> QED BY <1>3, <2>1 DEF CacheOK
<1> QED BY <1>1, <1>6, <1>7, TouchedKeeps

(* A look-up keeps the cache coherent, and one that has data of the FAT    *)
(* has it of the sector asked for.                                         *)
LEMMA FetchedGood ==
  ASSUME NEW c, CacheOK(c), NEW t \in Int, NEW o \in Int, NEW good \in BOOLEAN,
         NEW r, r = Fetched(c, t, o, good)
  PROVE  /\ CacheOK(r.cache) /\ r.tmp \in Int /\ r.ok \in BOOLEAN
         /\ r.ok /\ InFat(o - (o % SectorSize)) => r.tmp = o - (o % SectorSize)
<1> DEFINE a == o - (o % SectorSize)
           i == Lowest(Hits(c, a))
<1>1. a \in Int
  BY Geometry, Division
<1>2. r = IF Hits(c, a) # {}
            THEN [cache |-> IF c.rank[i] # 0 THEN Touched(c, i) ELSE c,
                  tmp |-> c.buf[i], ok |-> TRUE]
          ELSE IF good /\ OnDisk(a)
            THEN [cache |-> Added(c, a), tmp |-> a, ok |-> TRUE]
          ELSE [cache |-> c, tmp |-> t, ok |-> FALSE]
  BY DEF Fetched
<1>3. c.buf \in [Lines -> Int]
  BY DEF CacheOK
<1>4. \A k \in Lines : InFat(c.clust[k]) => c.buf[k] = c.clust[k]
  BY DEF CacheOK
<1> HIDE DEF a
<1>5. CASE Hits(c, a) # {}
  <2>1. i \in Hits(c, a)
    BY <1>5, LowestIsOne DEF Hits
  <2>2. i \in Lines /\ c.clust[i] = a
    BY <2>1 DEF Hits
  <2> HIDE DEF i
  <2>3. c.buf[i] \in Int /\ (InFat(a) => c.buf[i] = a)
    BY <1>3, <1>4, <2>2
  <2>4. CacheOK(Touched(c, i))
    BY <2>2, TouchedKeeps
  <2>5. /\ r.cache = (IF c.rank[i] # 0 THEN Touched(c, i) ELSE c)
        /\ r.tmp = c.buf[i] /\ r.ok = TRUE
    BY <1>2, <1>5
  <2>6. CacheOK(r.cache)
    BY <2>4, <2>5
  <2> QED BY <2>3, <2>5, <2>6 DEF a
<1>6. CASE Hits(c, a) = {} /\ good /\ OnDisk(a)
  <2>1. CacheOK(Added(c, a))
    BY <1>1, <1>6, AddedKeeps
  <2>2. r.cache = Added(c, a) /\ r.tmp = a /\ r.ok = TRUE
    BY <1>2, <1>6
  <2> QED BY <1>1, <2>1, <2>2 DEF a
<1>7. CASE Hits(c, a) = {} /\ ~(good /\ OnDisk(a))
  <2>1. r.cache = c /\ r.tmp = t /\ r.ok = FALSE
    BY <1>2, <1>7
  <2> QED BY <2>1
<1> QED BY <1>5, <1>6, <1>7

------------------------------------------------------------------------------
(* The medium. *)
LEMMA InSeq ==
  ASSUME NEW S, NEW s \in Seq(S)
  PROVE  /\ Len(s) \in Nat /\ DOMAIN s = 1 .. Len(s)
         /\ \A k \in 1 .. Len(s) : s[k] \in S
         /\ s # <<>> => 0 < Len(s)
<1>1. Len(s) \in Nat /\ DOMAIN s = 1 .. Len(s)
  OBVIOUS
<1>2. \A k \in 1 .. Len(s) : s[k] \in S
  OBVIOUS
<1>3. s # <<>> => Len(s) # 0
  OBVIOUS
<1>4. s # <<>> => 0 < Len(s)
  BY <1>1, <1>3
<1> QED BY <1>1, <1>2, <1>4

Entries == 0 .. 4095

LEMMA ClusterNumber ==
  ASSUME NEW x \in Clusters
  PROVE  x \in Nat /\ x \in Entries /\ x - 2 \in Nat
BY DEF Clusters, Entries

(* What is assumed of a file, one fact at a time. *)
LEMMA FileKinds ==
  ASSUME NEW f \in Files
  PROVE  f.kind \in {"root", "dir", "file"} /\ f.size \in Nat
<1>1. f.kind \in {"root", "dir", "file"}
  BY FatAssumption
<1>2. f.size \in Nat
  BY FilesAssumption
<1> QED BY <1>1, <1>2

LEMMA ChainIs ==
  ASSUME NEW f \in Files
  PROVE  f.chain \in Seq(Clusters)
BY FilesAssumption DEF Clusters

LEMMA ChainLength ==
  ASSUME NEW f \in Files
  PROVE  Len(f.chain) \in Nat /\ DOMAIN f.chain = 1 .. Len(f.chain)
<1>1. f.chain \in Seq(Clusters)
  BY ChainIs
<1> QED BY <1>1, InSeq

LEMMA ChainAt ==
  ASSUME NEW f \in Files, NEW k \in 1 .. Len(f.chain)
  PROVE  f.chain[k] \in Clusters
<1>1. f.chain \in Seq(Clusters)
  BY ChainIs
<1> QED BY <1>1, InSeq

LEMMA ChainStarts ==
  ASSUME NEW f \in Files, f.kind # "root"
  PROVE  0 < Len(f.chain)
<1>1. f.chain \in Seq(Clusters)
  BY ChainIs
<1>2. f.chain # <<>>
  BY FilesAssumption
<1> QED BY <1>1, <1>2, InSeq

EntryFits(x) == ((x * 3) \div 2) + 1 < FatSize

LEMMA ChainFits ==
  ASSUME NEW f \in Files, NEW k \in 1 .. Len(f.chain)
  PROVE  EntryFits(f.chain[k])
<1>1. k \in DOMAIN f.chain
  BY ChainLength
<1>2. ((f.chain[k] * 3) \div 2) + 1 < FatSize
  BY <1>1, FilesAssumption
<1> QED BY <1>2 DEF EntryFits

LEMMA SizeFits ==
  ASSUME NEW f \in Files, f.kind = "file"
  PROVE  f.size <= Len(f.chain) * Cs
BY FilesAssumption

LEMMA LinksAre ==
  /\ \A l \in Links : l[1] \in Files /\ l[2] \in 1 .. Len(l[1].chain)
  /\ \A f \in Files : \A k \in 1 .. Len(f.chain) : <<f, k>> \in Links
<1>1. \A f \in Files : DOMAIN f.chain = 1 .. Len(f.chain)
  BY ChainLength
<1>2. ASSUME NEW l \in Links
      PROVE  l[1] \in Files /\ l[2] \in 1 .. Len(l[1].chain)
  <2>1. PICK f \in Files : l \in {f} \X DOMAIN f.chain
    BY DEF Links
  <2>2. l[1] = f /\ l[2] \in DOMAIN f.chain
    BY <2>1
  <2> QED BY <1>1, <2>2
<1>3. ASSUME NEW f \in Files, NEW k \in 1 .. Len(f.chain)
      PROVE  <<f, k>> \in Links
  <2>1. <<f, k>> \in {f} \X DOMAIN f.chain
    BY <1>1
  <2> QED BY <2>1 DEF Links
<1> QED BY <1>2, <1>3

LEMMA EntryType ==
  ASSUME NEW n
  PROVE  Entry12(n) \in Entries
<1>3. 0 \in Entries /\ 4095 \in Entries
  BY DEF Entries
<1>1. CASE Linked(n) = {}
  BY <1>1, <1>3 DEF Entry12
<1>2. CASE Linked(n) # {}
  <2> DEFINE l == CHOOSE l \in Linked(n) : TRUE
  <2>1. l \in Linked(n)
    BY <1>2
  <2>2. l \in Links
    BY <2>1 DEF Linked
  <2>3. Entry12(n) = IF l[2] < Len(l[1].chain) THEN l[1].chain[l[2] + 1] ELSE 4095
    BY <1>2, SMTT(60) DEF Entry12
  <2> HIDE DEF l
  <2>4. l[1] \in Files /\ l[2] \in 1 .. Len(l[1].chain)
    BY <2>2, LinksAre, Zenon
  <2>7. Len(l[1].chain) \in Nat
    BY <2>4, ChainLength, Zenon
  <2>5. CASE l[2] < Len(l[1].chain)
    <3> DEFINE g == l[1]
               k == l[2] + 1
    <3>1. g \in Files /\ k \in 1 .. Len(g.chain)
      BY <2>4, <2>5, <2>7
    <3>2. Entry12(n) = g.chain[k]
      BY <2>3, <2>5, SMTT(60)
    <3> HIDE DEF g, k
    <3>3. g.chain[k] \in Clusters
      BY <3>1, ChainAt, Zenon
    <3>4. g.chain[k] \in Entries
      BY <3>3, ClusterNumber
    <3> QED BY <3>2, <3>4
  <2>6. CASE ~(l[2] < Len(l[1].chain))
    BY <1>3, <2>3, <2>6
  <2> QED BY <2>5, <2>6
<1> QED BY <1>1, <1>2

(* The entry of a file's cluster names the next one, or ends the chain.    *)
LEMMA EntryLinks ==
  ASSUME NEW f \in Files, NEW k \in 1 .. Len(f.chain)
  PROVE  Entry12(f.chain[k]) = IF k < Len(f.chain) THEN f.chain[k + 1] ELSE 4095
<1> DEFINE n == f.chain[k]
           me == <<f, k>>
<1>1. me \in Links /\ me[1] = f /\ me[2] = k
  BY LinksAre
<1>2. me \in Linked(n)
  BY <1>1 DEF Linked
<1>3. \A l \in Linked(n) : l = me
  <2> SUFFICES ASSUME NEW l \in Linked(n) PROVE l = me
    OBVIOUS
  <2>1. l \in Links /\ l[1].chain[l[2]] = me[1].chain[me[2]]
    BY <1>1 DEF Linked
  <2>2. \A g, m \in Links : g[1].chain[g[2]] = m[1].chain[m[2]] => g = m
    BY FilesAssumption, Zenon
  <2> QED BY <1>1, <2>1, <2>2
<1> DEFINE c == CHOOSE l \in Linked(n) : TRUE
<1>4. c = me
  BY <1>2, <1>3
<1>5. Entry12(n) = IF c[2] < Len(c[1].chain) THEN c[1].chain[c[2] + 1] ELSE 4095
  BY <1>2 DEF Entry12
<1> HIDE DEF c, me, n
<1>6. Entry12(n) = IF k < Len(f.chain) THEN f.chain[k + 1] ELSE 4095
  BY <1>1, <1>4, <1>5
<1> QED BY <1>6 DEF n

LEMMA FatByteType ==
  ASSUME NEW a \in Int
  PROVE  FatByte(a) \in Int
<1> DEFINE i == (a - FatOffset) % FatSize
           even == 2 * (i \div 3)
           x == Entry12(even)
           y == Entry12(even + 1)
<1>1. x \in Entries /\ y \in Entries
  BY EntryType
<1>2. FatByte(a) = CASE i % 3 = 0 -> x % 256
                     [] i % 3 = 1 -> (x \div 256) + 16 * (y % 16)
                     [] OTHER     -> y \div 16
  BY DEF FatByte
<1> HIDE DEF i, even, x, y
<1>3. x % 256 \in Int /\ (x \div 256) + 16 * (y % 16) \in Int /\ y \div 16 \in Int
  BY <1>1 DEF Entries
<1> QED BY <1>2, <1>3

LEMMA FatByteIs ==
  ASSUME NEW a \in Int, NEW m \in Nat, NEW j \in 0 .. 2,
         a - FatOffset = 3 * m + j, a - FatOffset < FatSize
  PROVE  FatByte(a) =
           CASE j = 0 -> Entry12(2 * m) % 256
             [] j = 1 -> (Entry12(2 * m) \div 256) + 16 * (Entry12(2 * m + 1) % 16)
             [] OTHER -> Entry12(2 * m + 1) \div 16
<1>1. (a - FatOffset) % FatSize = a - FatOffset
  <2> PICK i \in Nat : i = a - FatOffset
    BY Geometry
  <2>1. i % FatSize = i
    BY Geometry
  <2> QED BY <2>1
<1>2. (a - FatOffset) \div 3 = m /\ (a - FatOffset) % 3 = j
  BY Geometry
<1> QED BY <1>1, <1>2 DEF FatByte

Together(x, y) == ((x % 256) + 256 * ((x \div 256) + 16 * (y % 16))) % 4096

LEMMA TwoHalves ==
  ASSUME NEW x \in Entries, NEW y \in Entries
  PROVE  Together(x, y) = x
<1>1. x \in Int /\ y \in Int /\ 0 <= x /\ x < 4096
  BY DEF Entries
<1>2. PICK q \in Int : q = x \div 256
  BY <1>1
<1>3. PICK r \in Int : r = x % 256
  BY <1>1
<1>4. PICK z \in Int : z = y % 16
  BY <1>1
<1>5. x = 256 * q + r
  BY <1>1, <1>2, <1>3
<1>6. Together(x, y) = (r + 256 * (q + 16 * z)) % 4096
  BY <1>2, <1>3, <1>4 DEF Together
<1>7. r + 256 * (q + 16 * z) = z * 4096 + x
  BY <1>5
<1>8. PICK m \in Nat \ {0} : m = 4096
  OBVIOUS
<1>9. (z * m + x) % m = x
  BY <1>1, <1>8, Quotient
<1> QED BY <1>6, <1>7, <1>8, <1>9

Apart(x, y) == (((x \div 256) + 16 * (y % 16) + 256 * (y \div 16)) \div 16) % 4096

LEMMA HighHalves ==
  ASSUME NEW x \in Entries, NEW y \in Entries
  PROVE  Apart(x, y) = y
<1>1. x \in Int /\ y \in Int /\ 0 <= x /\ x < 4096 /\ 0 <= y /\ y < 4096
  BY DEF Entries
<1>2. PICK h \in Int : h = x \div 256
  BY <1>1
<1>3. PICK q \in Int : q = y \div 16
  BY <1>1
<1>4. PICK r \in Int : r = y % 16
  BY <1>1
<1>5. y = 16 * q + r /\ 0 <= h /\ h < 16
  BY <1>1, <1>2, <1>3, <1>4
<1>6. Apart(x, y) = ((h + 16 * r + 256 * q) \div 16) % 4096
  BY <1>2, <1>3, <1>4 DEF Apart
<1>7. h + 16 * r + 256 * q = 16 * y + h
  BY <1>5
<1>8. (16 * y + h) \div 16 = y
  BY <1>1, <1>5
<1>9. y % 4096 = y
  BY <1>1
<1> QED BY <1>6, <1>7, <1>8, <1>9

(* The two bytes of an entry, put together and masked, are the entry.      *)
LEMMA Decoded ==
  ASSUME NEW n \in Nat, ((n * 3) \div 2) + 1 < FatSize,
         NEW o, o = FatOffset + ((n * 3) \div 2)
  PROVE  Halves(FatByte(o) + 256 * FatByte(o + 1), n) = Entry12(n)
<1> DEFINE E == Entry12(n)
<1>1. E \in Entries /\ FatOffset \in Nat
  BY EntryType, Geometry
<1>2. CASE n % 2 = 0
  <2>1. PICK m \in Nat : n = 2 * m
    <3>1. n = 2 * (n \div 2) /\ n \div 2 \in Nat
      BY <1>2
    <3> QED BY <3>1
  <2>2. /\ o \in Int /\ o - FatOffset = 3 * m + 0 /\ (o + 1) - FatOffset = 3 * m + 1
        /\ o - FatOffset < FatSize /\ (o + 1) - FatOffset < FatSize /\ o + 1 \in Int
    <3>1. ((2 * m) * 3) \div 2 = 3 * m
      OBVIOUS
    <3> QED BY <1>1, <2>1, <3>1, Geometry
  <2> DEFINE y == Entry12(n + 1)
  <2>3. y \in Entries
    BY EntryType
  <2>4. FatByte(o) = Entry12(2 * m) % 256
    BY <2>2, FatByteIs
  <2>5. FatByte(o + 1) = (Entry12(2 * m) \div 256) + 16 * (Entry12(2 * m + 1) % 16)
    BY <2>2, FatByteIs
  <2>7. FatByte(o) = E % 256 /\ FatByte(o + 1) = (E \div 256) + 16 * (y % 16)
    BY <2>1, <2>4, <2>5
  <2> HIDE DEF E, y
  <2>6. ((E % 256) + 256 * ((E \div 256) + 16 * (y % 16))) % 4096 = E
    <3>1. Together(E, y) = E
      BY <1>1, <2>3, TwoHalves
    <3> QED BY <3>1 DEF Together
  <2> QED BY <1>2, <2>6, <2>7 DEF Halves, E
<1>3. CASE n % 2 = 1
  <2>1. PICK m \in Nat : n = 2 * m + 1
    <3>1. n = 2 * (n \div 2) + 1 /\ n \div 2 \in Nat
      BY <1>3
    <3> QED BY <3>1
  <2>2. /\ o \in Int /\ o - FatOffset = 3 * m + 1 /\ (o + 1) - FatOffset = 3 * m + 2
        /\ o - FatOffset < FatSize /\ (o + 1) - FatOffset < FatSize /\ o + 1 \in Int
    <3>1. ((2 * m + 1) * 3) \div 2 = 3 * m + 1
      OBVIOUS
    <3> QED BY <1>1, <2>1, <3>1, Geometry
  <2> DEFINE x == Entry12(2 * m)
  <2>3. x \in Entries
    BY EntryType
  <2>4. FatByte(o) = (Entry12(2 * m) \div 256) + 16 * (Entry12(2 * m + 1) % 16)
    BY <2>2, FatByteIs
  <2>5. FatByte(o + 1) = Entry12(2 * m + 1) \div 16
    BY <2>2, FatByteIs
  <2>7. FatByte(o) = (x \div 256) + 16 * (E % 16) /\ FatByte(o + 1) = E \div 16
    BY <2>1, <2>4, <2>5
  <2> HIDE DEF E, x
  <2>6. (((x \div 256) + 16 * (E % 16) + 256 * (E \div 16)) \div 16) % 4096 = E
    <3>1. Apart(x, E) = E
      BY <1>1, <2>3, HighHalves
    <3> QED BY <3>1 DEF Apart
  <2> QED BY <1>3, <2>6, <2>7 DEF Halves, E
<1> QED BY <1>2, <1>3

------------------------------------------------------------------------------
(* Looking up the FAT. *)
LEMMA ByteOfType ==
  ASSUME NEW b \in Int, NEW i \in Int
  PROVE  ByteOf(b, i) \in Int
<1>1. b + i \in Int
  OBVIOUS
<1>2. FatByte(b + i) \in Int
  BY <1>1, FatByteType
<1> QED BY <1>2 DEF ByteOf

(* Ones in place of an entry end the chain. *)
LEMMA OnesEnd ==
  ASSUME NEW n \in Nat
  PROVE  Halves(65535, n) = 4095
BY DEF Halves

(* What a look-up of cluster n gives.                                      *)
Looked(e, n) ==
  /\ CacheOK(e.cache) /\ e.tmp \in Int /\ e.ok \in BOOLEAN /\ e.entry \in Int
  /\ e.ok /\ ((n * 3) \div 2) + 1 < FatSize => e.entry = Entry12(n)
  /\ ~e.ok /\ ~Straddles(FatOffset + ((n * 3) \div 2)) => e.entry = 4095

(* Whatever the cache and the medium do, a look-up leaves the cache        *)
(* coherent; if it succeeds, it yields the entry, in one piece or in two,  *)
(* and if it fails, ones, unless the entry is split.                       *)
LEMMA FatEntryGood ==
  ASSUME NEW c, CacheOK(c), NEW t \in Int, NEW n \in Nat,
         NEW good \in [1 .. 2 -> BOOLEAN], NEW e, e = FatEntry(c, t, n, good)
  PROVE  Looked(e, n)
<1> DEFINE o    == FatOffset + ((n * 3) \div 2)
           o2   == o + 1
           i    == o % SectorSize
           i1   == i + 1
           i2   == o2 % SectorSize
           a    == o - i
           a2   == o2 - i2
           one  == Fetched(c, t, o, good[1])
           two  == Fetched(one.cache, one.tmp, o2, good[2])
           low  == ByteOf(one.tmp, i)
           high == IF two.ok THEN ByteOf(two.tmp, i2) ELSE 255
           near == ByteOf(one.tmp, i1)
           v    == IF Straddles(o) THEN low + 256 * high ELSE low + 256 * near
           last == IF Straddles(o) THEN two ELSE one
<1>1. /\ o \in Int /\ FatOffset <= o /\ o2 = o + 1
      /\ i \in 0 .. SectorSize - 1 /\ i2 \in 0 .. SectorSize - 1 /\ i1 = i + 1
      /\ a = o - i /\ a2 = o2 - i2
  BY Geometry
<1>2. good[1] \in BOOLEAN /\ good[2] \in BOOLEAN
  OBVIOUS
<1>3. ((n * 3) \div 2) + 1 < FatSize => o2 < RootOffset
  <2>1. (n * 3) \div 2 \in Nat
    OBVIOUS
  <2> QED BY <2>1, Geometry
<1>4. ((n * 3) \div 2) + 1 < FatSize =>
        Halves(FatByte(o) + 256 * FatByte(o2), n) = Entry12(n)
  BY Decoded
<1>5. e = [cache |-> last.cache, tmp |-> last.tmp, ok |-> one.ok /\ last.ok,
           entry |-> Halves(IF one.ok THEN v ELSE 65535, n)]
  BY DEF FatEntry
<1>6. /\ CacheOK(one.cache) /\ one.tmp \in Int /\ one.ok \in BOOLEAN
      /\ one.ok /\ InFat(a) => one.tmp = a
  <2> HIDE DEF o
  <2> QED BY <1>1, <1>2, FetchedGood
<1>7. /\ CacheOK(two.cache) /\ two.tmp \in Int /\ two.ok \in BOOLEAN
      /\ two.ok /\ InFat(a2) => two.tmp = a2
  <2>1. o2 \in Int
    BY <1>1
  <2> HIDE DEF one, o2
  <2> QED BY <1>2, <1>6, <2>1, FetchedGood
<1>8. FatOffset <= a /\ FatOffset <= a2
  <2>1. o2 \in Int /\ FatOffset <= o2
    BY <1>1, Geometry
  <2> HIDE DEF o, o2
  <2> QED BY <1>1, <2>1, Geometry, SectorFrom
<1>9. Straddles(o) \/ i1 < Cs
  <2>1. CASE PerCluster = 1
    BY <1>1, <2>1, Geometry DEF Straddles
  <2>2. CASE PerCluster # 1
    BY <1>1, <2>2, Geometry
  <2> QED BY <2>1, <2>2
<1> HIDE DEF o, o2, i, i1, i2, a, a2, one, two
<1>10. low \in Int /\ near \in Int /\ high \in Int
  <2>1. i \in Int /\ i1 \in Int /\ i2 \in Int
    BY <1>1, Geometry
  <2>2. ByteOf(two.tmp, i2) \in Int
    BY <1>7, <2>1, ByteOfType
  <2>3. low \in Int
    BY <1>6, <2>1, ByteOfType
  <2>4. near \in Int
    BY <1>6, <2>1, ByteOfType
  <2> QED BY <2>2, <2>3, <2>4
<1>11. CacheOK(last.cache) /\ last.tmp \in Int /\ last.ok \in BOOLEAN /\ v \in Int
  <2>1. CASE Straddles(o)
    BY <1>7, <1>10, <2>1
  <2>2. CASE ~Straddles(o)
    BY <1>6, <1>10, <2>2
  <2> QED BY <2>1, <2>2
<1>12. ASSUME one.ok, last.ok, o2 < RootOffset
       PROVE  v = FatByte(o) + 256 * FatByte(o2)
  <2>1. InFat(a) /\ InFat(a2)
    BY <1>1, <1>8, <1>12, Geometry DEF InFat
  <2>2. low = FatByte(o)
    <3>1. i < Cs /\ one.tmp + i = o
      BY <1>1, <1>6, <1>12, <2>1, Geometry
    <3> QED BY <3>1 DEF ByteOf
  <2>3. CASE Straddles(o)
    <3>1. two.ok
      BY <1>12, <2>3
    <3>2. i2 < Cs /\ two.tmp + i2 = o2
      BY <1>1, <1>7, <2>1, <3>1, Geometry
    <3>3. high = FatByte(o2)
      BY <3>1, <3>2 DEF ByteOf
    <3> QED BY <2>2, <2>3, <3>3
  <2>4. CASE ~Straddles(o)
    <3>1. i1 < Cs /\ one.tmp + i1 = o2
      BY <1>1, <1>6, <1>9, <1>12, <2>1, <2>4, Geometry
    <3>2. near = FatByte(o2)
      BY <3>1 DEF ByteOf
    <3> QED BY <2>2, <2>4, <3>2
  <2> QED BY <2>3, <2>4
<1> HIDE DEF v, last
<1>13. Halves(IF one.ok THEN v ELSE 65535, n) \in Int
  BY <1>11 DEF Halves
<1>14. /\ e.cache = last.cache /\ e.tmp = last.tmp
       /\ e.entry = Halves(IF one.ok THEN v ELSE 65535, n)
  BY <1>5
<1> DEFINE both == one.ok /\ last.ok
<1>15. e.ok = both
  <2>1. e = [cache |-> last.cache, tmp |-> last.tmp, ok |-> both,
             entry |-> Halves(IF one.ok THEN v ELSE 65535, n)]
    BY <1>5
  <2> HIDE DEF both
  <2> QED BY <2>1
<1>16. e.ok \in BOOLEAN
  <2>1. both \in BOOLEAN
    OBVIOUS
  <2> QED BY <1>15, <2>1
<1>17. ASSUME e.ok, ((n * 3) \div 2) + 1 < FatSize
       PROVE  e.entry = Entry12(n)
  <2>1. one.ok /\ last.ok
    BY <1>15, <1>17, Zenon
  <2>2. o2 < RootOffset
    BY <1>3, <1>17
  <2>3. e.entry = Halves(v, n)
    BY <1>14, <2>1
  <2> QED BY <1>4, <1>12, <1>17, <2>1, <2>2, <2>3
<1>18. ASSUME ~e.ok, ~Straddles(FatOffset + ((n * 3) \div 2))
       PROVE  e.entry = 4095
  <2>1. ~Straddles(o)
    BY <1>18 DEF o
  <2>2. last = one
    BY <2>1 DEF last
  <2>3. ~one.ok
    BY <1>15, <1>18, <2>2
  <2>4. e.entry = Halves(65535, n)
    BY <1>14, <2>3
  <2> QED BY <2>4, OnesEnd
<1> QED BY <1>11, <1>13, <1>14, <1>16, <1>17, <1>18 DEF Looked

------------------------------------------------------------------------------
(* The places of a file. *)
LEMMA NextClusterKeeps ==
  ASSUME NEW c, CacheOK(c), NEW t \in Int, NEW a \in Nat,
         NEW good \in [1 .. 2 -> BOOLEAN], NEW n, n = NextCluster(c, t, a, good)
  PROVE  CacheOK(n.cache) /\ n.tmp \in Int /\ n.ok \in BOOLEAN /\ n.next \in Nat
<1>1. CASE a < DataOffset
  <2>1. NextRoot(a) \in Nat
    BY Geometry DEF NextRoot
  <2>2. n = [next |-> NextRoot(a), cache |-> c, tmp |-> t, ok |-> TRUE]
    BY <1>1 DEF NextCluster
  <2> QED BY <2>1, <2>2
<1>2. CASE ~(a < DataOffset)
  <2> DEFINE x == ((a - DataOffset) \div Cs) + 2
             e == FatEntry(c, t, x, good)
             s == IF Chained(e.entry) THEN ClusterAt(e.entry) ELSE 0
  <2>1. x \in Nat
    BY <1>2, Geometry
  <2>2. n = [next |-> s, cache |-> e.cache, tmp |-> e.tmp, ok |-> e.ok]
    BY <1>2 DEF NextCluster
  <2> HIDE DEF x
  <2>3. CacheOK(e.cache) /\ e.tmp \in Int /\ e.ok \in BOOLEAN /\ e.entry \in Int
    <3>1. Looked(e, x)
      BY <2>1, FatEntryGood, Zenon
    <3> HIDE DEF e
    <3> QED BY <3>1 DEF Looked
  <2> HIDE DEF e
  <2>4. s \in Nat
    <3>1. CASE Chained(e.entry)
      <4>1. e.entry - 2 \in Nat
        BY <2>3, <3>1 DEF Chained
      <4>2. (e.entry - 2) * Cs \in Nat
        BY <4>1, Geometry
      <4> QED BY <3>1, <4>2, Geometry DEF ClusterAt
    <3>2. CASE ~Chained(e.entry)
      BY <3>2
    <3> QED BY <3>1, <3>2
  <2> HIDE DEF s
  <2> QED BY <2>2, <2>3, <2>4
<1> QED BY <1>1, <1>2

LEMMA InChain ==
  ASSUME NEW f \in Files, NEW q \in Nat, HasPlace(f, q), f.kind # "root"
  PROVE  q + 1 \in 1 .. Len(f.chain) /\ Len(f.chain) \in Nat
<1>1. PICK n \in Nat : n = Len(f.chain)
  BY ChainLength
<1>2. q < n
  BY <1>1 DEF HasPlace
<1>3. q + 1 \in 1 .. n
  BY <1>2
<1> QED BY <1>1, <1>3

LEMMA PlaceType ==
  ASSUME NEW f \in Files, NEW q \in Nat, HasPlace(f, q)
  PROVE  Place(f, q) \in Nat \ {0}
<1>1. CASE f.kind = "root"
  BY <1>1, Geometry DEF Place
<1>2. CASE f.kind # "root"
  <2> DEFINE k == q + 1
             x == f.chain[k]
  <2>1. k \in 1 .. Len(f.chain)
    BY <1>2, InChain, Zenon
  <2>2. Place(f, q) = DataOffset + (x - 2) * Cs
    BY <1>2 DEF Place, ClusterAt
  <2> HIDE DEF k
  <2>3. x \in Clusters
    BY <2>1, ChainAt
  <2> HIDE DEF x
  <2>4. x - 2 \in Nat
    BY <2>3, ClusterNumber
  <2>5. (x - 2) * Cs \in Nat
    BY <2>4, Geometry
  <2> QED BY <2>2, <2>5, Geometry
<1> QED BY <1>1, <1>2

LEMMA ClusterChained ==
  ASSUME NEW x \in Clusters
  PROVE  Chained(x)
BY DEF Chained, Clusters

(* The cluster whose entry is looked up is the one read last.              *)
LEMMA PlaceNumber ==
  ASSUME NEW f \in Files, NEW q \in Nat, HasPlace(f, q), f.kind # "root"
  PROVE  /\ q + 1 \in 1 .. Len(f.chain)
         /\ Place(f, q) \in Nat /\ DataOffset <= Place(f, q)
         /\ ((Place(f, q) - DataOffset) \div Cs) + 2 = f.chain[q + 1]
         /\ f.chain[q + 1] \in Nat
<1> DEFINE a == Place(f, q)
           k == q + 1
           x == f.chain[k]
           y == ((a - DataOffset) \div Cs) + 2
<1>1. k \in 1 .. Len(f.chain) /\ Len(f.chain) \in Nat
  BY InChain, Zenon
<1>2. x \in Nat /\ x - 2 \in Nat
  <2> HIDE DEF k
  <2>1. x \in Clusters
    BY <1>1, ChainAt
  <2> QED BY <2>1, ClusterNumber
<1>3. a = DataOffset + (x - 2) * Cs
  BY DEF Place, ClusterAt
<1> HIDE DEF x, a
<1>4. (x - 2) * Cs \in Nat
  <2>1. x - 2 \in Nat
    BY <1>2
  <2> QED BY <2>1, Geometry
<1>5. y = x
  <2>1. a - DataOffset = (x - 2) * Cs + 0
    BY <1>3, <1>4, Geometry
  <2> DEFINE z == x - 2
  <2>2. z \in Int /\ 0 \in 0 .. Cs - 1
    BY <1>2, Geometry
  <2> HIDE DEF z
  <2>3. (z * Cs + 0) \div Cs = z
    BY <2>2, Geometry, Quotient
  <2>4. (a - DataOffset) \div Cs = x - 2
    BY <2>1, <2>3 DEF z
  <2> QED BY <1>2, <2>4
<1>6. a \in Nat /\ DataOffset <= a
  BY <1>3, <1>4, Geometry
<1> QED BY <1>1, <1>2, <1>5, <1>6 DEF a, x

(* If the medium fails, the file ends, unless that was in a split entry.   *)
LEMMA BrokenOff ==
  ASSUME NEW c, CacheOK(c), NEW t \in Int, NEW good \in [1 .. 2 -> BOOLEAN],
         NEW f \in Files, NEW q \in Nat, HasPlace(f, q), ~Split(f),
         NEW n, n = NextCluster(c, t, Place(f, q), good), ~n.ok
  PROVE  n.next = 0
<1> DEFINE a == Place(f, q)
           y == ((a - DataOffset) \div Cs) + 2
           e == FatEntry(c, t, y, good)
<1>1. CASE f.kind = "root"
  <2>1. a = RootOffset + q * Cs /\ q * Cs \in Nat /\ a < DataOffset
    BY <1>1, Geometry DEF Place, HasPlace
  <2>2. n = [next |-> NextRoot(a), cache |-> c, tmp |-> t, ok |-> TRUE]
    BY <2>1 DEF NextCluster
  <2> HIDE DEF a
  <2>3. n.ok = TRUE
    BY <2>2
  <2> QED BY <2>3
<1>2. CASE f.kind # "root"
  <2>1. /\ q + 1 \in 1 .. Len(f.chain) /\ a \in Nat /\ DataOffset <= a
        /\ y = f.chain[q + 1] /\ y \in Nat
    BY <1>2, PlaceNumber
  <2>2. ~Straddles(FatOffset + ((f.chain[q + 1] * 3) \div 2))
    <3>1. q + 1 \in DOMAIN f.chain
      BY <2>1, ChainIs
    <3> QED BY <3>1, Zenon DEF Split
  <2>3. ~(a < DataOffset)
    BY <2>1, Geometry
  <2>4. n = [next |-> IF Chained(e.entry) THEN ClusterAt(e.entry) ELSE 0,
             cache |-> e.cache, tmp |-> e.tmp, ok |-> e.ok]
    BY <2>3 DEF NextCluster
  <2> HIDE DEF e
  <2>5. n.ok = e.ok /\ n.next = IF Chained(e.entry) THEN ClusterAt(e.entry) ELSE 0
    BY <2>4
  <2> HIDE DEF y
  <2>6. Looked(e, y)
    BY <2>1, FatEntryGood, Zenon DEF e
  <2>7. ~Straddles(FatOffset + ((y * 3) \div 2))
    BY <2>1, <2>2
  <2>8. e.entry = 4095
    BY <2>5, <2>6, <2>7 DEF Looked
  <2> QED BY <2>5, <2>8 DEF Chained
<1> QED BY <1>1, <1>2

(* If the medium works, the next cluster is the file's next one.           *)
LEMMA NextPlace ==
  ASSUME NEW c, CacheOK(c), NEW t \in Int, NEW good \in [1 .. 2 -> BOOLEAN],
         NEW f \in Files, NEW q \in Nat, HasPlace(f, q),
         NEW n, n = NextCluster(c, t, Place(f, q), good), n.ok
  PROVE  n.next = IF HasPlace(f, q + 1) THEN Place(f, q + 1) ELSE 0
<1> DEFINE a == Place(f, q)
<1>1. CASE f.kind = "root"
  <2>1. a = RootOffset + q * Cs /\ q * Cs \in Nat /\ a < DataOffset
    BY <1>1, Geometry DEF Place, HasPlace
  <2>2. RootOffset + (q + 1) * Cs = a + Cs
    <3>1. (q + 1) * Cs = q * Cs + Cs
      BY Geometry, Distributes
    <3> QED BY <2>1, <3>1, Geometry
  <2>3. n = [next |-> NextRoot(a), cache |-> c, tmp |-> t, ok |-> TRUE]
    BY <2>1 DEF NextCluster
  <2>4. NextRoot(a) = IF a + Cs < DataOffset THEN a + Cs ELSE 0
    BY <2>1, Geometry DEF NextRoot
  <2> HIDE DEF a
  <2>5. n.next = IF a + Cs < DataOffset THEN a + Cs ELSE 0
    BY <2>3, <2>4
  <2>6. HasPlace(f, q + 1) <=> a + Cs < DataOffset
    BY <1>1, <2>2 DEF HasPlace
  <2>7. Place(f, q + 1) = a + Cs
    BY <1>1, <2>2 DEF Place
  <2> QED BY <2>5, <2>6, <2>7
<1>2. CASE f.kind # "root"
  <2> DEFINE k == q + 1
             x == f.chain[k]
             y == ((a - DataOffset) \div Cs) + 2
             e == FatEntry(c, t, y, good)
  <2>1. k \in 1 .. Len(f.chain) /\ Len(f.chain) \in Nat
    BY <1>2, InChain, Zenon
  <2>2. x \in Nat /\ x - 2 \in Nat /\ EntryFits(x)
    <3> HIDE DEF k
    <3>1. x \in Clusters
      BY <2>1, ChainAt
    <3>2. EntryFits(x)
      BY <2>1, ChainFits
    <3> QED BY <3>1, <3>2, ClusterNumber
  <2>3. Entry12(x) = IF k < Len(f.chain) THEN f.chain[k + 1] ELSE 4095
    BY <2>1, EntryLinks
  <2>6. y = x /\ a \in Nat /\ DataOffset <= a
    BY <1>2, PlaceNumber
  <2> HIDE DEF x, a
  <2>8. n = [next |-> IF Chained(e.entry) THEN ClusterAt(e.entry) ELSE 0,
             cache |-> e.cache, tmp |-> e.tmp, ok |-> e.ok]
    <3>1. ~(a < DataOffset)
      BY <2>6, Geometry
    <3> QED BY <3>1 DEF NextCluster, a
  <2>9. e.ok /\ n.next = IF Chained(e.entry) THEN ClusterAt(e.entry) ELSE 0
    <3> HIDE DEF e
    <3> QED BY <2>8
  <2>10. e.entry = Entry12(x)
    <3> HIDE DEF y
    <3>1. y \in Nat /\ EntryFits(y)
      BY <2>2, <2>6
    <3>2. Looked(e, y)
      BY <3>1, FatEntryGood, Zenon
    <3> HIDE DEF e
    <3>3. e.entry = Entry12(y)
      BY <2>9, <3>1, <3>2 DEF EntryFits, Looked
    <3> QED BY <2>6, <3>3
  <2> HIDE DEF e
  <2>11. CASE k < Len(f.chain)
    <3> DEFINE l == k + 1
    <3>1. l \in 1 .. Len(f.chain)
      BY <2>1, <2>11
    <3>2. e.entry = f.chain[l]
      BY <2>3, <2>10, <2>11
    <3>3. e.entry \in Clusters
      <4> HIDE DEF l
      <4>1. f.chain[l] \in Clusters
        BY <3>1, ChainAt
      <4> QED BY <3>2, <4>1
    <3>4. Chained(e.entry)
      BY <3>3, ClusterChained
    <3>5. n.next = ClusterAt(f.chain[k + 1])
      BY <2>9, <3>2, <3>4
    <3>6. HasPlace(f, k)
      BY <1>2, <2>11 DEF HasPlace
    <3>7. Place(f, k) = ClusterAt(f.chain[k + 1])
      BY <1>2 DEF Place
    <3> QED BY <3>5, <3>6, <3>7
  <2>12. CASE ~(k < Len(f.chain))
    <3>1. e.entry = 4095
      BY <2>3, <2>10, <2>12
    <3>2. ~Chained(e.entry)
      BY <3>1 DEF Chained
    <3>3. ~HasPlace(f, k)
      BY <1>2, <2>12 DEF HasPlace
    <3> QED BY <2>9, <3>2, <3>3
  <2> QED BY <2>11, <2>12
<1> QED BY <1>1, <1>2

(* A byte of a file is in the cluster that its offset says.                *)
LEMMA WhereIs ==
  ASSUME NEW f \in Files, NEW q \in Nat, NEW j \in 0 .. Cs - 1, HasPlace(f, q)
  PROVE  Where(f, q * Cs + j) = Place(f, q) + j
<1>1. (q * Cs + j) \div Cs = q /\ (q * Cs + j) % Cs = j
  BY Geometry, Quotient
<1>2. CASE f.kind = "root"
  BY <1>2, Geometry DEF Where, Place
<1>3. CASE f.kind # "root"
  BY <1>1, <1>3 DEF Where, Place, ClusterAt
<1> QED BY <1>2, <1>3

(* Past the last place there is no byte of the file. *)
LEMMA NoPlace ==
  ASSUME NEW f \in Files, NEW q \in Nat, ~HasPlace(f, q)
  PROVE  Extent(f) \in Int /\ Extent(f) <= q * Cs
<1>1. q * Cs \in Nat
  BY Geometry
<1>2. CASE f.kind = "root"
  <2>1. Extent(f) = DataOffset - RootOffset
    BY <1>2, SMTT(60) DEF Extent
  <2> QED BY <1>1, <1>2, <2>1, Geometry DEF HasPlace
<1>3. CASE f.kind # "root"
  <2>1. Len(f.chain) \in Nat /\ Len(f.chain) <= q
    <3>1. PICK n \in Nat : n = Len(f.chain)
      BY ChainLength
    <3>2. n <= q
      BY <1>3, <3>1 DEF HasPlace
    <3> QED BY <3>1, <3>2
  <2>2. Len(f.chain) * Cs <= q * Cs /\ Len(f.chain) * Cs \in Nat
    BY <2>1, Geometry, Monotone
  <2>3. CASE f.kind = "dir"
    <3>1. Extent(f) = Len(f.chain) * Cs
      BY <2>3 DEF Extent
    <3> QED BY <2>2, <3>1
  <2>4. CASE f.kind = "file"
    <3>1. Extent(f) = f.size /\ f.size \in Nat /\ f.size <= Len(f.chain) * Cs
      BY <2>4, FileKinds, SizeFits DEF Extent
    <3> QED BY <1>1, <2>2, <3>1
  <2> QED BY <1>3, <2>3, <2>4, FileKinds
<1> QED BY <1>2, <1>3

LEMMA ExtentIsSize ==
  ASSUME NEW f \in Files
  PROVE  f.kind = "file" => Extent(f) = f.size
BY DEF Extent

LEMMA OneLess ==
  ASSUME NEW k \in Nat \ {0}, NEW x \in Int, NEW y, y = x - k
  PROVE  y % k = x % k
<1> DEFINE d == x \div k
           r == x % k
           e == d - 1
<1>1. d \in Int /\ r \in 0 .. k - 1 /\ x = d * k + r
  BY Division
<1> HIDE DEF d, r
<1>2. y = e * k + r
  <2>1. d * k \in Int
    BY <1>1
  <2>2. (e + 1) * k = e * k + k /\ e + 1 = d /\ e \in Int /\ e * k \in Int
    BY <1>1, Distributes
  <2> QED BY <1>1, <2>1, <2>2
<1>3. e \in Int
  BY <1>1
<1> HIDE DEF e
<1>4. (e * k + r) % k = r
  BY <1>1, <1>3, Quotient
<1> QED BY <1>2, <1>4 DEF r

------------------------------------------------------------------------------
(* The steps of a read. *)
LEMMA AdvanceKeeps ==
  ASSUME CacheOK(cache), cluster \in Nat, failed \in BOOLEAN, call.file \in Files,
         ret \in Int, pc = "run",
         NEW t \in Int, NEW good \in [1 .. 2 -> BOOLEAN],
         Advance(NextCluster(cache, t, cluster, good))
  PROVE  /\ CacheOK(cache') /\ tmp' \in Int /\ cluster' \in Nat
         /\ failed' \in BOOLEAN /\ (failed => failed')
         /\ ret' \in Int
         /\ cluster' = 0 => pc' = "done" /\ ret' = -1
         /\ cluster' # 0 => pc' = "run"
         /\ \A q \in Nat :
              HasPlace(call.file, q) /\ cluster = Place(call.file, q) /\ ~failed' =>
                IF HasPlace(call.file, q + 1)
                  THEN cluster' = Place(call.file, q + 1) /\ cluster' # 0
                  ELSE cluster' = 0
         /\ \A q \in Nat :
              /\ HasPlace(call.file, q) /\ cluster = Place(call.file, q)
              /\ ~failed /\ failed' /\ ~Split(call.file)
              => cluster' = 0
<1> PICK n : n = NextCluster(cache, t, cluster, good)
  OBVIOUS
<1>1. CacheOK(n.cache) /\ n.tmp \in Int /\ n.ok \in BOOLEAN /\ n.next \in Nat
  BY NextClusterKeeps
<1>2. /\ cluster' = n.next /\ tmp' = n.tmp /\ cache' = n.cache
      /\ failed' = (failed \/ ~n.ok)
      /\ IF n.next = 0 THEN Return(-1) ELSE UNCHANGED <<pc, ret>>
  BY DEF Advance
<1>3. /\ cluster' = 0 => pc' = "done" /\ ret' = -1
      /\ cluster' # 0 => pc' = "run"
      /\ ret' \in Int
  BY <1>2 DEF Return
<1>4. failed' \in BOOLEAN /\ (failed => failed') /\ (~failed' => n.ok)
  BY <1>1, <1>2, Zenon
<1>5. ASSUME NEW q \in Nat, HasPlace(call.file, q), cluster = Place(call.file, q), ~failed'
      PROVE  IF HasPlace(call.file, q + 1)
               THEN cluster' = Place(call.file, q + 1) /\ cluster' # 0
               ELSE cluster' = 0
  <2>1. n = NextCluster(cache, t, Place(call.file, q), good) /\ n.ok
    BY <1>4, <1>5
  <2>2. n.next = IF HasPlace(call.file, q + 1) THEN Place(call.file, q + 1) ELSE 0
    BY <1>5, <2>1, NextPlace
  <2>3. HasPlace(call.file, q + 1) => Place(call.file, q + 1) # 0
    <3> DEFINE k == q + 1
    <3>1. k \in Nat
      OBVIOUS
    <3> HIDE DEF k
    <3>2. HasPlace(call.file, k) => Place(call.file, k) # 0
      BY <3>1, PlaceType
    <3> QED BY <3>2 DEF k
  <2> QED BY <1>2, <2>2, <2>3
<1>6. ASSUME NEW q \in Nat, HasPlace(call.file, q), cluster = Place(call.file, q),
             ~failed, failed', ~Split(call.file)
      PROVE  cluster' = 0
  <2>1. n = NextCluster(cache, t, Place(call.file, q), good) /\ ~n.ok
    BY <1>2, <1>6
  <2>2. n.next = 0
    BY <1>6, <2>1, BrokenOff
  <2> QED BY <1>2, <2>2
<1> QED BY <1>1, <1>2, <1>3, <1>4, <1>5, <1>6

LEMMA InitInv == Init => FInv
<1> SUFFICES ASSUME Init PROVE FInv
  OBVIOUS
<1>1. CacheOK(cache)
  <2>1. /\ cache \in [clust : [Lines -> Int], rank : [Lines -> Byte],
                      buf : [Lines -> Int]]
        /\ \A i \in Lines : cache.clust[i] \notin FatOffset .. RootOffset - 1
    BY ImagesAssumption DEF Init
  <2>2. \A i \in Lines : ~InFat(cache.clust[i])
    <3> SUFFICES ASSUME NEW i \in Lines PROVE ~InFat(cache.clust[i])
      OBVIOUS
    <3>1. PICK a \in Int : a = cache.clust[i]
      BY <2>1
    <3>2. a \notin FatOffset .. RootOffset - 1
      BY <2>1, <3>1
    <3>3. ~InFat(a)
      BY <3>2, Geometry DEF InFat
    <3> QED BY <3>1, <3>3
  <2> QED BY <2>1, <2>2 DEF CacheOK
<1>2. call \in [file : Files, sz : Nat, off : Nat]
  BY DEF Init
<1>3. /\ pc = "idle" /\ cluster \in Nat /\ off \in Nat /\ pos \in Nat
      /\ tmp \in Int /\ ret \in Int /\ failed \in BOOLEAN
  <2>1. /\ pc = "idle" /\ cluster = 0 /\ off = 0 /\ pos = 0
        /\ tmp = 0 /\ ret = 0
    BY DEF Init
  <2>2. failed \in BOOLEAN
    BY DEF Init
  <2> QED BY <2>1, <2>2
<1>4. FailsOnlyOnError /\ ReadIsSlice
  BY <1>3 DEF FailsOnlyOnError, ReadIsSlice
<1>5. pc \in {"idle", "run", "done", "panic"} /\ ~(pc = "run")
  BY <1>3
<1> QED BY <1>1, <1>2, <1>3, <1>4, <1>5, Zenon DEF FInv

LEMMA CallStep ==
  ASSUME FInv, NEW f \in Files, NEW r \in Reads, Call(f, r)
  PROVE  FInv'
<1>1. r.sz \in Nat /\ r.off \in Nat
  BY FatAssumption
<1>2. /\ call' = [file |-> f, sz |-> r.sz, off |-> r.off]
      /\ call'.file = f /\ call'.sz = r.sz /\ call'.off = r.off
      /\ call' \in [file : Files, sz : Nat, off : Nat]
  BY <1>1 DEF Call
<1>3. /\ pc' = (IF PastEnd(f, r) THEN "panic" ELSE "run")
      /\ cluster' = FirstCluster(f) /\ off' = r.off /\ pos' = 0 /\ failed' = FALSE
      /\ out' = [n \in 0 .. r.sz - 1 |-> -1]
      /\ cache' = cache /\ tmp' = tmp /\ ret' = ret
  BY DEF Call
<1>4. HasPlace(f, 0) /\ Place(f, 0) = FirstCluster(f)
  <2>1. CASE f.kind = "root"
    BY <2>1, Geometry DEF HasPlace, Place, FirstCluster
  <2>2. CASE f.kind # "root"
    BY <2>2, ChainStarts DEF HasPlace, Place, FirstCluster
  <2> QED BY <2>1, <2>2
<1>5. cluster' \in Nat
  BY <1>3, <1>4, PlaceType
<1>6. ASSUME pc' = "run"
      PROVE  Running'
  <2>1. ~PastEnd(call'.file, call')
    BY <1>2, <1>3, <1>6 DEF PastEnd
  <2>2. out' \in [0 .. call'.sz - 1 -> Int]
    BY <1>2, <1>3
  <2>3. Reached(0)'
    BY <1>1, <1>2, <1>3, <1>4, Geometry DEF Reached, Beyond
  <2>4. Simple(call') => Copying(0)'
    BY <1>1, <1>2, <1>3, Geometry DEF Copying, Simple, Delivered
  <2>5. failed' = FALSE
    BY <1>3
  <2>6. 0 \in Nat
    OBVIOUS
  <2>7. (\E q \in Nat : Reached(q) /\ (Simple(call) => Copying(q)))'
    BY <2>3, <2>4, <2>6
  <2> QED BY <2>1, <2>2, <2>5, <2>7 DEF Running
<1>7. FailsOnlyOnError' /\ ReadIsSlice'
  BY <1>3 DEF FailsOnlyOnError, ReadIsSlice
<1>8. /\ CacheOK(cache') /\ pc' \in {"idle", "run", "done", "panic"}
      /\ cluster' \in Nat /\ off' \in Nat /\ pos' \in Nat
      /\ tmp' \in Int /\ ret' \in Int /\ failed' \in BOOLEAN
  BY <1>1, <1>3, <1>5 DEF FInv
<1> QED BY <1>2, <1>6, <1>7, <1>8 DEF FInv

(* A chain that ends before the part asked for: that part was not all in   *)
(* the file.                                                               *)
LEMMA EndsEarly ==
  ASSUME call \in [file : Files, sz : Nat, off : Nat], ~PastEnd(call.file, call),
         NEW q \in Nat, ~HasPlace(call.file, q),
         \/ q * Cs <= call.off
         \/ q * Cs < call.off + call.sz
  PROVE  \/ call.file.kind # "file" /\ call.off + call.sz > Extent(call.file)
         \/ call.sz = 0 /\ call.off = Extent(call.file)
<1>1. call.file \in Files /\ call.sz \in Nat /\ call.off \in Nat
  OBVIOUS
<1>2. /\ Extent(call.file) \in Int /\ Extent(call.file) <= q * Cs /\ q * Cs \in Nat
  BY <1>1, NoPlace, Geometry
<1>3. call.file.kind = "file" => call.off + call.sz <= Extent(call.file)
  BY <1>1, FileKinds, ExtentIsSize DEF PastEnd
<1> QED BY <1>1, <1>2, <1>3

LEMMA SeekStep ==
  ASSUME FInv, NEW good \in [1 .. 2 -> BOOLEAN], Seek(good)
  PROVE  FInv'
<1>1. /\ CacheOK(cache) /\ pc = "run" /\ Running /\ failed \in BOOLEAN
      /\ call \in [file : Files, sz : Nat, off : Nat]
      /\ cluster \in Nat /\ off \in Nat /\ pos \in Nat /\ tmp \in Int /\ ret \in Int
  BY DEF FInv, Seek
<1>2. call.file \in Files /\ call.sz \in Nat /\ call.off \in Nat
  BY <1>1
<1>3. /\ Cs <= off /\ off' = (IF cluster' = 0 THEN off ELSE off - Cs)
      /\ call' = call /\ pos' = pos /\ out' = out
      /\ Advance(NextCluster(cache, tmp, cluster, good))
  BY <1>1, Geometry DEF Seek, Beyond
<1>4. /\ CacheOK(cache') /\ tmp' \in Int /\ cluster' \in Nat
      /\ failed' \in BOOLEAN /\ (failed => failed')
      /\ ret' \in Int
      /\ cluster' = 0 => pc' = "done" /\ ret' = -1
      /\ cluster' # 0 => pc' = "run"
      /\ \A q \in Nat :
           HasPlace(call.file, q) /\ cluster = Place(call.file, q) /\ ~failed' =>
             IF HasPlace(call.file, q + 1)
               THEN cluster' = Place(call.file, q + 1) /\ cluster' # 0
               ELSE cluster' = 0
      /\ \A q \in Nat :
           /\ HasPlace(call.file, q) /\ cluster = Place(call.file, q)
           /\ ~failed /\ failed' /\ ~Split(call.file)
           => cluster' = 0
  BY <1>1, <1>2, <1>3, AdvanceKeeps
<1>5. off' \in Nat /\ pos' \in Nat
  BY <1>1, <1>3, Geometry
<1>6. /\ ~PastEnd(call.file, call) /\ out \in [0 .. call.sz - 1 -> Int]
      /\ \/ failed /\ Split(call.file)
         \/ ~failed /\ \E q \in Nat : Reached(q) /\ (Simple(call) => Copying(q))
  BY <1>1 DEF Running
<1>7. CASE failed'
  <2>1. Split(call.file) \/ cluster' = 0
    BY <1>4, <1>6, <1>7 DEF Reached
  <2>2. FailsOnlyOnError' /\ ReadIsSlice'
    BY <1>3, <1>4, <1>7, <2>1 DEF FailsOnlyOnError, ReadIsSlice
  <2>3. pc' = "run" => Running'
    BY <1>3, <1>4, <1>6, <1>7, <2>1 DEF Running
  <2> QED BY <1>1, <1>3, <1>4, <1>5, <2>2, <2>3 DEF FInv
<1>8. CASE ~failed'
  <2>1. PICK q \in Nat : Reached(q) /\ (Simple(call) => Copying(q))
    BY <1>4, <1>6, <1>8
  <2>2. /\ HasPlace(call.file, q) /\ cluster = Place(call.file, q) /\ pos = 0
        /\ q * Cs + off <= call.off /\ q * Cs \in Nat
    BY <1>1, <1>2, <1>3, <2>1, Geometry DEF Reached, Beyond
  <2>3. IF HasPlace(call.file, q + 1)
          THEN cluster' = Place(call.file, q + 1) /\ cluster' # 0
          ELSE cluster' = 0
    BY <1>4, <1>8, <2>2
  <2> PICK p \in Nat : p = q + 1
    OBVIOUS
  <2>4. p * Cs = q * Cs + Cs /\ p * Cs \in Nat
    BY Geometry, Distributes
  <2>5. CASE HasPlace(call.file, p)
    <3>1. cluster' # 0 /\ pc' = "run" /\ off' = off - Cs /\ cluster' = Place(call.file, p)
      BY <1>3, <1>4, <2>3, <2>5
    <3>2. Reached(p)'
      BY <1>1, <1>2, <1>3, <2>2, <2>4, <2>5, <3>1, Geometry DEF Reached, Beyond
    <3>3. ASSUME Simple(call)
          PROVE  Copying(p)'
      <4>1. off' % Cs = off % Cs
        <5>1. off \in Int /\ off' = off - Cs
          BY <1>1, <3>1
        <5> QED BY <5>1, Geometry, OneLess
      <4>2. /\ pos < call.sz => q * Cs + off = call.off + pos /\ Delivered(pos)
            /\ pos >= call.sz => Delivered(call.sz)
            /\ off % Cs = 0 \/ (pos = 0 /\ (off % Cs) + call.sz <= Cs)
        BY <2>1, <3>3 DEF Copying
      <4>3. pos < call.sz => p * Cs + off' = call.off + pos
        BY <1>1, <2>2, <2>4, <3>1, <4>2, Geometry
      <4>4. Delivered(0)'
        BY DEF Delivered
      <4>5. pos' = 0 /\ call' = call
        BY <1>3, <2>2
      <4>6. /\ pos' < call'.sz => p * Cs + off' = call'.off + pos' /\ Delivered(pos)'
            /\ pos' >= call'.sz => Delivered(call.sz)'
        <5>1. pos' < call'.sz => p * Cs + off' = call'.off + pos'
          BY <2>2, <4>3, <4>5
        <5>2. Delivered(pos)'
          BY <4>5 DEF Delivered
        <5>3. pos' >= call'.sz => Delivered(call.sz)'
          BY <1>2, <4>5 DEF Delivered
        <5> QED BY <5>1, <5>2, <5>3
      <4>7. off' % Cs = 0 \/ (pos' = 0 /\ (off' % Cs) + call'.sz <= Cs)
        BY <4>1, <4>2, <4>5
      <4> QED BY <4>6, <4>7 DEF Copying
    <3>4. Running'
      BY <1>3, <1>6, <1>8, <3>2, <3>3 DEF Running
    <3> QED BY <1>1, <1>3, <1>4, <1>5, <3>1, <3>4
            DEF FInv, FailsOnlyOnError, ReadIsSlice
  <2>6. CASE ~HasPlace(call.file, p)
    <3>1. pc' = "done" /\ ret' = -1
      BY <1>4, <2>3, <2>6
    <3>2. p * Cs <= call.off
      BY <1>1, <1>2, <1>3, <2>2, <2>4, Geometry
    <3>3. \/ call.file.kind # "file" /\ call.off + call.sz > Extent(call.file)
          \/ call.sz = 0 /\ call.off = Extent(call.file)
      BY <1>1, <1>6, <2>6, <3>2, EndsEarly
    <3>4. FailsOnlyOnError' /\ ReadIsSlice'
      BY <1>3, <3>1, <3>3 DEF FailsOnlyOnError, ReadIsSlice
    <3> QED BY <1>1, <1>3, <1>4, <1>5, <3>1, <3>4 DEF FInv
  <2> QED BY <2>5, <2>6
<1> QED BY <1>7, <1>8

(* Copying the part wanted of a cluster delivers it. *)
LEMMA CopyDelivers ==
  ASSUME call \in [file : Files, sz : Nat, off : Nat], out \in [0 .. call.sz - 1 -> Int],
         off \in Nat, pos \in Nat, off < Cs, call' = call,
         NEW q \in Nat, HasPlace(call.file, q), cluster = Place(call.file, q),
         q * Cs + off = call.off + pos, Delivered(pos),
         NEW len \in Nat, len <= Cs - off,
         NEW m \in Nat, m = pos + len, m <= call.sz,
         out' = Copied(cluster + off, len)
  PROVE  \A k \in 0 .. m - 1 : out'[k] = Where(call.file, call.off + k)
<1>1. call.file \in Files /\ call.sz \in Nat /\ call.off \in Nat /\ q * Cs \in Nat
  BY Geometry
<1> SUFFICES ASSUME NEW k \in 0 .. m - 1
             PROVE  out'[k] = Where(call.file, call.off + k)
  OBVIOUS
<1>2. k \in 0 .. call.sz - 1 /\ DOMAIN out = 0 .. call.sz - 1
  BY <1>1, SMTT(60)
<1>3. out'[k] = IF k \in pos .. pos + len - 1 THEN cluster + off + k - pos ELSE out[k]
  BY <1>2 DEF Copied
<1>4. CASE k < pos
  <2>1. out'[k] = out[k]
    BY <1>3, <1>4
  <2>2. k \in 0 .. pos - 1
    BY <1>4
  <2> QED BY <2>1, <2>2 DEF Delivered
<1>5. CASE ~(k < pos)
  <2> PICK j \in Int : j = off + k - pos
    OBVIOUS
  <2>1. j \in 0 .. Cs - 1
    BY <1>5, Geometry
  <2>2. call.off + k = q * Cs + j
    <3>1. \A x, y \in Nat : x + off = y + pos => y + k = x + j
      OBVIOUS
    <3> QED BY <1>1, <3>1
  <2>3. Where(call.file, q * Cs + j) = Place(call.file, q) + j
    BY <1>1, <2>1, WhereIs
  <2>4. out'[k] = cluster + j
    <3>1. cluster \in Nat
      BY <1>1, PlaceType
    <3>2. out'[k] = cluster + off + k - pos
      BY <1>3, <1>5
    <3> QED BY <3>1, <3>2
  <2> QED BY <2>2, <2>3, <2>4
<1> QED BY <1>4, <1>5

LEMMA CopyTypes ==
  ASSUME out \in [0 .. call.sz - 1 -> Int], pos \in Nat, call.sz \in Nat,
         NEW from \in Int, NEW len \in Int, out' = Copied(from, len)
  PROVE  out' \in [0 .. call.sz - 1 -> Int]
<1>1. \A n \in 0 .. call.sz - 1 : from + n - pos \in Int /\ out[n] \in Int
  OBVIOUS
<1> QED BY <1>1 DEF Copied

LEMMA CopyOnStep ==
  ASSUME FInv, NEW good \in [1 .. 2 -> BOOLEAN], CopyOn(good)
  PROVE  FInv'
<1>1. /\ CacheOK(cache) /\ pc = "run" /\ Running /\ failed \in BOOLEAN
      /\ call \in [file : Files, sz : Nat, off : Nat]
      /\ cluster \in Nat /\ off \in Nat /\ pos \in Nat /\ tmp \in Int /\ ret \in Int
  BY DEF FInv, CopyOn
<1>2. call.file \in Files /\ call.sz \in Nat /\ call.off \in Nat
  BY <1>1
<1>3. /\ off < Cs /\ pos < call.sz /\ call.sz - pos > Cs - off
      /\ off' = (IF cluster' = 0 THEN off ELSE 0)
      /\ pos' = (IF cluster' = 0 THEN pos ELSE pos + Cs)
      /\ call' = call /\ out' = Copied(cluster, Cs - off)
      /\ Advance(NextCluster(cache, cluster, cluster, good))
  BY <1>1, <1>2, Geometry DEF CopyOn, Beyond, Last
<1>4. /\ CacheOK(cache') /\ tmp' \in Int /\ cluster' \in Nat
      /\ failed' \in BOOLEAN /\ (failed => failed')
      /\ ret' \in Int
      /\ cluster' = 0 => pc' = "done" /\ ret' = -1
      /\ cluster' # 0 => pc' = "run"
      /\ \A q \in Nat :
           HasPlace(call.file, q) /\ cluster = Place(call.file, q) /\ ~failed' =>
             IF HasPlace(call.file, q + 1)
               THEN cluster' = Place(call.file, q + 1) /\ cluster' # 0
               ELSE cluster' = 0
      /\ \A q \in Nat :
           /\ HasPlace(call.file, q) /\ cluster = Place(call.file, q)
           /\ ~failed /\ failed' /\ ~Split(call.file)
           => cluster' = 0
  <2>1. cluster \in Int
    BY <1>1
  <2> QED BY <1>1, <1>2, <1>3, <2>1, AdvanceKeeps
<1>5. off' \in Nat /\ pos' \in Nat
  BY <1>1, <1>3, Geometry
<1>6. /\ ~PastEnd(call.file, call) /\ out \in [0 .. call.sz - 1 -> Int]
      /\ \/ failed /\ Split(call.file)
         \/ ~failed /\ \E q \in Nat : Reached(q) /\ (Simple(call) => Copying(q))
  BY <1>1 DEF Running
<1>7. out' \in [0 .. call.sz - 1 -> Int]
  <2>1. cluster \in Int /\ Cs - off \in Int
    BY <1>1, Geometry
  <2> QED BY <1>1, <1>2, <1>3, <1>6, <2>1, CopyTypes
<1>8. CASE failed'
  <2>1. Split(call.file) \/ cluster' = 0
    BY <1>4, <1>6, <1>8 DEF Reached
  <2>2. FailsOnlyOnError' /\ ReadIsSlice'
    BY <1>3, <1>4, <1>8, <2>1 DEF FailsOnlyOnError, ReadIsSlice
  <2>3. pc' = "run" => Running'
    BY <1>3, <1>4, <1>6, <1>7, <1>8, <2>1 DEF Running
  <2> QED BY <1>1, <1>3, <1>4, <1>5, <2>2, <2>3 DEF FInv
<1>9. CASE ~failed'
  <2>1. PICK q \in Nat : Reached(q) /\ (Simple(call) => Copying(q))
    BY <1>4, <1>6, <1>9
  <2>2. /\ HasPlace(call.file, q) /\ cluster = Place(call.file, q)
        /\ q * Cs + off <= call.off + pos /\ q * Cs \in Nat
    BY <2>1, Geometry DEF Reached
  <2>3. IF HasPlace(call.file, q + 1)
          THEN cluster' = Place(call.file, q + 1) /\ cluster' # 0
          ELSE cluster' = 0
    BY <1>4, <1>9, <2>2
  <2> PICK p \in Nat : p = q + 1
    OBVIOUS
  <2>4. p * Cs = q * Cs + Cs /\ p * Cs \in Nat
    BY Geometry, Distributes
  <2>5. CASE HasPlace(call.file, p)
    <3>1. /\ cluster' # 0 /\ pc' = "run" /\ cluster' = Place(call.file, p)
          /\ off' = 0 /\ pos' = pos + Cs
      BY <1>3, <1>4, <2>3, <2>5
    <3>2. Reached(p)'
      BY <1>1, <1>2, <1>3, <2>2, <2>4, <2>5, <3>1, Geometry DEF Reached, Beyond
    <3>3. ASSUME Simple(call)
          PROVE  Copying(p)'
      <4>1. /\ q * Cs + off = call.off + pos /\ Delivered(pos)
            /\ off % Cs = 0 \/ (pos = 0 /\ (off % Cs) + call.sz <= Cs)
        BY <1>3, <2>1, <3>3 DEF Copying
      <4>2. off % Cs = off
        BY <1>1, <1>3, Geometry
      <4>3. off = 0
        BY <1>1, <1>2, <1>3, <4>1, <4>2, Geometry
      <4> PICK m \in Nat : m = pos + Cs
        BY <1>1, Geometry
      <4>4. /\ out' = Copied(cluster + off, Cs) /\ Cs <= Cs - off
            /\ m <= call.sz /\ Cs \in Nat
        BY <1>1, <1>2, <1>3, <4>3, Geometry
      <4>5. \A k \in 0 .. m - 1 : out'[k] = Where(call.file, call.off + k)
        BY <1>1, <1>3, <1>6, <2>2, <4>1, <4>4, CopyDelivers
      <4>6. Delivered(pos)'
        <5>1. call' = call /\ pos' = m
          BY <1>3, <3>1
        <5> QED BY <4>5, <5>1 DEF Delivered
      <4>7. pos' < call'.sz /\ p * Cs + off' = call'.off + pos'
        BY <1>1, <1>2, <1>3, <2>4, <3>1, <4>1, <4>3, Geometry
      <4>8. off' % Cs = 0
        BY <3>1, Geometry
      <4>9. ~(pos' >= call'.sz)
        BY <1>2, <1>3, <1>5, <4>7
      <4> QED BY <4>6, <4>7, <4>8, <4>9 DEF Copying
    <3>4. Running'
      BY <1>3, <1>6, <1>7, <1>9, <3>2, <3>3 DEF Running
    <3> QED BY <1>1, <1>3, <1>4, <1>5, <3>1, <3>4
            DEF FInv, FailsOnlyOnError, ReadIsSlice
  <2>6. CASE ~HasPlace(call.file, p)
    <3>1. pc' = "done" /\ ret' = -1
      BY <1>4, <2>3, <2>6
    <3>2. p * Cs < call.off + call.sz
      BY <1>1, <1>2, <1>3, <2>2, <2>4, Geometry
    <3>3. \/ call.file.kind # "file" /\ call.off + call.sz > Extent(call.file)
          \/ call.sz = 0 /\ call.off = Extent(call.file)
      BY <1>1, <1>6, <2>6, <3>2, EndsEarly
    <3>4. FailsOnlyOnError' /\ ReadIsSlice'
      BY <1>3, <3>1, <3>3 DEF FailsOnlyOnError, ReadIsSlice
    <3> QED BY <1>1, <1>3, <1>4, <1>5, <3>1, <3>4 DEF FInv
  <2> QED BY <2>5, <2>6
<1> QED BY <1>8, <1>9

LEMMA CopyLastStep ==
  ASSUME FInv, CopyLast
  PROVE  FInv'
<1>1. /\ CacheOK(cache) /\ pc = "run" /\ Running /\ failed \in BOOLEAN
      /\ call \in [file : Files, sz : Nat, off : Nat]
      /\ cluster \in Nat /\ off \in Nat /\ pos \in Nat /\ tmp \in Int /\ ret \in Int
  BY DEF FInv, CopyLast
<1>2. call.file \in Files /\ call.sz \in Nat /\ call.off \in Nat
  BY <1>1
<1> PICK len \in Nat : len = call.sz - pos
  BY <1>1, <1>2 DEF CopyLast
<1>3. /\ off < Cs /\ pos < call.sz /\ len <= Cs - off
      /\ off' = 0 /\ pos' = pos + Cs /\ tmp' = cluster
      /\ out' = Copied(cluster + off, len)
      /\ cache' = cache /\ pc' = pc /\ call' = call /\ cluster' = cluster
      /\ ret' = ret /\ failed' = failed
  BY <1>1, <1>2, Geometry DEF CopyLast, Beyond, Last, LastPart
<1>4. /\ ~PastEnd(call.file, call) /\ out \in [0 .. call.sz - 1 -> Int]
      /\ \/ failed /\ Split(call.file)
         \/ ~failed /\ \E q \in Nat : Reached(q) /\ (Simple(call) => Copying(q))
  BY <1>1 DEF Running
<1>5. out' \in [0 .. call.sz - 1 -> Int]
  <2>1. cluster + off \in Int /\ len \in Int
    BY <1>1
  <2> QED BY <1>1, <1>2, <1>3, <1>4, <2>1, CopyTypes
<1>6. off' \in Nat /\ pos' \in Nat /\ tmp' \in Int
  BY <1>1, <1>3, Geometry
<1>7. ASSUME ~failed
      PROVE  \E q \in Nat : Reached(q)' /\ (Simple(call) => Copying(q)')
  <2>1. PICK q \in Nat : Reached(q) /\ (Simple(call) => Copying(q))
    BY <1>4, <1>7
  <2>2. /\ HasPlace(call.file, q) /\ cluster = Place(call.file, q)
        /\ q * Cs + off <= call.off + pos /\ q * Cs \in Nat
    BY <2>1, Geometry DEF Reached
  <2>3. Reached(q)'
    BY <1>1, <1>2, <1>3, <2>2, Geometry DEF Reached, Beyond
  <2>4. ASSUME Simple(call)
        PROVE  Copying(q)'
    <3>1. q * Cs + off = call.off + pos /\ Delivered(pos)
      BY <1>3, <2>1, <2>4 DEF Copying
    <3> PICK m \in Nat : m = call.sz
      BY <1>2
    <3>2. m = pos + len /\ m <= call.sz
      BY <1>1, <1>2
    <3>3. \A k \in 0 .. m - 1 : out'[k] = Where(call.file, call.off + k)
      BY <1>1, <1>3, <1>4, <2>2, <3>1, <3>2, CopyDelivers
    <3>4. Delivered(call.sz)'
      <4>1. call' = call /\ call'.sz = m
        BY <1>3
      <4> QED BY <3>3, <4>1 DEF Delivered
    <3>5. ~(pos' < call'.sz)
      BY <1>1, <1>2, <1>3, Geometry
    <3>6. off' % Cs = 0
      BY <1>3, Geometry
    <3> QED BY <3>4, <3>5, <3>6 DEF Copying
  <2> QED BY <2>3, <2>4
<1>8. Running'
  BY <1>3, <1>4, <1>5, <1>7 DEF Running
<1>9. pc' = "run"
  BY <1>1, <1>3
<1>10. FailsOnlyOnError' /\ ReadIsSlice'
  BY <1>9 DEF FailsOnlyOnError, ReadIsSlice
<1> QED BY <1>1, <1>3, <1>6, <1>8, <1>9, <1>10 DEF FInv

LEMMA UnreadableStep ==
  ASSUME FInv, Unreadable
  PROVE  FInv'
<1>1. /\ pc' = "done" /\ ret' = -1 /\ failed' = TRUE /\ cache' = cache
      /\ call' = call /\ cluster' = cluster /\ off' = off /\ pos' = pos /\ tmp' = tmp
  BY DEF Unreadable, Return
<1>2. FailsOnlyOnError'
  BY <1>1 DEF FailsOnlyOnError
<1>3. ret' \in Int /\ failed' \in BOOLEAN
  BY <1>1
<1>4. ReadIsSlice'
  BY <1>1 DEF ReadIsSlice
<1> QED BY <1>1, <1>2, <1>3, <1>4 DEF FInv

LEMMA FinishStep ==
  ASSUME FInv, Finish
  PROVE  FInv'
<1>1. /\ pc' = "done" /\ ret' = call.sz /\ failed' = failed /\ cache' = cache
      /\ call' = call /\ cluster' = cluster /\ off' = off /\ pos' = pos /\ tmp' = tmp
      /\ out' = out /\ pc = "run" /\ pos >= call.sz
  BY DEF Finish, Return
<1>2. call \in [file : Files, sz : Nat, off : Nat] /\ Running
  BY <1>1 DEF FInv
<1>3. call.sz \in Nat
  BY <1>2
<1>4. FailsOnlyOnError'
  BY <1>1, <1>3 DEF FailsOnlyOnError
<1>5. ASSUME ~(failed /\ Split(call.file)), Simple(call)
      PROVE  ReadIsSlice'
  <2>1. PICK q \in Nat : Copying(q)
    BY <1>2, <1>5 DEF Running
  <2>2. Delivered(call.sz)
    BY <1>1, <2>1 DEF Copying
  <2> QED BY <1>1, <2>2 DEF ReadIsSlice, Delivered
<1>6. ret' \in Int
  BY <1>1, <1>3
<1>7. Simple(call') => ReadIsSlice'
  <2>1. CASE failed /\ Split(call.file)
    BY <1>1, <2>1 DEF ReadIsSlice
  <2> QED BY <1>1, <1>5, <2>1
<1> QED BY <1>1, <1>4, <1>6, <1>7 DEF FInv

LEMMA Idle ==
  ASSUME FInv, UNCHANGED vars
  PROVE  FInv'
BY DEF vars, FInv, Running, Reached, Copying, Delivered, Beyond, FailsOnlyOnError,
       ReadIsSlice

LEMMA StepInv == FInv /\ [Next]_vars => FInv'
<1> SUFFICES ASSUME FInv, [Next]_vars PROVE FInv'
  OBVIOUS
<1>1. ASSUME NEW f \in Files, NEW r \in Reads, Call(f, r) PROVE FInv'
  BY <1>1, CallStep
<1>2. ASSUME NEW good \in [1 .. 2 -> BOOLEAN], Seek(good) PROVE FInv'
  BY <1>2, SeekStep
<1>3. ASSUME NEW good \in [1 .. 2 -> BOOLEAN], CopyOn(good) PROVE FInv'
  BY <1>3, CopyOnStep
<1>4. CASE Unreadable
  BY <1>4, UnreadableStep
<1>5. CASE CopyLast
  BY <1>5, CopyLastStep
<1>6. CASE Finish
  BY <1>6, FinishStep
<1>7. CASE UNCHANGED vars
  BY <1>7, Idle
<1> QED BY <1>1, <1>2, <1>3, <1>4, <1>5, <1>6, <1>7 DEF Next, Step

------------------------------------------------------------------------------
LEMMA Always == Spec => []FInv
BY InitInv, StepInv, PTL DEF Spec

(* Types of the variables; a rank of the cache stays a byte.               *)
THEOREM TypeCorrect == Spec => []TypeOK
<1>1. FInv => TypeOK
  <2> SUFFICES ASSUME FInv PROVE TypeOK
    OBVIOUS
  <2>1. /\ cache.clust \in [Lines -> Int] /\ cache.buf \in [Lines -> Int]
        /\ cache.rank \in [Lines -> Byte]
    BY DEF FInv, CacheOK
  <2>2. call.file \in Files /\ {call.sz, call.off} \subseteq Nat
    BY DEF FInv
  <2>3. {cluster, off, pos} \subseteq Nat
    BY DEF FInv
  <2> QED BY <2>1, <2>2, <2>3 DEF FInv, TypeOK
<1> QED BY <1>1, Always, PTL

(* fat.c:110-144: whatever reads fail, a line of the cache that is entered *)
(* for a sector of the FAT holds that sector, and it is the only one.      *)
THEOREM CacheHolds == Spec => []CacheCoherent
<1>1. FInv => CacheCoherent
  BY DEF FInv, CacheOK, CacheCoherent
<1> QED BY <1>1, Always, PTL

(* fat.c:253-263, 273-283: no chain ends early: an error means that the    *)
(* medium failed, or that what was asked for is not all in the file.       *)
THEOREM NoChainEndsEarly == Spec => []FailsOnlyOnError
<1>1. FInv => FailsOnlyOnError
  BY DEF FInv
<1> QED BY <1>1, Always, PTL

(* fat.c:252-291: a read that begins with a cluster or stays within one    *)
(* and does not fail delivers what was asked for, whatever was read before *)
(* it, and whatever failed then; if the medium fails during the read, only *)
(* the second half of a split entry (fat.c:177-181) can make it deliver    *)
(* anything else.                                                          *)
THEOREM SimpleReads == Spec => [](Simple(call) => ReadIsSlice)
<1>1. FInv => (Simple(call) => ReadIsSlice)
  BY DEF FInv
<1> QED BY <1>1, Always, PTL

==============================================================================
