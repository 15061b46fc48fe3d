---------------------------------- MODULE Fat ----------------------------------
(***************************************************************************)
(* Reading files from the boot floppy: storage/fs/fat.c, on top of the     *)
(* sector reads of storage/bios.c.                                         *)
(*                                                                         *)
(* A byte of the medium is its address.  What a buffer holds is where its  *)
(* bytes came from: `tmp' and the cache buffers hold a run of bytes that   *)
(* began at an address, `out' says for each byte given to the caller which *)
(* address it was read from.  The bytes of the FAT are packed as on disk.  *)
(*                                                                         *)
(* One call of _fat_file_read is a sequence of steps, one per pass of its  *)
(* two loops; any of its reads of the medium may fail.  The FAT cache      *)
(* lives on from call to call.                                             *)
(***************************************************************************)
EXTENDS Integers, Sequences

CONSTANTS
  SectorSize, PerCluster,            \* bytes_per_sector, sectors_per_cluster
  FatOffset, RootOffset, DataOffset, \* areas of the file system, in bytes
  FatSize,                           \* bytes of one of the copies of the FAT
  DiskSize,                          \* bytes the medium can deliver
  CacheCnt,                          \* FAT_CACHE_CNT
  Files,                             \* [kind, chain, size] on the medium
  Reads,                             \* [sz, off] a caller may ask for
  Images                             \* the cache as alloc() may deliver it

Cs == PerCluster * SectorSize \* cluster_size

ASSUME FatAssumption ==
  /\ {SectorSize, PerCluster, CacheCnt} \subseteq Nat \ {0}
  /\ {FatOffset, RootOffset, DataOffset, DiskSize} \subseteq Nat
  /\ 0 < FatOffset /\ FatOffset < RootOffset /\ RootOffset < DataOffset
  /\ \A a \in {FatOffset, RootOffset, DataOffset, DiskSize} : a % SectorSize = 0
  /\ FatSize \in Nat \ {0} /\ FatOffset + FatSize <= RootOffset
  /\ \A f \in Files : f.kind \in {"root", "dir", "file"}
  /\ \A r \in Reads : {r.sz, r.off} \subseteq Nat

VARIABLES
  cache,   \* fdata->cache: clust, rank and the origin of each buffer
  pc,      \* where _fat_file_read is
  call,    \* its arguments: [file, sz, off]
  cluster, off, pos, tmp, \* its locals
  out,     \* origin of each byte of the caller's buffer, -1 if not written
  ret,     \* its result
  failed   \* a read of the medium has failed during this call

vars == <<cache, pc, call, cluster, off, pos, tmp, out, ret, failed>>

Lines == 1 .. CacheCnt
Byte == 0 .. 255

(* alloc() does not clear the cache.  Left-over bytes are taken to name no *)
(* sector of the FAT; with others the first look-up could go wrong.        *)
ASSUME ImagesAssumption ==
  /\ Images \subseteq [clust : [Lines -> Int], rank : [Lines -> Byte],
                       buf : [Lines -> Int]]
  /\ \A c \in Images, i \in Lines : c.clust[i] \notin FatOffset .. RootOffset - 1

------------------------------------------------------------------------------
(* The medium, as mkfs and mcopy leave it: the clusters of a file are      *)
(* linked in the FAT, two 12-bit entries to three bytes, and the copies of *)
(* the FAT are equal.                                                      *)
Clusters == 2 .. 4080

Links == UNION {{f} \X DOMAIN f.chain : f \in Files}

(* No two places of a file or of two files share a cluster, each cluster   *)
(* has its entry in the FAT, and a file fits the clusters it has.          *)
ASSUME FilesAssumption ==
  /\ \A f \in Files :
       /\ f.chain \in Seq(Clusters) /\ f.size \in Nat
       /\ f.kind # "root" => f.chain # <<>>
       /\ f.kind = "file" => f.size <= Len(f.chain) * Cs
       /\ \A k \in DOMAIN f.chain :
            ((f.chain[k] * 3) \div 2) + 1 < FatSize
  /\ \A l, m \in Links : l[1].chain[l[2]] = m[1].chain[m[2]] => l = m

Linked(n) == {l \in Links : l[1].chain[l[2]] = n}

Entry12(n) ==
  IF Linked(n) = {} THEN 0
  ELSE LET l == CHOOSE l \in Linked(n) : TRUE
       IN  IF l[2] < Len(l[1].chain) THEN l[1].chain[l[2] + 1] ELSE 4095

FatByte(a) ==
  LET i == (a - FatOffset) % FatSize
      even == 2 * (i \div 3)
  IN  CASE i % 3 = 0 -> Entry12(even) % 256
        [] i % 3 = 1 -> (Entry12(even) \div 256) + 16 * (Entry12(even + 1) % 16)
        [] OTHER     -> Entry12(even + 1) \div 16

(* Where byte k of file f is. *)
Where(f, k) ==
  IF f.kind = "root" THEN RootOffset + k
  ELSE DataOffset + (f.chain[(k \div Cs) + 1] - 2) * Cs + (k % Cs)

Extent(f) ==
  CASE f.kind = "root" -> DataOffset - RootOffset
    [] f.kind = "dir"  -> Len(f.chain) * Cs
    [] f.kind = "file" -> f.size

------------------------------------------------------------------------------
(* _fat_cache_touch *)
Touched(c, i) ==
  [c EXCEPT !.rank = [j \in Lines |->
     IF j = i THEN 0
     ELSE IF c.rank[j] < c.rank[i] THEN c.rank[j] + 1 ELSE c.rank[j]]]

(* _fat_try_cache: the first line for this address. *)
Hits(c, a) == {i \in Lines : c.clust[i] = a}
Lowest(S) == CHOOSE i \in S : \A j \in S : i <= j

(* _fat_add_cache: the first line of the highest rank. *)
Oldest(c) ==
  Lowest({i \in Lines : \A j \in Lines : c.rank[j] <= c.rank[i]})

AddedEarly(c, a) == \* mutant: the address is entered, the buffer not filled
  Touched([c EXCEPT !.clust[Oldest(c)] = a], Oldest(c))

Added(c, a) ==
  Touched([c EXCEPT !.clust[Oldest(c)] = a, !.buf[Oldest(c)] = a], Oldest(c))

(* storage->read of one cluster, possible at all only on the medium.       *)
OnDisk(a) == a >= 0 /\ a + Cs <= DiskSize

(* _fat_read_fat_data up to its mask: the state of the cache and of tmp    *)
(* after it, and whether it has data; `good' says the medium works.        *)
Fetched(c, t, o, good) ==
  LET a == o - (o % SectorSize)
  IN  IF Hits(c, a) # {}
        THEN LET i == Lowest(Hits(c, a))
             IN  [cache |-> IF c.rank[i] # 0 THEN Touched(c, i) ELSE c,
                  tmp |-> c.buf[i], ok |-> TRUE]
      ELSE IF good /\ OnDisk(a)
        THEN [cache |-> Added(c, a), tmp |-> a, ok |-> TRUE]
      ELSE [cache |-> c, tmp |-> t, ok |-> FALSE]

(* The byte at offset i of a buffer filled from address b; beyond the      *)
(* buffer there is none.                                                   *)
ByteOf(b, i) == IF i < Cs THEN FatByte(b + i) ELSE 0

Halves(v, n) == (IF n % 2 = 1 THEN v \div 16 ELSE v) % 4096

StraddlesNever(o) == FALSE \* mutant: no case for a split entry

Straddles(o) == o % Cs = Cs - 1

(* _fat_get_fat_entry of cluster n: an entry whose second byte is in the   *)
(* next cluster takes two reads; a failed read yields ones.                *)
FatEntry(c, t, n, good) ==
  LET o    == FatOffset + ((n * 3) \div 2)
      i    == o % SectorSize
      one  == Fetched(c, t, o, good[1])
      two  == Fetched(one.cache, one.tmp, o + 1, good[2])
      low  == ByteOf(one.tmp, i)
      high == IF two.ok THEN ByteOf(two.tmp, (o + 1) % SectorSize) ELSE 255
      got(r, v) == [cache |-> r.cache, tmp |-> r.tmp, ok |-> one.ok /\ r.ok,
                    entry |-> Halves(IF one.ok THEN v ELSE 65535, n)]
  IN  IF Straddles(o) THEN got(two, low + 256 * high)
                      ELSE got(one, low + 256 * ByteOf(one.tmp, i + 1))

ChainedShort(e) == e > 2 /\ e <= 4080 \* mutant: cluster 2 ends a chain

Chained(e) == e >= 2 /\ e <= 4080

ClusterAtZero(n) == DataOffset + n * Cs \* mutant: counted from 0

ClusterAt(n) == DataOffset + (n - 2) * Cs

(* _fat_get_next_cluster: 0 when there is none. *)
NextRoot(a) ==
  IF a >= RootOffset /\ a + Cs < DataOffset THEN a + Cs ELSE 0

NextCluster(c, t, a, good) ==
  IF a < DataOffset
    THEN [next |-> NextRoot(a), cache |-> c, tmp |-> t, ok |-> TRUE]
  ELSE LET e == FatEntry(c, t, ((a - DataOffset) \div Cs) + 2, good)
       IN  [next |-> IF Chained(e.entry)
                       THEN ClusterAt(e.entry) ELSE 0,
            cache |-> e.cache, tmp |-> e.tmp, ok |-> e.ok]

------------------------------------------------------------------------------
(* _fat_file_read *)
Nowhere == [n \in {} |-> -1]

Init ==
  /\ cache \in Images
  /\ pc = "idle" /\ call \in {[file |-> f, sz |-> 0, off |-> 0] : f \in Files}
  /\ cluster = 0 /\ off = 0 /\ pos = 0 /\ tmp = 0
  /\ out = Nowhere /\ ret = 0 /\ failed = FALSE

FirstCluster(f) ==
  IF f.kind = "root" THEN RootOffset ELSE ClusterAt(f.chain[1])

PastEnd(f, r) == f.kind = "file" /\ r.off + r.sz > f.size

(* The call, up to its first loop.  A read past the end of a file panics,  *)
(* and nothing runs after that.                                            *)
Call(f, r) ==
  /\ pc \in {"idle", "done"}
  /\ pc' = IF PastEnd(f, r) THEN "panic" ELSE "run"
  /\ call' = [file |-> f, sz |-> r.sz, off |-> r.off]
  /\ cluster' = FirstCluster(f) /\ off' = r.off /\ pos' = 0
  /\ out' = [n \in 0 .. r.sz - 1 |-> -1]
  /\ failed' = FALSE
  /\ UNCHANGED <<cache, tmp, ret>>

Return(r) == pc' = "done" /\ ret' = r

(* Go to the next cluster, or return an error when there is none.          *)
Advance(n) ==
  /\ cluster' = n.next /\ tmp' = n.tmp /\ cache' = n.cache
  /\ failed' = (failed \/ ~n.ok)
  /\ IF n.next = 0 THEN Return(-1) ELSE UNCHANGED <<pc, ret>>

Beyond == off >= Cs

(* First loop: to the cluster that holds the first byte. *)
Seek(good) ==
  /\ pc = "run" /\ Beyond
  /\ Advance(NextCluster(cache, tmp, cluster, good))
  /\ off' = IF cluster' = 0 THEN off ELSE off - Cs
  /\ UNCHANGED <<call, pos, out>>

Last == call.sz - pos <= Cs - off

(* memcpy of the part wanted of tmp, which holds the bytes from `from' on. *)
Copied(from, len) ==
  [n \in DOMAIN out |-> IF n \in pos .. pos + len - 1 THEN from + n - pos ELSE out[n]]

LastPartStart == cluster \* mutant: tmp, not tmp + off

LastPart == cluster + off

(* Second loop: a cluster is read; the last part is taken from its place,  *)
(* an earlier one from the beginning of tmp.                               *)
Unreadable ==
  /\ pc = "run" /\ ~Beyond /\ pos < call.sz
  /\ Return(-1) /\ failed' = TRUE
  /\ UNCHANGED <<cache, call, cluster, off, pos, tmp, out>>

CopyLast ==
  /\ pc = "run" /\ ~Beyond /\ pos < call.sz /\ OnDisk(cluster) /\ Last
  /\ tmp' = cluster
  /\ out' = Copied(LastPart, call.sz - pos)
  /\ off' = 0 /\ pos' = pos + Cs
  /\ UNCHANGED <<cache, pc, call, cluster, ret, failed>>

CopyOn(good) ==
  /\ pc = "run" /\ ~Beyond /\ pos < call.sz /\ OnDisk(cluster) /\ ~Last
  /\ out' = Copied(cluster, Cs - off)
  /\ Advance(NextCluster(cache, cluster, cluster, good))
  /\ IF cluster' = 0 THEN UNCHANGED <<off, pos>>
     ELSE off' = 0 /\ pos' = pos + Cs
  /\ UNCHANGED call

Finish ==
  /\ pc = "run" /\ ~Beyond /\ pos >= call.sz
  /\ Return(call.sz)
  /\ UNCHANGED <<cache, call, cluster, off, pos, tmp, out, failed>>

Step ==
  \/ \E good \in [1 .. 2 -> BOOLEAN] : (Seek(good) \/ CopyOn(good))
  \/ Unreadable \/ CopyLast \/ Finish

Next == Step \/ \E f \in Files, r \in Reads : Call(f, r)

Spec == Init /\ [][Next]_vars

------------------------------------------------------------------------------
InFat(a) == a >= FatOffset /\ a < RootOffset

(* Types of the variables; a rank stays in its uint8_t.                    *)
TypeOK ==
  /\ cache.clust \in [Lines -> Int] /\ cache.buf \in [Lines -> Int]
  /\ cache.rank \in [Lines -> Byte]
  /\ pc \in {"idle", "run", "done", "panic"}
  /\ call.file \in Files /\ {call.sz, call.off} \subseteq Nat
  /\ {cluster, off, pos} \subseteq Nat /\ tmp \in Int
  /\ ret \in Int /\ failed \in BOOLEAN

(* Some cluster of the file has its entry in two clusters of the FAT.      *)
Split(f) ==
  \E k \in DOMAIN f.chain : Straddles(FatOffset + ((f.chain[k] * 3) \div 2))

(* fat.c:252-291: a read that does not fail delivers, byte for byte, the   *)
(* part of the file that was asked for, whatever was read before it and    *)
(* whatever failed then; and if the medium fails during the read, nothing  *)
(* else is delivered either, unless that was the second half of a split    *)
(* entry, for which ones stand in (fat.c:177-181).                         *)
ReadIsSlice ==
  pc = "done" /\ ret # -1 /\ ~(failed /\ Split(call.file)) =>
    /\ ret = call.sz
    /\ \A k \in 0 .. ret - 1 : out[k] = Where(call.file, call.off + k)

(* fat.c:110-144: a line entered for a sector of the FAT holds that        *)
(* sector, and no sector is in two lines; so a failed read leaves no line  *)
(* behind that would answer for it later.                                  *)
CacheCoherent ==
  \A i, j \in Lines : InFat(cache.clust[i]) =>
    /\ cache.buf[i] = cache.clust[i]
    /\ cache.clust[j] = cache.clust[i] => i = j

(* fat.c:253-263, 273-283: an error is returned only if the medium failed, *)
(* the end of a directory was passed, or nothing was asked for, at the end *)
(* of the last cluster: no chain ends early.                               *)
FailsOnlyOnError ==
  pc = "done" /\ ret = -1 =>
    \/ failed
    \/ call.file.kind # "file" /\ call.off + call.sz > Extent(call.file)
    \/ call.sz = 0 /\ call.off = Extent(call.file)
==============================================================================
